---------------------------- MODULE BundlePackage ----------------------------
(***************************************************************************)
(* What the files of a bundle hold and how they are read again: the        *)
(* packing of constants, quantization parameters and commands in           *)
(* compiler/backend/bundle.py, the decoding in runtime/simulator.py and    *)
(* the convolution that runtime/rtl_bundle.py takes out for the RTL.       *)
(*                                                                         *)
(* A graph has numbered tensors, in the order of their names.  A byte of a *)
(* constant is known by the data it comes from and its place there; the    *)
(* places in scratch memory are the subject of Deployment.                 *)
(***************************************************************************)
EXTENDS BundleDirectory, Integers

CONSTANTS
  GraphOf(_),      \* the quantized graph of a model
  BlobAlignment,   \* ALIGNMENT of the constants in a blob, in bytes
  RtlShapes        \* the shapes of input, weights, bias and output the RTL has

Product(shape) ==
  LET product[n \in 0 .. Len(shape)] == IF n = 0 THEN 1 ELSE product[n - 1] * shape[n]
  IN  product[Len(shape)]

Width(dtype) == CASE dtype = "int8" -> 1 [] dtype = "float64" -> 8 [] OTHER -> 4

(* _tensor_bytes: what it refuses to pack, and the bytes of the rest.  A    *)
(* refusal comes before the first file is written and leaves, like a death *)
(* there, an empty directory.                                              *)
Packable(tensor) == tensor.dtype \in {"int8", "int32", "float", "float32", "float64"}

Data(tensor) ==
  [k \in 1 .. Product(tensor.shape) * Width(tensor.dtype) |-> << tensor.data, k >>]

Linear(op) == op.type \in {"Conv", "Gemm"}

blob_of(g, t) ==
  LET is_operand(k) == \E i \in DOMAIN g.operations :
                         Linear(g.operations[i]) /\ g.operations[i].inputs[k] = t
  IN  IF is_operand(2) THEN "weights" ELSE IF is_operand(3) THEN "biases" ELSE "constants"

(* _pack_constants: turn by turn through the tensors, what one of the      *)
(* blobs holds; each constant begins at an aligned byte.                   *)
Aligned(blob) == blob \o [k \in 1 .. (-Len(blob)) % BlobAlignment |-> << "padding", 0 >>]

Packed(g, kind) ==
  LET blob[t \in 0 .. Len(g.tensors)] ==
        IF t = 0 THEN << >>
        ELSE IF g.tensors[t].constant /\ blob_of(g, t) = kind
               THEN Aligned(blob[t - 1]) \o Data(g.tensors[t])
               ELSE blob[t - 1]
  IN  blob

Blob(g, kind) == Packed(g, kind)[Len(g.tensors)]

(* Faulty variant: where the blob ended before the padding. *)
end_of_previous(g, t) == Len(Packed(g, blob_of(g, t))[t - 1])

offset_of(g, t) == Len(Aligned(Packed(g, blob_of(g, t))[t - 1]))

PackedLocations(g) ==
  [t \in {u \in DOMAIN g.tensors : g.tensors[u].constant} |->
    [file |-> blob_of(g, t), offset |-> offset_of(g, t), size |-> Len(Data(g.tensors[t]))]]

(* Lists joined, up to each of them. *)
Joined(lists) ==
  LET joined[n \in 0 .. Len(lists)] == IF n = 0 THEN << >> ELSE joined[n - 1] \o lists[n]
  IN  joined

(* _pack_quantization: one record of eight bytes for each output channel.  *)
RecordSize == 8

ChannelLists(g) ==
  [i \in DOMAIN g.operations |->
    IF Linear(g.operations[i]) THEN g.operations[i].channels ELSE << >>]

quantization_offset(g, i) ==
  IF Linear(g.operations[i]) THEN RecordSize * Len(Joined(ChannelLists(g))[i - 1]) ELSE 0

Opcodes == [Conv |-> 1, MaxPool |-> 2, View |-> 3, Gemm |-> 4, Softmax |-> 5]

Opcode(type) == IF type \in DOMAIN Opcodes THEN Opcodes[type] ELSE 255

BackendCode(backend) ==
  CASE backend = "fpga" -> 1 [] backend = "arm" -> 2 [] backend = "metadata" -> 3 [] OTHER -> 0

CommandOf(g, locations, i) ==
  LET op == g.operations[i]
      constant_offset(k) ==
        IF k \in DOMAIN op.inputs /\ op.inputs[k] \in DOMAIN locations
          THEN locations[op.inputs[k]].offset ELSE 0
  IN  [opcode              |-> Opcode(op.type),
       backend             |-> BackendCode(op.backend),
       weight_offset       |-> constant_offset(2),
       bias_offset         |-> constant_offset(3),
       quantization_offset |-> quantization_offset(g, i),
       flag                |-> op.relu,
       index               |-> i - 1]

(* The tensors of a list, one element behind the other, as reference data. *)
Values(tensor) == [k \in 1 .. Product(tensor.shape) |-> << tensor.data, k >>]

ReferenceLists(g, names) == [i \in DOMAIN names |-> Values(g.tensors[names[i]])]

ReferenceData(g, names) == Joined(ReferenceLists(g, names))[Len(names)]

PackedFile(file, g) ==
  LET locations == PackedLocations(g)
  IN  CASE file = "graph.json"           -> g
        [] file = "commands.bin"         -> [i \in DOMAIN g.operations |-> CommandOf(g, locations, i)]
        [] file = "weights.bin"          -> Blob(g, "weights")
        [] file = "biases.bin"           -> Blob(g, "biases")
        [] file = "constants.bin"        -> Blob(g, "constants")
        [] file = "quantization.bin"     -> Joined(ChannelLists(g))[Len(g.operations)]
        [] file = "schedule.json"        -> [i \in DOMAIN g.operations |-> g.operations[i].name]
        [] file = "reference_input.bin"  -> ReferenceData(g, g.inputs)
        [] file = "reference_output.bin" -> ReferenceData(g, g.outputs)
-----------------------------------------------------------------------------
(* Bytes of a blob from an offset on; fewer if the blob ends before.       *)
Slice(blob, offset, size) ==
  SubSeq(blob, offset + 1, IF offset + size < Len(blob) THEN offset + size ELSE Len(blob))

(* What simulate_bundle checks before and in every layer. *)
PayloadMatches(b, i) ==
  LET g  == b["graph.json"]
      op == g.operations[i]
      command == b["commands.bin"][i]
      same(file, offset, t) == Slice(b[file], offset, Len(Data(g.tensors[t]))) = Data(g.tensors[t])
  IN  /\ op.type \in DOMAIN Opcodes /\ command.opcode = Opcodes[op.type]
      /\ command.backend = BackendCode(op.backend) /\ command.backend \in 1 .. 3
      /\ b["schedule.json"][i] = op.name
      /\ Linear(op) =>
           /\ same("weights.bin", command.weight_offset, op.inputs[2])
           /\ same("biases.bin", command.bias_offset, op.inputs[3])

(* _reference_inputs *)
InputCursor(b) ==
  LET g == b["graph.json"]
      cursor[n \in 0 .. Len(g.inputs)] ==
        IF n = 0 THEN 0 ELSE cursor[n - 1] + Product(g.tensors[g.inputs[n]].shape)
  IN  cursor

ReferenceInput(b, i) ==
  LET g == b["graph.json"]
  IN  Slice(b["reference_input.bin"], InputCursor(b)[i - 1],
            Product(g.tensors[g.inputs[i]].shape))

NothingTrails(b) ==
  InputCursor(b)[Len(b["graph.json"].inputs)] = Len(b["reference_input.bin"])

Simulates(b) ==
  LET commands == b["commands.bin"]
  IN  /\ Len(commands) = Len(b["graph.json"].operations)
      /\ \A i \in DOMAIN commands : commands[i].index = i - 1 /\ PayloadMatches(b, i)
      /\ NothingTrails(b)

(* _program_conv: the lengths and the flag the registers are given.        *)
Programmed(b, i) ==
  LET g  == b["graph.json"]
      op == g.operations[i]
      count(t) == Product(g.tensors[t].shape)
  IN  [INPUT_LENGTH |-> count(op.inputs[1]), WEIGHT_LENGTH |-> count(op.inputs[2]),
       OUTPUT_LENGTH |-> count(op.output), FLAGS |-> op.relu]
-----------------------------------------------------------------------------
(* extract_fixed_convolution: what the RTL is run with, or Nothing.        *)
Accepted(b) ==
  LET g  == b["graph.json"]
      op == g.operations[1]
      shape(t) == g.tensors[t].shape
  IN  /\ Len(g.operations) = 1 /\ op.type = "Conv" /\ op.backend = "fpga"
      /\ << shape(op.inputs[1]), shape(op.inputs[2]), shape(op.inputs[3]), shape(op.output) >>
           = RtlShapes
      /\ g.tensors[op.inputs[1]].scaled
      /\ Len(b["commands.bin"]) = 1
      /\ Len(b["reference_input.bin"]) = Product(RtlShapes[1])
      /\ Len(b["reference_output.bin"]) = Product(RtlShapes[4])

Invocation(b) ==
  LET op      == b["graph.json"].operations[1]
      command == b["commands.bin"][1]
      read_array(file, t) ==
        LET at == b["manifest.json"].locations[t] IN Slice(b[file], at.offset, at.size)
      first   == command.quantization_offset \div RecordSize
  IN  [weights     |-> read_array("weights.bin", op.inputs[2]),
       biases      |-> read_array("biases.bin", op.inputs[3]),
       channels    |-> SubSeq(b["quantization.bin"], first + 1, first + RtlShapes[2][1]),
       relu        |-> command.flag,
       activations |-> b["reference_input.bin"],
       expected    |-> b["reference_output.bin"]]

(* The inputs one output along an axis is made of: by the operation, and   *)
(* by the RTL engine, which steps by one and knows no padding.             *)
Taps(op, kernel, at) == {at * op.stride - op.pad + k : k \in 0 .. kernel - 1}
EngineTaps(kernel, at) == {at + k : k \in 0 .. kernel - 1}
-----------------------------------------------------------------------------
(* What quantization returns: operations it knows; every linear one has    *)
(* weights in eight bits and biases of its own, and fixed-point parameters *)
(* for each channel of its weights.  "scaled" tensors have one positive    *)
(* scale.                                                                  *)
List(s) == s \in Seq({s[i] : i \in DOMAIN s})

Quantized(g) ==
  /\ List(g.tensors) /\ List(g.operations) /\ g.inputs \in Seq(DOMAIN g.tensors)
  /\ \A t \in DOMAIN g.tensors : g.tensors[t].shape \in Seq(Nat)
  /\ \A i \in DOMAIN g.operations :
       LET op == g.operations[i]
       IN  /\ op.type \in DOMAIN Opcodes /\ op.backend \in {"fpga", "arm", "metadata"}
           /\ Linear(op) =>
                /\ DOMAIN op.inputs = 1 .. 3
                /\ \A k \in 2 .. 3 : /\ op.inputs[k] \in DOMAIN g.tensors
                                     /\ g.tensors[op.inputs[k]].constant
                /\ g.tensors[op.inputs[2]].dtype = "int8"
                /\ List(op.channels)
                /\ op.type = "Conv" => Len(op.channels) = g.tensors[op.inputs[2]].shape[1]
                /\ \A j \in DOMAIN g.operations :
                     Linear(g.operations[j]) => g.operations[j].inputs[2] # op.inputs[3]

(* A build that is not refused writes, and a manifest locates, what is     *)
(* packed of the graph.                                                    *)
ASSUME PackageAssumption ==
  /\ BlobAlignment \in Nat \ {0}
  /\ {"graph.json", "commands.bin", "weights.bin", "biases.bin", "quantization.bin",
      "schedule.json", "reference_input.bin", "reference_output.bin"} \subseteq Files
  /\ \A m \in Models : /\ Quantized(GraphOf(m))
                       /\ \A t \in DOMAIN GraphOf(m).tensors :
                            GraphOf(m).tensors[t].constant => Packable(GraphOf(m).tensors[t])
                       /\ Locations(m) = PackedLocations(GraphOf(m))
                       /\ \A f \in Files : Contents(f, m) = PackedFile(f, GraphOf(m))
-----------------------------------------------------------------------------
(* Whatever is packed is found again: a bundle opened whole is simulated   *)
(* without a complaint, every command finds its own weights, biases and    *)
(* channel parameters whatever lies before them, the registers and the RTL *)
(* are given what the graph says, and reference data is split where it was *)
(* joined.                                                                 *)
PackedModelReads ==
  opened \in Images =>
    LET g  == opened["graph.json"]
        is(t) == Data(g.tensors[t])
    IN  /\ Simulates(opened)
        /\ \A i \in DOMAIN g.inputs :
             ReferenceInput(opened, i) = Values(g.tensors[g.inputs[i]])
        /\ \A i \in DOMAIN g.operations :
             LET op    == g.operations[i]
                 first == opened["commands.bin"][i].quantization_offset \div RecordSize
             IN  Linear(op) =>
                   /\ op.channels = SubSeq(opened["quantization.bin"], first + 1,
                                           first + Len(op.channels))
                   /\ Programmed(opened, i).WEIGHT_LENGTH
                        = opened["manifest.json"].locations[op.inputs[2]].size
        /\ Accepted(opened) =>
             LET op  == g.operations[1]
                 run == Invocation(opened)
             IN  /\ run.weights = is(op.inputs[2]) /\ run.biases = is(op.inputs[3])
                 /\ run.channels = op.channels /\ run.relu = Programmed(opened, 1).FLAGS

(* The RTL is run only with a convolution it computes                      *)
(* (docs/supported_operators.md): each output is made of the inputs the    *)
(* operation names.                                                        *)
AcceptedRunsAsDeclared ==
  opened # Nothing /\ Accepted(opened) =>
    LET op     == opened["graph.json"].operations[1]
        kernel == RtlShapes[2][3]
    IN  \A at \in 0 .. RtlShapes[4][3] - 1 : Taps(op, kernel, at) = EngineTaps(kernel, at)
=============================================================================
