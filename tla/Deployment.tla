----------------------------- MODULE Deployment -----------------------------
(***************************************************************************)
(* compile_onnx_bundle and simulate_bundle: the optimized graph is         *)
(* quantized, packed into a bundle (memory plan and commands), and the     *)
(* bundle is run layer by layer by the simulation host.                    *)
(*                                                                         *)
(* Rounding is left out: a quantized tensor keeps the symbolic value of    *)
(* the tensor it was made from, and a byte of memory is known by the       *)
(* tensor it belongs to and its place there.                               *)
(***************************************************************************)
EXTENDS GraphPasses

CONSTANTS
  Alignment,       \* of the regions of scratch memory, in bytes
  Timeouts,        \* the values of SimulationConfig.timeout_cycles
  Stalls,          \* how often a stream may find its receiver not ready
  ReluName         \* the node whose name in the ONNX file is "Relu", or 0

ASSUME DeploymentAssumption ==
  /\ Alignment \in Nat \ {0} /\ Timeouts \subseteq Nat \ {0}
  /\ Stalls \subseteq Nat /\ ReluName \in Nat

VARIABLES
  stage,      \* "passes", "plan", "run", "complete" or how it failed
  dtype,      \* tensor -> compiled_dtype, once the graph is quantized
  offsets,    \* memory plan: tensor -> offset
  cursor,     \* where the memory plan ends so far
  commands,   \* commands.bin, with the schedule's cycles for a fallback
  memory,     \* scratch memory: address -> byte
  timeout,    \* timeout_cycles of this simulation
  layers,     \* the LayerTrace of each layer run
  counters    \* PerformanceCounters: total_cycles and error_count

bundle     == << dtype, offsets, cursor, commands >>
simulation == << memory, timeout, layers, counters >>
deployment == << stage, bundle, simulation >>

EmptyFunction == [x \in {} |-> 0]

DeploymentInit ==
  /\ Init
  /\ stage = "passes" /\ dtype = EmptyFunction
  /\ offsets = EmptyFunction /\ cursor = 0 /\ commands = << >>
  /\ memory = EmptyFunction /\ timeout = 0 /\ layers = << >>
  /\ counters = [total_cycles |-> 0, error_count |-> 0]

Optimize == stage = "passes" /\ Next /\ UNCHANGED deployment

Optimized == stage = "passes" /\ pass > Len(Pipeline) /\ ~refused
-----------------------------------------------------------------------------
(* quantization/compiler.py *)
ProducedBy(type) == {o.output : o \in {p \in ToSet(operations) : p.type = type}}

Executable ==
  /\ \A o \in ToSet(operations) : o.type \in {"Conv", "View", "Softmax"}
  /\ \A o \in ToSet(operations) :
       /\ o.inputs[1] \notin ProducedBy("Softmax")
       /\ \A i \in 2 .. Len(o.inputs) : tensors[o.inputs[i]].constant

(* Each convolution is given constants of its own, named after it. *)
weight_name(tens, o) == unique_tensor_name(tens, "int8_weights", o.name)
bias_name(tens, o)   == unique_tensor_name(tens, "int32_bias", o.name)

QuantizedOperation(tens, o) ==
  IF o.type = "Conv"
    THEN [o EXCEPT !.inputs = << o.inputs[1], weight_name(tens, o), bias_name(tens, o) >>]
    ELSE o

QuantizedWeights(tens, o) == tens[o.inputs[2]]

QuantizedBias(tens, o) == BiasTensor(tens[o.inputs[2]].shape[1], bias_steps(tens, o))

Quantized(g) ==
  LET convolutions == {o \in ToSet(g.operations) : o.type = "Conv"}
      weights == {weight_name(g.tensors, o) : o \in convolutions}
      biases  == {bias_name(g.tensors, o) : o \in convolutions}
  IN  [operations |-> [i \in DOMAIN g.operations |->
                         QuantizedOperation(g.tensors, g.operations[i])],
       tensors    |-> [t \in DOMAIN g.tensors \cup weights \cup biases |->
                         IF t \in weights THEN QuantizedWeights(g.tensors, Named(g.operations, t[2]))
                         ELSE IF t \in biases THEN QuantizedBias(g.tensors, Named(g.operations, t[2]))
                         ELSE g.tensors[t]]]

RefuseToQuantize ==
  /\ Optimized /\ ~Executable
  /\ stage' = "not supported"
  /\ UNCHANGED << vars, bundle, simulation >>

Quantize ==
  /\ Optimized /\ Executable
  /\ LET g == Quantized([operations |-> operations, tensors |-> tensors])
     IN  /\ operations' = g.operations /\ tensors' = g.tensors
         /\ linked' = g.operations
         /\ dtype' = [t \in Inputs \cup {o.output : o \in ToSet(g.operations)} |->
                        IF t \in ProducedBy("Softmax") THEN "float32" ELSE "int8"]
  /\ stage' = "plan"
  /\ UNCHANGED << outputs, pass, todo, dropped, refused, source,
                  offsets, cursor, commands, simulation >>
-----------------------------------------------------------------------------
(* bundle.py *)
align(value) == ((value + Alignment - 1) \div Alignment) * Alignment

Elements(t) ==
  LET shape == tensors[t].shape
      product[n \in 0 .. Len(shape)] == IF n = 0 THEN 1 ELSE product[n - 1] * shape[n]
  IN  product[Len(shape)]

BytePerElement(t) == 1

ElementSize(t) == IF dtype[t] = "int8" THEN 1 ELSE 4

Size(t) == Elements(t) * ElementSize(t)

(* What the value takes when it is written (_tensor_bytes): execution      *)
(* gives floats for a Softmax and 8-bit integers for all others.           *)
Bytes(t) == Elements(t) * (IF t \in ProducedBy("Softmax") THEN 4 ELSE 1)

(* The tensors the memory plan goes through: the inputs and then, operation *)
(* by operation, the outputs.                                              *)
PlannedInputs == Inputs \ DOMAIN offsets

PlannedOutputs ==
  {i \in DOMAIN operations : LET t == operations[i].output
                             IN  ~tensors[t].constant /\ t \notin DOMAIN offsets}

Planned ==
  IF PlannedInputs # {} THEN PlannedInputs
  ELSE {operations[i].output : i \in {k \in PlannedOutputs : \A j \in PlannedOutputs : k <= j}}

(* One turn of the loop of _memory_plan. *)
Allocate ==
  /\ stage = "plan"
  /\ \E t \in Planned :
       /\ offsets' = [x \in DOMAIN offsets \cup {t} |-> IF x = t THEN align(cursor) ELSE offsets[x]]
       /\ cursor' = align(cursor) + Size(t)
  /\ UNCHANGED << vars, stage, dtype, commands, simulation >>

OffsetOf(t) == IF t \in DOMAIN offsets THEN offsets[t] ELSE 0

(* Opcode and backend follow from the operation; constants are found by    *)
(* the names of their tensors.                                             *)
Command(o) ==
  [type          |-> o.type,
   backend       |-> o.backend,
   input_offset  |-> OffsetOf(o.inputs[1]),
   output_offset |-> OffsetOf(o.output),
   constants     |-> Tail(o.inputs),
   flag          |-> ReluName \in ToSet(o.fused)]

Region(t) == offsets[t] .. offsets[t] + Bytes(t) - 1

InBounds(mem, t) == Region(t) \subseteq DOMAIN mem

Written(mem, names) ==
  [a \in DOMAIN mem |->
     IF \E t \in names : a \in Region(t)
       THEN LET t == CHOOSE t \in names : a \in Region(t) IN << t, a - offsets[t] >>
       ELSE mem[a]]

EmptyMemory == [a \in 0 .. align(cursor) - 1 |-> << >>]

(* The bundle is written and opened by the simulator, and the inputs go to *)
(* memory.                                                                 *)
BuildAndLoad ==
  /\ stage = "plan" /\ Planned = {}
  /\ commands' = [i \in DOMAIN operations |-> Command(operations[i])]
  /\ IF \A t \in Inputs : InBounds(EmptyMemory, t)
       THEN memory' = Written(EmptyMemory, Inputs) /\ stage' = "run"
       ELSE stage' = "out of bounds" /\ UNCHANGED memory
  /\ timeout' \in Timeouts
  /\ UNCHANGED << vars, dtype, offsets, cursor, layers, counters >>
-----------------------------------------------------------------------------
(* simulator.py *)
ToRun(o, backends) ==
  /\ stage = "run" /\ Len(layers) < Len(commands)
  /\ o = operations[Len(layers) + 1]
  /\ commands[Len(layers) + 1].backend \in backends

Finish(o, cycles) ==
  /\ counters' = [counters EXCEPT !.total_cycles = @ + cycles]
  /\ layers' = Append(layers, [start |-> counters.total_cycles, end |-> counters'.total_cycles])
  /\ memory' = IF InBounds(memory, o.output) THEN Written(memory, {o.output}) ELSE memory
  /\ stage' = IF ~InBounds(memory, o.output) THEN "out of bounds"
              ELSE IF Len(layers) + 1 = Len(commands) THEN "complete" ELSE "run"
  /\ UNCHANGED << vars, bundle, timeout >>

TimeOut(cycles, counted) ==
  /\ stage' = "timeout"
  /\ counters' = [total_cycles |-> counters.total_cycles + cycles,
                  error_count  |-> counters.error_count + counted]
  /\ UNCHANGED << vars, bundle, memory, timeout, layers >>

Larger(a, b) == IF a > b THEN a ELSE b

ComputeAlone(before, cycles) == cycles <= timeout

ComputeInTime(before, cycles) == before + cycles <= timeout

(* A convolution: the weights and the activations are streamed in, all     *)
(* sums are computed, the outputs are streamed out.  A stream that needs   *)
(* more cycles than the layer has left is cut off at the limit.            *)
RunConvolution(o) ==
  /\ ToRun(o, {"fpga"})
  /\ \E weight_stalls, input_stalls, output_stalls \in Stalls :
       LET compute == Elements(o.output) * Shape(o.inputs[1])[2]
           loaded  == Elements(o.inputs[2]) + weight_stalls + Elements(o.inputs[1]) + input_stalls
           sums    == loaded + compute
           end     == sums + Elements(o.output) + output_stalls
       IN  \/ loaded > timeout /\ TimeOut(timeout, 1)
           \/ loaded <= timeout /\ ~ComputeInTime(loaded, compute) /\ TimeOut(loaded, 1)
           \/ /\ loaded <= timeout /\ ComputeInTime(loaded, compute)
              /\ IF end > timeout THEN TimeOut(Larger(timeout, sums), 1) ELSE Finish(o, end)

(* The host executes the rest itself, in one go.                           *)
RunFallback(o) ==
  /\ ToRun(o, {"arm", "metadata"})
  /\ LET cycles == Elements(o.output)
     IN  IF cycles > timeout THEN TimeOut(0, 0) ELSE Finish(o, cycles)

DeploymentNext ==
  \/ Optimize
  \/ RefuseToQuantize
  \/ Quantize
  \/ Allocate
  \/ BuildAndLoad
  \/ \E o \in ToSet(operations) : RunConvolution(o) \/ RunFallback(o)

DeploymentSpec == DeploymentInit /\ [][DeploymentNext]_<< vars, deployment >>
-----------------------------------------------------------------------------
(* Scratch memory is planned once and written while the layers run: every  *)
(* input and every output of a layer that has run is still there, byte by  *)
(* byte, and so is the operand at the place the next command names; and no *)
(* write leaves the memory.                                                *)
Present == Inputs \cup {operations[i].output : i \in DOMAIN layers}

Holds(offset, t) == \A k \in 0 .. Bytes(t) - 1 : memory[offset + k] = << t, k >>

ScratchHoldsValues ==
  /\ stage # "out of bounds"
  /\ stage \in {"run", "complete"} =>
       /\ \A t \in Present : Holds(offsets[t], t)
       /\ Len(layers) < Len(commands) =>
            Holds(commands[Len(layers) + 1].input_offset, operations[Len(layers) + 1].inputs[1])

(* The traces of the layers lie end to end in simulated time, and no       *)
(* layer, not even the one that is cut off, is given more cycles than the  *)
(* limit, however its streams stall; a simulation completes without error. *)
Spans == layers \o << [start |-> IF layers = << >> THEN 0 ELSE Last(layers).end,
                       end   |-> counters.total_cycles] >>

TimeoutKept ==
  /\ \A i \in DOMAIN Spans :
       /\ Spans[i].end - Spans[i].start \in 0 .. timeout
       /\ i > 1 => Spans[i].start = Spans[i - 1].end
  /\ stage = "complete" => counters.error_count = 0

(* Bit zero of a command's flags tells the device to rectify, as the       *)
(* operation does that the command was made from                           *)
(* (docs/deployment_bundle.md).                                            *)
FlagDenotesRelu ==
  \A i \in DOMAIN commands : commands[i].flag = operations[i].relu
=============================================================================
