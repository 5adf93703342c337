----------------------------- MODULE GraphPasses -----------------------------
(***************************************************************************)
(* optimize_graph of tensorwright/compiler/passes: the six passes of the   *)
(* default pipeline over an imported graph.  One step is one turn of a     *)
(* pass's loop over the operations.                                        *)
(*                                                                         *)
(* The graph is imported node by node, so that all small graphs occur.     *)
(* Every operation has one output.  Numbers are symbolic: the value of a   *)
(* tensor is the expression of inputs and initializers it stands for, in   *)
(* exact arithmetic.  A convolution is kept as its base weights, the batch *)
(* normalizations that scaled them, and the steps that made its bias.  The *)
(* four parameters of a batch normalization are one tensor.                *)
(***************************************************************************)
EXTENDS Integers, Sequences, FiniteSets, SequencesExt

CONSTANTS
  Channels,       \* channels, rows and columns of an activation
  Menu,           \* for each node in turn, the operation types it may have
  Initializers    \* the tensors that are no node's output: name -> tensor

NodeTypes == {"Conv", "Add", "BatchNormalization", "Relu", "Softmax", "Reshape", "Constant"}

VARIABLES
  operations, tensors, outputs,   \* the graph
  linked,      \* the operations whose links the tensors carry
  pass,        \* place in Pipeline; 0 while the graph is imported
  todo,        \* names of the operations the pass has still to visit; operations
               \* are named by the order of their nodes, which the list keeps
  dropped,     \* names of those it will leave out at its end
  refused,     \* rebuild_links has raised an error
  source       \* the operations and tensors as imported

vars == << operations, tensors, outputs, linked, pass, todo, dropped, refused, source >>

Pipeline == << "fold_constants", "fold_batch_normalization", "fuse_conv_bias_relu",
               "canonicalize_shape_operations", "eliminate_dead_code", "assign_backends" >>

Running(name) == ~refused /\ pass \in DOMAIN Pipeline /\ Pipeline[pass] = name

Backend(type) ==
  CASE type \in {"Conv", "Relu"} -> "fpga"
    [] type \in {"Add", "BatchNormalization", "Constant"} -> "compiler"
    [] type = "Softmax"              -> "arm"
    [] type \in {"Reshape", "View"} -> "metadata"
-----------------------------------------------------------------------------
(* What the operations compute. *)
Undefined == [kind |-> "undefined"]

Vector(shape, steps) == [kind |-> "vector", shape |-> shape, steps |-> steps]

(* What stands in the file.  Images come only as inputs of the graph.      *)
IsInitializer(tensor) ==
  LET value == tensor.value
  IN  /\ tensor = [role |-> tensor.role, shape |-> tensor.shape,
                   constant |-> tensor.constant, value |-> value]
      /\ tensor.constant \in BOOLEAN
      /\ tensor.shape \in Seq(Nat \ {0})
      /\ \/ tensor.role = "data" /\ ~tensor.constant /\ value = [kind |-> "input"]
         \/ /\ tensor.role = "weights" /\ Len(tensor.shape) = 4
            /\ value = [kind |-> "weights", base |-> value.base,
                        channels |-> tensor.shape[1], scales |-> << >>]
         \/ /\ tensor.role = "bias" /\ Len(tensor.shape) = 1
            /\ value = Vector(tensor.shape, value.steps)
         \/ tensor.role = "vector" /\ value = Vector(tensor.shape, value.steps)
         \/ /\ tensor.role = "parameters" /\ Len(tensor.shape) = 1
            /\ value = [kind |-> "parameters", id |-> value.id]
         \/ tensor.role = "shape" /\ value = [kind |-> "shape"]

ASSUME GraphAssumption ==
  /\ Channels \in Nat \ {0}
  /\ Menu \in Seq(SUBSET NodeTypes)
  /\ IsFiniteSet(DOMAIN Initializers)
  /\ \A t \in DOMAIN Initializers : Len(t) = 1 /\ IsInitializer(Initializers[t])

(* Broadcasting is kept apart from adding to channels: no addend has the   *)
(* shape of a bias, and no convolution has one channel that an addition    *)
(* could widen.  What the passes keep, they keep under this condition.     *)
AddendsAreChannels ==
  \A t \in DOMAIN Initializers :
    /\ Initializers[t].role = "vector"  => Len(Initializers[t].shape) = 4
    /\ Initializers[t].role = "weights" => Initializers[t].shape[1] # 1

PerChannel == << 1, Channels, 1, 1 >>

(* Broadcasting aligns the last axes: only the shape <<1, C, 1, 1>> adds   *)
(* to the channels of a convolution; the shape <<C>> adds to its columns.  *)
AddsToChannels(conv, v) ==
  conv.kind = "conv" /\ v.kind = "vector" /\ v.shape = << 1, conv.channels, 1, 1 >>

Plus(a, b) ==
  CASE AddsToChannels(a, b) \/ (a.kind = "vector" /\ b.kind = "vector")
         -> [a EXCEPT !.steps = @ \o b.steps]
    [] AddsToChannels(b, a) -> [b EXCEPT !.steps = @ \o a.steps]
    [] OTHER -> [kind |-> "sum", of |-> << a, b >>]

Convolution(args) ==
  [kind |-> "conv", of |-> args[1],
   base |-> args[2].base, channels |-> args[2].channels, scales |-> args[2].scales,
   steps |-> IF Len(args) = 3 THEN args[3].steps ELSE << >>]

Normalized(v, parameters) ==
  IF v.kind = "conv"
    THEN [v EXCEPT !.scales = Append(@, parameters.id), !.steps = Append(@, parameters.id)]
    ELSE [kind |-> "normalized", of |-> << v, parameters >>]

Rectified(v) == [kind |-> "relu", of |-> v]

Computed(o, args) ==
  CASE o.type = "Conv" /\ o.relu     -> Rectified(Convolution(args))
    [] o.type = "Conv" /\ ~o.relu    -> Convolution(args)
    [] o.type = "Add"                -> Plus(args[1], args[2])
    [] o.type = "BatchNormalization" -> Normalized(args[1], args[2])
    [] o.type = "Relu"               -> Rectified(args[1])
    [] o.type = "Softmax"            -> [kind |-> "softmax", of |-> args[1]]
    [] o.type \in {"Reshape", "View"} -> [kind |-> "view", of |-> args[1]]

Result(o, args) ==
  IF \E i \in DOMAIN args : args[i] = Undefined THEN Undefined ELSE Computed(o, args)

(* execute_float: the operations in order, over the inputs and constants.  *)
Found(values, t) == IF t \in DOMAIN values THEN values[t] ELSE Undefined

Executed(values, o) ==
  IF o.type = "Constant" THEN values
  ELSE [values EXCEPT ![o.output] =
          Result(o, [i \in DOMAIN o.inputs |-> Found(values, o.inputs[i])])]

Values(ops, tens) ==
  LET after[n \in 0 .. Len(ops)] ==
        IF n = 0 THEN [t \in DOMAIN tens |-> tens[t].value]
        ELSE Executed(after[n - 1], ops[n])
  IN  after[Len(ops)]
-----------------------------------------------------------------------------
(* Import (frontend.py): nodes whose shapes fit, in topological order.     *)
With(role) == {t \in DOMAIN tensors : tensors[t].role = role}

Data  == With("data")
Shape(t) == tensors[t].shape
Images == {t \in Data : Len(Shape(t)) = 4}

Padded(shape) == [i \in 1 .. 4 - Len(shape) |-> 1] \o shape

Broadcast(a, b) ==
  [i \in 1 .. 4 |-> IF Padded(a)[i] = 1 THEN Padded(b)[i] ELSE Padded(a)[i]]

Broadcastable(a, b) ==
  \A i \in 1 .. 4 : Padded(a)[i] = Padded(b)[i] \/ 1 \in {Padded(a)[i], Padded(b)[i]}

Operands(type) ==
  CASE type = "Conv" ->
         {a \in Images \X With("weights") : Shape(a[1])[2] = Shape(a[2])[2]}
           \cup {a \in Images \X With("weights") \X With("bias") :
                   Shape(a[1])[2] = Shape(a[2])[2] /\ Shape(a[3]) = << Shape(a[2])[1] >>}
    [] type = "Add" ->
         {a \in Images \X (Images \cup With("vector")) : Broadcastable(Shape(a[1]), Shape(a[2]))}
           \cup {a \in With("vector") \X With("vector") : Shape(a[1]) = Shape(a[2])}
    [] type = "BatchNormalization" ->
         {a \in Images \X With("parameters") : Shape(a[2]) = << Shape(a[1])[2] >>}
    [] type \in {"Relu", "Softmax"} -> {<< x >> : x \in Data}
    [] type = "Reshape"  -> Images \X With("shape")
    [] type = "Constant" -> {<< >>}

ResultShape(type, inputs) ==
  CASE type = "Conv" -> [Shape(inputs[1]) EXCEPT ![2] = Shape(inputs[2])[1]]
    [] type = "Add"  -> Broadcast(Shape(inputs[1]), Shape(inputs[2]))
    [] type \in {"BatchNormalization", "Relu", "Softmax"} -> Shape(inputs[1])
    [] type = "Reshape"  -> << 1, Shape(inputs[1])[2] * Channels * Channels >>
    [] type = "Constant" -> PerChannel

OutputOf(n) == << "output", n >>

ResultTensor(type, inputs, n) ==
  [role     |-> IF type = "Constant" \/ (type = "Add" /\ inputs[1] \in With("vector"))
                  THEN "vector" ELSE "data",
   shape    |-> ResultShape(type, inputs),
   constant |-> type = "Constant",
   value    |-> IF type = "Constant" THEN Vector(PerChannel, << OutputOf(n) >>) ELSE Undefined]

Imported(n, type, inputs) ==
  [name |-> n, type |-> type, inputs |-> inputs, output |-> OutputOf(n), relu |-> FALSE,
   backend |-> Backend(type), fused |-> << >>]

Put(tens, name, tensor) ==
  [t \in DOMAIN tens \cup {name} |-> IF t = name THEN tensor ELSE tens[t]]

Init ==
  /\ operations = << >> /\ tensors = Initializers /\ outputs = {}
  /\ linked = << >>
  /\ pass = 0 /\ todo = {} /\ dropped = {} /\ refused = FALSE
  /\ source = << >>

ImportNode ==
  /\ pass = 0 /\ Len(operations) < Len(Menu)
  /\ LET n == Len(operations) + 1
     IN  \E type \in Menu[n] : \E inputs \in Operands(type) :
           /\ operations' = Append(operations, Imported(n, type, inputs))
           /\ tensors' = Put(tensors, OutputOf(n), ResultTensor(type, inputs, n))
  /\ UNCHANGED << outputs, linked, pass, todo, dropped, refused, source >>

Names(ops) == {ops[i].name : i \in DOMAIN ops}

(* One or two outputs; what comes behind the last of them is left out.     *)
FinishImport ==
  /\ pass = 0 /\ operations # << >>
  /\ Last(operations).output \in Data
  /\ \E t \in Data \cap {operations[i].output : i \in DOMAIN operations} :
       outputs' = {t, Last(operations).output}
  /\ linked' = operations
  /\ source' = [operations |-> operations, tensors |-> tensors]
  /\ pass' = 1 /\ todo' = Names(operations)
  /\ UNCHANGED << operations, tensors, dropped, refused >>
-----------------------------------------------------------------------------
(* utils.py *)
Consumers(ops, t) ==
  UNION {{<< o.name, i >> : i \in {j \in DOMAIN o.inputs : o.inputs[j] = t}} : o \in ToSet(ops)}

(* The consumer of a tensor that is used once. *)
OnlyConsumer(ops, t) == {use[1] : use \in {u \in Consumers(ops, t) : Consumers(ops, t) = {u}}}

Named(ops, name) == CHOOSE o \in ToSet(ops) : o.name = name

(* What rebuild_links accepts. *)
WellFormed(ops, tens) ==
  /\ \A o \in ToSet(ops) : ToSet(o.inputs) \cup {o.output} \subseteq DOMAIN tens
  /\ \A i, j \in DOMAIN ops : ops[i].output = ops[j].output => i = j

rebuild_links ==
  /\ refused' = ~WellFormed(operations', tensors')
  /\ linked' = operations'

unique_tensor_name(tens, base, operation) ==
  << base, operation,
     CHOOSE n \in 0 .. Cardinality(DOMAIN tens) :
       /\ << base, operation, n >> \notin DOMAIN tens
       /\ \A m \in 0 .. n - 1 : << base, operation, m >> \in DOMAIN tens >>

Keep(ops, names) ==
  LET kept[n \in 0 .. Len(ops)] ==
        IF n = 0 THEN << >>
        ELSE IF ops[n].name \in names THEN Append(kept[n - 1], ops[n]) ELSE kept[n - 1]
  IN  kept[Len(ops)]

Without(ops, names) == Keep(ops, Names(ops) \ names)

Updated(ops, changed) ==
  [i \in DOMAIN ops |-> IF ops[i].name = changed.name THEN changed ELSE ops[i]]

NextPass == pass' = pass + 1 /\ todo' = Names(operations')

(* The end of a pass: what it dropped goes, and the links are rebuilt.     *)
EndPass ==
  /\ todo = {} /\ ~refused /\ pass \in DOMAIN Pipeline /\ Pipeline[pass] # "eliminate_dead_code"
  /\ operations' = Without(operations, dropped)
  /\ UNCHANGED << tensors, outputs, source >>
  /\ dropped' = {}
  /\ NextPass
  /\ rebuild_links

(* The operation a pass visits. *)
Visits(o) == o.name \in todo /\ \A name \in todo : o.name <= name

EndVisit(o) ==
  /\ todo' = todo \ {o.name}
  /\ UNCHANGED << outputs, linked, pass, refused, source >>

(* constant_folding.py *)
DropConstant(o) ==
  /\ Running("fold_constants") /\ Visits(o)
  /\ o.type = "Constant" /\ tensors[o.output].constant
  /\ dropped' = dropped \cup {o.name}
  /\ UNCHANGED << operations, tensors >>
  /\ EndVisit(o)

ConstantSum(o) ==
  o.type = "Add" /\ \A i \in {1, 2} : tensors[o.inputs[i]].constant

FoldAdd(o) ==
  /\ Running("fold_constants") /\ Visits(o)
  /\ ConstantSum(o)
  /\ tensors' = [tensors EXCEPT ![o.output].constant = TRUE,
                                ![o.output].value =
                                   Plus(tensors[o.inputs[1]].value, tensors[o.inputs[2]].value)]
  /\ dropped' = dropped \cup {o.name}
  /\ UNCHANGED operations
  /\ EndVisit(o)

(* batch_normalization.py.  The links are those of the start of the pass,  *)
(* the operations those of this turn.                                      *)
ConvolutionsOf(bn) ==
  {c \in ToSet(operations) :
     /\ c.type = "Conv"
     /\ Named(linked, c.name).output = bn.inputs[1]
     /\ OnlyConsumer(linked, bn.inputs[1]) # {}
     /\ bn.inputs[1] \notin outputs
     /\ \A i \in 2 .. Len(c.inputs) : tensors[c.inputs[i]].constant
     /\ tensors[bn.inputs[2]].constant
     /\ Shape(bn.inputs[2]) = << Shape(c.inputs[2])[1] >>}

Folds(bn) == bn.type = "BatchNormalization" /\ ConvolutionsOf(bn) # {}

bias_steps(tens, c) == IF Len(c.inputs) = 3 THEN tens[c.inputs[3]].value.steps ELSE << >>

ReuseWeights(c) == c.inputs[2]

(* Initializers may be shared, so folding makes a tensor of its own. *)
private_weights(c) == unique_tensor_name(tensors, "bn_weights", c.name)

BiasTensor(channels, steps) ==
  [role |-> "bias", shape |-> << channels >>, constant |-> TRUE,
   value |-> Vector(<< channels >>, steps)]

AbsorbSilently(c, o) == [c EXCEPT !.output = o.output]

(* A convolution takes over what another operation produced, and its name. *)
Absorb(c, o) == [c EXCEPT !.output = o.output, !.fused = Append(@, o.name)]

FoldNormalization(bn) ==
  /\ Running("fold_batch_normalization") /\ Visits(bn)
  /\ bn.type = "BatchNormalization"
  /\ \E c \in ConvolutionsOf(bn) :
       LET id      == tensors[bn.inputs[2]].value.id
           weights == private_weights(c)
           bias    == unique_tensor_name(tensors, "bn_bias", c.name)
           folded  == [tensors[c.inputs[2]] EXCEPT !.value.scales = Append(@, id)]
           steps   == Append(bias_steps(tensors, c), id)
       IN  /\ tensors' = Put(Put(tensors, weights, folded), bias,
                             BiasTensor(Shape(c.inputs[2])[1], steps))
           /\ operations' =
                Updated(operations,
                        [Absorb(c, bn) EXCEPT !.inputs = << c.inputs[1], weights, bias >>])
  /\ dropped' = dropped \cup {bn.name}
  /\ EndVisit(bn)

(* fusion.py *)
single_consumer(g, c, type) ==
  {o \in ToSet(g.operations) :
     /\ o.type = type
     /\ c.output \notin outputs
     /\ OnlyConsumer(g.operations, c.output) = {o.name}}

IsChannelBias(tensor, channels) == tensor.shape \in {<< channels >>, << 1, channels, 1, 1 >>}

(* The names that are a bias which the addition brings to the convolution. *)
AddedBias(g, c, add) ==
  LET channels == g.tensors[add.output].shape[2]
  IN  {b \in ToSet(add.inputs) \ {c.output} :
         /\ g.tensors[b].constant
         /\ Len(g.tensors[add.output].shape) = 4
         /\ IsChannelBias(g.tensors[b], channels)
         /\ Len(c.inputs) = 3 =>
              /\ g.tensors[c.inputs[3]].constant
              /\ IsChannelBias(g.tensors[c.inputs[3]], channels)}

WithBias(g, c) ==
  IF \E add \in single_consumer(g, c, "Add") : AddedBias(g, c, add) # {}
    THEN LET add   == CHOOSE o \in single_consumer(g, c, "Add") : AddedBias(g, c, o) # {}
             b     == CHOOSE t \in AddedBias(g, c, add) : TRUE
             name  == unique_tensor_name(g.tensors, "fused_bias", c.name)
             fused == [Absorb(c, add) EXCEPT !.inputs = << c.inputs[1], c.inputs[2], name >>]
         IN  [operations |-> Updated(Without(g.operations, {add.name}), fused),
              tensors |-> Put(g.tensors, name,
                              BiasTensor(g.tensors[add.output].shape[2],
                                         bias_steps(g.tensors, c) \o g.tensors[b].value.steps))]
    ELSE g

WithReluKept(g, c) ==
  IF single_consumer(g, c, "Relu") = {} THEN g
  ELSE LET relu == CHOOSE o \in single_consumer(g, c, "Relu") : TRUE
       IN  [g EXCEPT !.operations = Updated(@, [Absorb(c, relu) EXCEPT !.relu = TRUE])]

WithRelu(g, c) ==
  IF single_consumer(g, c, "Relu") = {} THEN g
  ELSE LET relu == CHOOSE o \in single_consumer(g, c, "Relu") : TRUE
       IN  [g EXCEPT !.operations =
              Updated(Without(@, {relu.name}), [Absorb(c, relu) EXCEPT !.relu = TRUE])]

FuseConvolution(c) ==
  /\ Running("fuse_conv_bias_relu") /\ Visits(c)
  /\ c.type = "Conv"
  /\ LET biased == WithBias([operations |-> operations, tensors |-> tensors], c)
         fused  == WithRelu(biased, Named(biased.operations, c.name))
     IN  /\ operations' = fused.operations /\ tensors' = fused.tensors
         /\ todo' = (todo \ {c.name}) \cap Names(fused.operations)
  /\ rebuild_links
  /\ UNCHANGED << outputs, pass, dropped, source >>

(* canonicalize.py *)
Canonicalize(o) ==
  /\ Running("canonicalize_shape_operations") /\ Visits(o)
  /\ o.type = "Reshape"
  /\ operations' =
       Updated(operations,
               [o EXCEPT !.type = "View", !.inputs = << o.inputs[1] >>, !.backend = "metadata"])
  /\ UNCHANGED << tensors, dropped >>
  /\ EndVisit(o)

(* partition.py *)
Assign(o) ==
  /\ Running("assign_backends") /\ Visits(o)
  /\ operations' = Updated(operations, [o EXCEPT !.backend = Backend(o.type)])
  /\ UNCHANGED << tensors, dropped >>
  /\ EndVisit(o)

(* A turn that leaves its operation alone. *)
Skip(o) ==
  /\ ~refused /\ Visits(o)
  /\ \/ Running("fold_constants") /\ ~(o.type = "Constant" /\ tensors[o.output].constant)
                                  /\ ~ConstantSum(o)
     \/ Running("fold_batch_normalization") /\ ~Folds(o)
     \/ Running("fuse_conv_bias_relu") /\ o.type # "Conv"
     \/ Running("canonicalize_shape_operations") /\ o.type # "Reshape"
  /\ UNCHANGED << operations, tensors, dropped >>
  /\ EndVisit(o)

(* dead_code.py: what is live is found from the outputs backwards. *)
LiveAfter(ops, outs) ==
  LET live[n \in 0 .. Len(ops)] ==
        IF n = Len(ops) THEN outs
        ELSE LET o     == ops[n + 1]
                 after == live[n + 1]
             IN  IF o.output \in after THEN after \cup ToSet(o.inputs) ELSE after
  IN  live

Live(ops, outs) ==
  [operations |-> {ops[n].name : n \in {k \in DOMAIN ops : ops[k].output \in LiveAfter(ops, outs)[k]}},
   tensors    |-> LiveAfter(ops, outs)[0]]

Inputs == {t \in DOMAIN Initializers : ~Initializers[t].constant}

EliminateDeadCode ==
  /\ Running("eliminate_dead_code")
  /\ LET live == Live(operations, outputs)
         kept == live.tensors \cup Inputs
     IN  /\ operations' = Keep(operations, live.operations)
         /\ tensors' = [t \in DOMAIN tensors \cap kept |-> tensors[t]]
  /\ NextPass
  /\ rebuild_links
  /\ UNCHANGED << outputs, dropped, source >>

Visit(o) ==
  \/ DropConstant(o) \/ FoldAdd(o)
  \/ FoldNormalization(o)
  \/ FuseConvolution(o)
  \/ Canonicalize(o)
  \/ Assign(o)
  \/ Skip(o)

Next ==
  \/ ImportNode
  \/ FinishImport
  \/ \E o \in ToSet(operations) : Visit(o)
  \/ EliminateDeadCode
  \/ EndPass

Spec == Init /\ [][Next]_vars
-----------------------------------------------------------------------------
(* The graph is between two states of a pass that only its end makes       *)
(* consistent.                                                             *)
Settled == pass > 0 /\ dropped = {} /\ ~refused

(* Whatever is folded, fused or dropped, in whatever order and however     *)
(* initializers are shared, the outputs keep the values that the imported  *)
(* graph gives them, and every operation finds its operands computed.      *)
SemanticsPreserved ==
  Settled =>
    LET before == Values(source.operations, source.tensors)
        now    == Values(operations, tensors)
    IN  \A t \in outputs : t \in DOMAIN tensors /\ now[t] = before[t] /\ now[t] # Undefined

(* The places where an imported operation is named as (part of) the origin *)
(* of an operation.                                                        *)
Origins(name) ==
  {<< o.name, 0 >> : o \in {p \in ToSet(operations) : p.name = name}}
    \cup UNION {{<< o.name, i >> : i \in {j \in DOMAIN o.fused : o.fused[j] = name}} :
                  o \in ToSet(operations)}

(* An imported operation no output needs. *)
Dead(o) ==
  LET without == Values(Without(source.operations, {o.name}), source.tensors)
  IN  \A t \in outputs : without[t] # Undefined

(* The trace tools find layers by the names of the operations a compiled   *)
(* operation is made of: each imported operation is named exactly once, or *)
(* it was a constant or a sum of constants, or no output needs it.         *)
LineageComplete ==
  Settled =>
    \A o \in ToSet(source.operations) :
      \/ Cardinality(Origins(o.name)) = 1
      \/ /\ Origins(o.name) = {}
         /\ Dead(o) \/ source.tensors[o.output].role = "vector"

(* The passes never make a graph their own link check rejects: a reference *)
(* to a dropped tensor or two producers of one.                            *)
NeverRefused == ~refused
=============================================================================
