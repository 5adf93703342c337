---------------------------- MODULE MCDeployment ----------------------------
(* Graphs of up to four nodes behind one input of two channels and 2x2     *)
(* values.  Weights, biases and normalizations come as constants, shared   *)
(* by whoever takes them, and one normalization as an input of the graph.  *)
EXTENDS Deployment

Tensor(role, shape, constant, value) ==
  [role |-> role, shape |-> shape, constant |-> constant, value |-> value]

Weights(id, channels) ==
  [kind |-> "weights", base |-> id, channels |-> channels, scales |-> << >>]

Parameters(id) == [kind |-> "parameters", id |-> id]

Basics ==
  << "x" >> :> Tensor("data", << 1, 2, 2, 2 >>, FALSE, [kind |-> "input"])
    @@ << "w" >> :> Tensor("weights", << 2, 2, 1, 1 >>, TRUE, Weights(<< "w" >>, 2))
    @@ << "b" >> :> Tensor("bias", << 2 >>, TRUE, Vector(<< 2 >>, << << "b" >> >>))
    @@ << "c" >> :> Tensor("vector", PerChannel, TRUE, Vector(PerChannel, << << "c" >> >>))
    @@ << "p" >> :> Tensor("parameters", << 2 >>, TRUE, Parameters(<< "p" >>))
    @@ << "s" >> :> Tensor("shape", << 2 >>, TRUE, [kind |-> "shape"])

MCInitializers ==
  Basics @@ << "q" >> :> Tensor("parameters", << 2 >>, FALSE, Parameters(<< "q" >>))

MCMenu ==
  << {"Conv"},
     {"Conv", "Add", "BatchNormalization", "Constant"},
     {"Add", "BatchNormalization", "Relu", "Reshape"},
     {"Relu", "Softmax"} >>

(* An addend of the shape of a bias, where there are as many columns as    *)
(* channels.                                                               *)
MCColumnInitializers ==
  Basics @@ << "d" >> :> Tensor("vector", << 2 >>, TRUE, Vector(<< 2 >>, << << "d" >> >>))

MCColumnMenu == << {"Conv"}, {"Add", "BatchNormalization", "Relu"}, {"Add", "Relu"} >>

(* All other instances satisfy the condition of the theorems on semantics. *)
ASSUME MCAssumption == AddendsAreChannels \/ << "d" >> \in DOMAIN Initializers
=============================================================================
