---------------------------- MODULE Accelerator ----------------------------
(***************************************************************************)
(* rtl/tensorwright_top.sv: the control plane and the convolution engine   *)
(* on one clock.  Every edge is an edge of both: the engine sees the start *)
(* and reset pulses the control plane registered on the edge before, and   *)
(* the control plane sees the engine's registered done and what the        *)
(* streams do on this edge.                                                *)
(***************************************************************************)
EXTENDS Integers, Sequences, FiniteSets

CONSTANTS
  IMAGE_WIDTH, IMAGE_HEIGHT, INPUT_CHANNELS, OUTPUT_CHANNELS,
  Stale, Bubble, Zero, AccumulatorOverflows(_), BiasOverflows(_, _),
  HostWrites, ConfigRegisters, Counters, CounterMax, LifetimeMax, CycleModulus,
  NoWrite, NoResponse

VARIABLES
  state, weights, activations, weight_count, activation_count,
  input_channel, output_channel, output_x, output_y, output, done, overflow,
  lane_stage, accumulator, accumulator_overflow_q, post_stage, result, sent,
  write, pending, response, config, status, error_code, irq_status, irq_enable,
  counter, error_count, layer_invocations, pulse

Engine == INSTANCE ConvolutionEngine
Control == INSTANCE ControlPlane WITH engine_done <- done

(* A valid convolution has an output. *)
ASSUME ShapeAssumption ==
  /\ IMAGE_WIDTH \in Nat /\ IMAGE_WIDTH >= 3
  /\ IMAGE_HEIGHT \in Nat /\ IMAGE_HEIGHT >= 3
  /\ INPUT_CHANNELS \in Nat \ {0}
  /\ OUTPUT_CHANNELS \in Nat \ {0}

(* Bubble is told apart from every beat, finished sum and output, and the  *)
(* result zero from every answer made of a sum; whether a bias overflows   *)
(* is a truth value.                                                       *)
Operands ==
  [0 .. 8 -> [activation : [ic : Nat, row : Nat, column : Nat],
              weight     : [oc : Nat, ic : Nat, row : Nat, column : Nat]]]

SumsOfLayer == [1 .. INPUT_CHANNELS -> Operands]

ASSUME SymbolAssumption ==
  /\ Bubble \notin [lanes : Operands, clear : BOOLEAN, last : BOOLEAN, settings : Nat]
  /\ Bubble \notin [sum : SumsOfLayer, settings : Nat, overflow : BOOLEAN]
  /\ Bubble \notin [data : {Zero} \cup [sum : SumsOfLayer, settings : Nat], last : BOOLEAN]
  /\ Zero \notin [sum : SumsOfLayer, settings : Nat]

ASSUME OverflowAssumption ==
  \A oc \in 0 .. OUTPUT_CHANNELS - 1, y \in 0 .. IMAGE_HEIGHT - 3, x \in 0 .. IMAGE_WIDTH - 3 :
    BiasOverflows(Engine!Reference(oc, y, x), oc) \in BOOLEAN

(* The three responses of the bus are told apart from none. *)
ASSUME ResponseAssumption == NoResponse \notin {"OKAY", "SLVERR", "DECERR"}

vars == << Engine!vars, Control!controlVars >>

busy == Control!busy

WaitingCountedAsCompute(weight_valid, activation_valid, output_ready) ==
  {c \in Counters :
    \/ c = "COMPUTE_ACTIVE"     /\ state \in {"COMPUTE", "WAIT_RESULT"}
    \/ c = "WEIGHT_LOAD_CYCLES" /\ state = "LOAD_WEIGHTS" /\ weight_valid
    \/ c = "INPUT_COUNT"        /\ state = "LOAD_ACTIVATIONS" /\ activation_valid
    \/ c = "OUTPUT_COUNT"       /\ output # Engine!NoOutput /\ output_ready}

(* The activity wires of this edge, from the engine's outputs and from the *)
(* valid and ready inputs of the streams.                                  *)
Activity(weight_valid, activation_valid, output_ready) ==
  {c \in Counters :
    \/ c = "COMPUTE_ACTIVE"     /\ state = "COMPUTE"
    \/ c = "WEIGHT_LOAD_CYCLES" /\ state = "LOAD_WEIGHTS" /\ weight_valid
    \/ c = "INPUT_COUNT"        /\ state = "LOAD_ACTIVATIONS" /\ activation_valid
    \/ c = "INPUT_STALLS"       /\ state # "LOAD_ACTIVATIONS" /\ activation_valid
    \/ c = "OUTPUT_COUNT"       /\ output # Engine!NoOutput /\ output_ready
    \/ c = "OUTPUT_STALLS"      /\ output # Engine!NoOutput /\ ~output_ready}

EngineIgnoresReset(weight_valid, activation_valid, output_ready) ==
  Engine!Edge(pulse = "start", weight_valid, activation_valid, output_ready)

EngineEdge(weight_valid, activation_valid, output_ready) ==
  \/ /\ pulse = "soft_reset"
     /\ Engine!Reset
  \/ /\ pulse # "soft_reset"
     /\ Engine!Edge(pulse = "start", weight_valid, activation_valid, output_ready)

Edge(weight_valid, activation_valid, output_ready) ==
  /\ Control!ControlEdge(Activity(weight_valid, activation_valid, output_ready))
  /\ EngineEdge(weight_valid, activation_valid, output_ready)

HardReset ==
  /\ Control!HardReset
  /\ Engine!Reset

Init ==
  /\ Control!ControlInit
  /\ Engine!Init

(* A wire that nothing reads on this edge is taken low. *)
Wire(isRead) == IF isRead THEN BOOLEAN ELSE {FALSE}

Next ==
  \/ \E weight_valid \in Wire(state = "LOAD_WEIGHTS"),
        activation_valid \in Wire(state = "LOAD_ACTIVATIONS" \/ "INPUT_STALLS" \in Counters),
        output_ready \in Wire(state = "OUTPUT") :
       Edge(weight_valid, activation_valid, output_ready)
  \/ HardReset

Spec == Init /\ [][Next]_vars

(* The clock runs; each source sends when the engine waits for it and the  *)
(* consumer keeps coming back.                                             *)
Fairness ==
  /\ WF_vars(Next /\ state \in {"IDLE", "COMPUTE", "WAIT_RESULT"} /\ busy)
  /\ WF_vars(state = "LOAD_WEIGHTS" /\ Edge(TRUE, FALSE, FALSE))
  /\ WF_vars(state = "LOAD_ACTIVATIONS" /\ Edge(FALSE, TRUE, FALSE))
  /\ WF_vars(state = "OUTPUT" /\ Edge(FALSE, FALSE, TRUE))

FairSpec == Spec /\ Fairness
-----------------------------------------------------------------------------
(* A start pulse is never dropped: it finds the engine idle, its done      *)
(* pulse gone, and (because a commit waits for the response of the one     *)
(* before) never meets a reset.                                            *)
StartFindsEngineIdle == pulse = "start" => state = "IDLE" /\ ~done /\ busy

(* busy spans exactly the run: from the start pulse to the done pulse.     *)
BusySpansRun ==
  pulse # "soft_reset" =>
    (busy <=> pulse = "start" \/ state # "IDLE" \/ done)

(* A run that ends by itself leaves the counters of a whole layer.         *)
WholeLayerCounted ==
  [][/\ busy /\ ~Control!busy' /\ pulse' # "soft_reset" /\ ~HardReset
     => /\ counter'["OUTPUT_COUNT"] = Engine!OUTPUT_COUNT
        /\ counter'["INPUT_COUNT"] = Engine!ACTIVATION_COUNT
        /\ counter'["WEIGHT_LOAD_CYCLES"] = Engine!WEIGHT_COUNT
        /\ counter'["COMPUTE_ACTIVE"] = Engine!OUTPUT_COUNT * INPUT_CHANNELS
        /\ counter'["EXECUTED_MACS"] = 9 * INPUT_CHANNELS * Engine!OUTPUT_COUNT]_vars

(* Whatever the streams do and whenever the host aborts and starts again,  *)
(* the engine behaves as the layer service: every offered output is the    *)
(* convolution of the present run's elements at its raster position, the   *)
(* last one and only the last one is marked, none is lost, repeated or     *)
(* changed while it waits, and done follows the last acceptance.           *)
ImplementsLayer == Engine!ImplementsLayer

(* No result of an aborted run or of an earlier position is left in the    *)
(* pipeline when the next one begins.                                      *)
NothingInFlight == Engine!NothingInFlight

(* No output is made from a bias overflow without the overflow flag.       *)
BiasOverflowReported == Engine!BiasOverflowReported

(* Every run the host starts ends, with a verdict or by a reset.           *)
EveryRunEnds == busy ~> ~busy
=============================================================================
