------------------------- MODULE ConvolutionEngine -------------------------
(***************************************************************************)
(* The valid 3x3 convolution engine of rtl/engine/tensorwright_            *)
(* convolution_engine.sv with its arithmetic core.  One step is one rising *)
(* clock edge; the wires of that edge (start_i, soft_reset_i, the three    *)
(* tvalid and tready inputs) are chosen by the environment.                *)
(*                                                                         *)
(* Stream elements are symbolic: the sources send the elements of the      *)
(* weight tensor (OIHW) and of the activation tensor (NCHW) in order, each *)
(* named by its coordinates, and a memory word that was not loaded by the  *)
(* present run is Stale.                                                   *)
(***************************************************************************)
EXTENDS Integers, Sequences

CONSTANTS
  IMAGE_WIDTH, IMAGE_HEIGHT, INPUT_CHANNELS, OUTPUT_CHANNELS,
  Stale, Bubble, Zero,
  AccumulatorOverflows(_), BiasOverflows(_, _)

OUTPUT_WIDTH == IMAGE_WIDTH - 2
OUTPUT_HEIGHT == IMAGE_HEIGHT - 2
WEIGHT_COUNT == OUTPUT_CHANNELS * INPUT_CHANNELS * 9
ACTIVATION_COUNT == INPUT_CHANNELS * IMAGE_HEIGHT * IMAGE_WIDTH
OUTPUT_COUNT == OUTPUT_CHANNELS * OUTPUT_HEIGHT * OUTPUT_WIDTH

VARIABLES
  state,
  weights, activations,              \* the two memories
  weight_count, activation_count,
  input_channel, output_channel, output_x, output_y,
  output,                            \* output_tdata_o and output_tlast_o while
                                     \* output_tvalid_o, or NoOutput
  done,                              \* done_o
  overflow,                          \* overflow_o
  lane_stage, accumulator, accumulator_overflow_q, post_stage, result,
  sent                               \* history: elements this run's sources and
                                     \* consumer have seen transferred

memories == << weights, activations >>
position == << input_channel, output_channel, output_x, output_y >>
counts   == << weight_count, activation_count >>
coreVars == << lane_stage, accumulator, accumulator_overflow_q, post_stage, result >>
vars == << state, memories, counts, position, output, done, overflow, coreVars, sent >>

Addresses(count) == 0 .. count - 1
Lane == 0 .. 8

(* The k-th element of the two streams. *)
WeightElement(k) ==
  [oc |-> k \div (INPUT_CHANNELS * 9), ic |-> (k \div 9) % INPUT_CHANNELS,
   row |-> (k % 9) \div 3, column |-> k % 3]

ActivationElement(k) ==
  [ic |-> k \div (IMAGE_HEIGHT * IMAGE_WIDTH),
   row |-> (k \div IMAGE_WIDTH) % IMAGE_HEIGHT, column |-> k % IMAGE_WIDTH]

(* The memory words the nine lanes read for the present position. *)
core_lanes ==
  [lane \in Lane |->
    [activation |->
       activations[input_channel * (IMAGE_HEIGHT * IMAGE_WIDTH)
                   + (output_y + lane \div 3) * IMAGE_WIDTH + output_x + (lane % 3)],
     weight |->
       weights[output_channel * (INPUT_CHANNELS * 9) + input_channel * 9 + lane]]]

Core == INSTANCE ArithmeticCore
          WITH Lanes <- {}, Settings <- Addresses(OUTPUT_CHANNELS), MaxBeats <- INPUT_CHANNELS

BeatNeverLast ==
  [lanes |-> core_lanes, clear |-> input_channel = 0,
   last |-> input_channel = INPUT_CHANNELS, settings |-> output_channel]

core_beat ==
  [lanes |-> core_lanes, clear |-> input_channel = 0,
   last |-> input_channel = INPUT_CHANNELS - 1, settings |-> output_channel]

NoOutput == Bubble
Nothing  == [weights |-> 0, activations |-> 0, outputs |-> 0]

Init ==
  /\ state = "IDLE"
  /\ weights = [k \in Addresses(WEIGHT_COUNT) |-> Stale]
  /\ activations = [k \in Addresses(ACTIVATION_COUNT) |-> Stale]
  /\ weight_count = 0 /\ activation_count = 0
  /\ input_channel = 0 /\ output_channel = 0 /\ output_x = 0 /\ output_y = 0
  /\ output = NoOutput
  /\ done = FALSE
  /\ overflow = FALSE
  /\ Core!CoreInit
  /\ sent = Nothing

LastOfEveryChannel ==
  /\ output_y = OUTPUT_HEIGHT - 1
  /\ output_x = OUTPUT_WIDTH - 1

output_is_last ==
  /\ output_channel = OUTPUT_CHANNELS - 1
  /\ output_y = OUTPUT_HEIGHT - 1
  /\ output_x = OUTPUT_WIDTH - 1

(* What every edge outside COMPUTE does to the core. *)
FeedBubble == Core!CoreEdge(Bubble)

-----------------------------------------------------------------------------
(* The edges, one action per state and outcome. *)

ResetKeepsPipeline ==
  /\ state' = "IDLE"
  /\ weights' = [k \in Addresses(WEIGHT_COUNT) |-> Stale]
  /\ activations' = [k \in Addresses(ACTIVATION_COUNT) |-> Stale]
  /\ weight_count' = 0 /\ activation_count' = 0
  /\ input_channel' = 0 /\ output_channel' = 0 /\ output_x' = 0 /\ output_y' = 0
  /\ output' = NoOutput
  /\ done' = FALSE
  /\ overflow' = FALSE
  /\ FeedBubble
  /\ sent' = Nothing

(* rst_ni low or soft_reset_i high.  The memories keep their words; from   *)
(* here on they belong to an earlier run.                                  *)
Reset ==
  /\ state' = "IDLE"
  /\ weights' = [k \in Addresses(WEIGHT_COUNT) |-> Stale]
  /\ activations' = [k \in Addresses(ACTIVATION_COUNT) |-> Stale]
  /\ weight_count' = 0 /\ activation_count' = 0
  /\ input_channel' = 0 /\ output_channel' = 0 /\ output_x' = 0 /\ output_y' = 0
  /\ output' = NoOutput
  /\ done' = FALSE
  /\ overflow' = FALSE
  /\ Core!CoreReset
  /\ sent' = Nothing

StayIdle ==
  /\ state = "IDLE"
  /\ done' = FALSE
  /\ FeedBubble
  /\ UNCHANGED << state, memories, counts, position, output, overflow, sent >>

Start ==
  /\ state = "IDLE"
  /\ state' = "LOAD_WEIGHTS"
  /\ weight_count' = 0 /\ activation_count' = 0
  /\ output_channel' = 0 /\ output_x' = 0 /\ output_y' = 0
  /\ overflow' = FALSE
  /\ done' = FALSE
  /\ weights' = [k \in Addresses(WEIGHT_COUNT) |-> Stale]
  /\ activations' = [k \in Addresses(ACTIVATION_COUNT) |-> Stale]
  /\ sent' = Nothing
  /\ FeedBubble
  /\ UNCHANGED << input_channel, output >>

(* A load state on an edge without a beat. *)
Starve ==
  /\ state \in {"LOAD_WEIGHTS", "LOAD_ACTIVATIONS"}
  /\ done' = FALSE
  /\ FeedBubble
  /\ UNCHANGED << state, memories, counts, position, output, overflow, sent >>

LoadWeight ==
  /\ state = "LOAD_WEIGHTS"
  /\ weights' = [weights EXCEPT ![weight_count] = WeightElement(sent.weights)]
  /\ sent' = [sent EXCEPT !.weights = @ + 1]
  /\ IF weight_count = WEIGHT_COUNT - 1
       THEN state' = "LOAD_ACTIVATIONS" /\ weight_count' = 0
       ELSE weight_count' = weight_count + 1 /\ UNCHANGED state
  /\ done' = FALSE
  /\ FeedBubble
  /\ UNCHANGED << activations, activation_count, position, output, overflow >>

LoadActivation ==
  /\ state = "LOAD_ACTIVATIONS"
  /\ activations' =
       [activations EXCEPT ![activation_count] = ActivationElement(sent.activations)]
  /\ sent' = [sent EXCEPT !.activations = @ + 1]
  /\ IF activation_count = ACTIVATION_COUNT - 1
       THEN state' = "COMPUTE" /\ activation_count' = 0 /\ input_channel' = 0
       ELSE activation_count' = activation_count + 1 /\ UNCHANGED << state, input_channel >>
  /\ done' = FALSE
  /\ FeedBubble
  /\ UNCHANGED << weights, weight_count, output_channel, output_x, output_y, output,
                  overflow >>

Compute ==
  /\ state = "COMPUTE"
  /\ IF input_channel = INPUT_CHANNELS - 1
       THEN input_channel' = 0 /\ state' = "WAIT_RESULT"
       ELSE input_channel' = input_channel + 1 /\ UNCHANGED state
  /\ done' = FALSE
  /\ Core!CoreEdge(core_beat)
  /\ UNCHANGED << memories, counts, output_channel, output_x, output_y, output,
                  overflow, sent >>

(* overflow_o is set from the core only in the state that waits for it. *)
NoteOverflow == overflow' = (overflow \/ Core!core_overflow)

AwaitResult ==
  /\ state = "WAIT_RESULT"
  /\ ~Core!core_valid
  /\ NoteOverflow
  /\ done' = FALSE
  /\ FeedBubble
  /\ UNCHANGED << state, memories, counts, position, output, sent >>

(* result_o of the core: zero for a sum whose bias overflowed. *)
core_result ==
  IF result.overflow THEN Zero ELSE [sum |-> result.sum, settings |-> result.settings]

TakeResultWithoutFlag ==
  /\ state = "WAIT_RESULT"
  /\ Core!core_valid
  /\ output' = [data |-> core_result, last |-> output_is_last]
  /\ state' = "OUTPUT"
  /\ done' = FALSE
  /\ FeedBubble
  /\ UNCHANGED << memories, counts, position, overflow, sent >>

TakeResult ==
  /\ state = "WAIT_RESULT"
  /\ Core!core_valid
  /\ NoteOverflow
  /\ output' = [data |-> core_result, last |-> output_is_last]
  /\ state' = "OUTPUT"
  /\ done' = FALSE
  /\ FeedBubble
  /\ UNCHANGED << memories, counts, position, sent >>

StallOutput ==
  /\ state = "OUTPUT"
  /\ done' = FALSE
  /\ FeedBubble
  /\ UNCHANGED << state, memories, counts, position, output, overflow, sent >>

(* The next output position in raster order, column fastest. *)
AdvancePosition ==
  IF output_x # OUTPUT_WIDTH - 1
    THEN output_x' = output_x + 1 /\ UNCHANGED << output_y, output_channel >>
    ELSE /\ output_x' = 0
         /\ IF output_y = OUTPUT_HEIGHT - 1
              THEN output_y' = 0 /\ output_channel' = output_channel + 1
              ELSE output_y' = output_y + 1 /\ UNCHANGED output_channel

AcceptOutput ==
  /\ state = "OUTPUT"
  /\ output # NoOutput
  /\ output' = NoOutput
  /\ sent' = [sent EXCEPT !.outputs = @ + 1]
  /\ IF output.last
       THEN /\ state' = "IDLE"
            /\ done' = TRUE
            /\ UNCHANGED << output_x, output_y, output_channel >>
       ELSE /\ AdvancePosition
            /\ state' = "COMPUTE"
            /\ done' = FALSE
  /\ FeedBubble
  /\ UNCHANGED << memories, counts, input_channel, overflow >>

(* An edge without reset, by the wires start_i, weight_tvalid_i,           *)
(* activation_tvalid_i and output_tready_i.                                *)
Edge(start, weight_valid, activation_valid, output_ready) ==
  \/ ~start /\ StayIdle
  \/ start /\ Start
  \/ ~(IF state = "LOAD_WEIGHTS" THEN weight_valid ELSE activation_valid) /\ Starve
  \/ weight_valid /\ LoadWeight
  \/ activation_valid /\ LoadActivation
  \/ Compute
  \/ AwaitResult
  \/ TakeResult
  \/ ~output_ready /\ StallOutput
  \/ output_ready /\ AcceptOutput

Next ==
  \/ Reset
  \/ \E start, weight_valid, activation_valid, output_ready \in BOOLEAN :
       Edge(start, weight_valid, activation_valid, output_ready)

Spec == Init /\ [][Next]_vars

-----------------------------------------------------------------------------
(* The convolution, element by element: what output k is made of. *)
Reference(oc, y, x) ==
  [ic \in 1 .. INPUT_CHANNELS |->
    [lane \in Lane |->
      [activation |-> [ic |-> ic - 1, row |-> y + (lane \div 3), column |-> x + (lane % 3)],
       weight     |-> [oc |-> oc, ic |-> ic - 1, row |-> lane \div 3, column |-> lane % 3]]]]

Answer(k) ==
  LET oc  == k \div (OUTPUT_HEIGHT * OUTPUT_WIDTH)
      sum == Reference(oc, (k \div OUTPUT_WIDTH) % OUTPUT_HEIGHT, k % OUTPUT_WIDTH)
  IN  IF BiasOverflows(sum, oc) THEN Zero ELSE [sum |-> sum, settings |-> oc]

phase ==
  CASE state = "IDLE"             -> "idle"
    [] state = "LOAD_WEIGHTS"     -> "weights"
    [] state = "LOAD_ACTIVATIONS" -> "activations"
    [] OTHER                      -> "answers"

Layer == INSTANCE LayerService
           WITH Weights <- WEIGHT_COUNT, Activations <- ACTIVATION_COUNT,
                Answers <- OUTPUT_COUNT, NoOffer <- NoOutput,
                taken <- [weights |-> sent.weights, activations |-> sent.activations],
                given <- sent.outputs, offer <- output, finished <- done

(* Whatever the sources and the consumer do and whenever the engine is     *)
(* reset, it behaves as the layer service: every offered output is the     *)
(* convolution of the present run's elements at its raster position, the   *)
(* last one and only the last one is marked, none is lost, repeated or     *)
(* changed while it waits, and done follows the last acceptance.           *)
ImplementsLayer == Layer!Spec

(* An output made from a bias overflow is never offered silently: the      *)
(* overflow flag is up from the edge that offers it.                       *)
BiasOverflowReported ==
  output # NoOutput /\ output.data = Zero => overflow

(* The pipeline is empty whenever the engine is not waiting for it: no     *)
(* result of an aborted or finished position can be taken for the next.    *)
NothingInFlight ==
  state \in {"IDLE", "LOAD_WEIGHTS", "LOAD_ACTIVATIONS", "OUTPUT"} =>
    /\ lane_stage = [s \in 1 .. 3 |-> Bubble]
    /\ post_stage = [s \in 1 .. 4 |-> Bubble]
    /\ state # "OUTPUT" => result = Bubble
    /\ accumulator = << >>

=============================================================================
