--------------------------- MODULE ArithmeticCore ---------------------------
(***************************************************************************)
(* The pipelined arithmetic core (rtl/compute/tensorwright_arithmetic_     *)
(* core.sv) with its post-processing unit (rtl/postprocess/tensorwright_   *)
(* postprocess.sv).  Values are symbolic: a beat carries one set of lane   *)
(* operands, a partial sum is the sequence of the operands added so far,   *)
(* and a result is the sum and the channel settings it was made from.      *)
(* What the numbers are does not matter here; which of them meet does.     *)
(* Whether a sum overflows is a function of what was added.                *)
(***************************************************************************)
EXTENDS Naturals, Sequences

CONSTANTS
  Lanes,                    \* the operands of the nine lanes on one beat
  Settings,                 \* bias, multiplier, shift and ReLU of a channel
  Bubble,                   \* a stage whose valid bit is low
  MaxBeats,                 \* the most beats an open sum has (a bound of the check)
  AccumulatorOverflows(_),  \* adding the last operands of a sum overflowed
  BiasOverflows(_, _)       \* adding the bias of the settings overflowed

ASSUME BeatsAssumption == MaxBeats \in Nat \ {0}

VARIABLES
  lane_stage,    \* the three stages before the accumulator: input_*_q,
                 \* product_*_q, and lane_sum_q with valid_q
  accumulator,
  accumulator_overflow_q,
  post_stage,    \* biased_*_q, product_q, magnitude_q, rounded_*_q
  result         \* valid_o, result_o and the post-processing overflow_o

coreVars ==
  << lane_stage, accumulator, accumulator_overflow_q, post_stage, result >>

LaneBeat == [lanes : Lanes, clear : BOOLEAN, last : BOOLEAN, settings : Settings]
Result == [sum : Seq(Lanes), settings : Settings, overflow : BOOLEAN]

(* The mark of an empty stage is neither a beat nor a result, and the sums *)
(* that occur overflow or do not.                                          *)
ASSUME SymbolAssumption == Bubble \notin LaneBeat /\ Bubble \notin Result

ASSUME OverflowAssumption ==
  \A sum \in UNION {[1 .. n -> Lanes] : n \in 1 .. MaxBeats}, settings \in Settings :
    BiasOverflows(sum, settings) \in BOOLEAN

CoreInit ==
  /\ lane_stage = [s \in 1 .. 3 |-> Bubble]
  /\ accumulator = << >>
  /\ accumulator_overflow_q = FALSE
  /\ post_stage = [s \in 1 .. 4 |-> Bubble]
  /\ result = Bubble

(* An edge with the core's reset low. *)
CoreReset ==
  /\ lane_stage' = [s \in 1 .. 3 |-> Bubble]
  /\ accumulator' = << >>
  /\ accumulator_overflow_q' = FALSE
  /\ post_stage' = [s \in 1 .. 4 |-> Bubble]
  /\ result' = Bubble

core_valid == result # Bubble
core_overflow ==
  accumulator_overflow_q \/ (core_valid /\ result.overflow)

(* The beat at the accumulator. *)
summand == lane_stage[3]

next_accumulator ==
  IF summand.clear THEN << summand.lanes >> ELSE Append(accumulator, summand.lanes)

accumulator_overflow ==
  summand # Bubble /\ AccumulatorOverflows(next_accumulator)

Sum ==
  [sum      |-> next_accumulator,
   settings |-> summand.settings,
   overflow |-> BiasOverflows(next_accumulator, summand.settings)]

FinishedOverflowed ==
  IF summand # Bubble /\ summand.last THEN Sum ELSE Bubble

(* What the post-processing unit takes from the accumulator: the sum of a  *)
(* last beat, unless that addition overflowed.                             *)
finished ==
  IF summand # Bubble /\ summand.last /\ ~accumulator_overflow THEN Sum ELSE Bubble

Accumulate ==
  accumulator' =
    CASE summand = Bubble                  -> accumulator
      [] summand # Bubble /\ summand.last  -> << >>
      [] summand # Bubble /\ ~summand.last -> next_accumulator

(* The post-processing unit: a finished sum is biased, multiplied, taken   *)
(* to its magnitude, rounded and clamped, one stage an edge.               *)
PostProcess ==
  /\ post_stage' = << finished, post_stage[1], post_stage[2], post_stage[3] >>
  /\ result' = post_stage[4]

(* One clock edge with a beat, or Bubble, at the input. *)
CoreEdge(beat) ==
  /\ lane_stage' = << beat, lane_stage[1], lane_stage[2] >>
  /\ Accumulate
  /\ accumulator_overflow_q' = accumulator_overflow
  /\ PostProcess

(* The sums in flight: those already past the accumulator, and what the    *)
(* beats before it will make of the open sum.                              *)
Present(stage) == IF stage = Bubble THEN << >> ELSE << stage >>

Past ==
  Present(result) \o Present(post_stage[4]) \o Present(post_stage[3])
    \o Present(post_stage[2]) \o Present(post_stage[1])

S == INSTANCE SumQueue WITH Beat <- LaneBeat, open <- << >>, finished <- << >>

Absorbed(sums, beat) == IF beat = Bubble THEN sums ELSE S!Absorb(sums, beat)

BehindThird == Absorbed([open |-> accumulator, finished |-> Past], lane_stage[3])
BehindSecond == Absorbed(BehindThird, lane_stage[2])
InFlight == Absorbed(BehindSecond, lane_stage[1])

(* The beats of the code that feeds the core: a sum is opened by its first *)
(* beat and has at most MaxBeats.                                          *)
CoreNext ==
  \/ \E beat \in LaneBeat :
       /\ beat.clear = (InFlight.open = << >>)
       /\ beat.last \/ Len(InFlight.open) + 1 < MaxBeats
       /\ CoreEdge(beat)
  \/ CoreEdge(Bubble)
  \/ CoreReset

CoreSpec == CoreInit /\ [][CoreNext]_coreVars
-----------------------------------------------------------------------------
Sums == INSTANCE SumQueue WITH Beat <- LaneBeat, open <- InFlight.open, finished <- InFlight.finished

(* The pipeline adds up and hands out sums like the abstract queue, even   *)
(* when a new sum enters directly behind the last beat of the one before.  *)
ImplementsSumQueue == Sums!Spec
=============================================================================
