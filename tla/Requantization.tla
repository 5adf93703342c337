---------------------------- MODULE Requantization ----------------------------
(***************************************************************************)
(* The numbers of rtl/postprocess/tensorwright_postprocess.sv: a finished  *)
(* sum is biased, multiplied, taken to its magnitude, shifted right with   *)
(* rounding, and clamped, one stage an edge.  requantize_int32 of          *)
(* reference/int8.py says what must come out.                              *)
(*                                                                         *)
(* One transaction is followed at a time: how several travel behind each   *)
(* other is the subject of ArithmeticCore.                                 *)
(***************************************************************************)
EXTENDS Integers

CONSTANTS
  ACC_WIDTH, MULTIPLIER_WIDTH, SHIFT_WIDTH, OUTPUT_WIDTH,
  ProductWidth,   \* 64 in the source
  Power(_),       \* powers of two
  Biases          \* those of the transactions considered

Powers == 0 .. Power(SHIFT_WIDTH) + ProductWidth

ASSUME PowerAssumption ==
  /\ Power(0) = 1
  /\ Power(SHIFT_WIDTH) \in Nat \ {0}
  /\ \A n \in Powers : Power(n) \in Nat \ {0} /\ Power(n + 1) = 2 * Power(n)
  /\ \A m, n \in Powers : m <= n => Power(m) <= Power(n)

InRange(x, width) == -Power(width - 1) <= x /\ x < Power(width - 1)

(* The product of a sum and a multiplier leaves room for its sign.         *)
ASSUME WidthAssumption ==
  /\ {ACC_WIDTH, MULTIPLIER_WIDTH, SHIFT_WIDTH, OUTPUT_WIDTH, ProductWidth} \subseteq Nat \ {0}
  /\ ACC_WIDTH + MULTIPLIER_WIDTH <= ProductWidth /\ OUTPUT_WIDTH <= ProductWidth
  /\ Power(ACC_WIDTH - 1) * Power(MULTIPLIER_WIDTH) = Power(ACC_WIDTH - 1 + MULTIPLIER_WIDTH)
  /\ 0 \in Biases /\ \A b \in Biases : b \in Int /\ InRange(b, ACC_WIDTH)

Requests ==
  [accumulator : -Power(ACC_WIDTH - 1) .. Power(ACC_WIDTH - 1) - 1,
   bias        : Biases,
   multiplier  : 0 .. Power(MULTIPLIER_WIDTH) - 1,
   shift       : 0 .. Power(SHIFT_WIDTH) - 1,
   relu        : BOOLEAN]

VARIABLES
  request,    \* the inputs of the transaction, which travel with it
  stage,      \* the register the transaction is in, "idle" when there is none
  value,      \* biased_q, product_q, magnitude_q, rounded_magnitude_q, result_o
  negative,   \* magnitude_negative_q, rounded_negative_q
  overflow    \* biased_overflow_q and its copies, overflow_o

unitVars == << request, stage, value, negative, overflow >>

NoRequest ==
  [accumulator |-> 0, bias |-> 0, multiplier |-> 0, shift |-> 0, relu |-> FALSE]

UnitInit ==
  /\ request = NoRequest
  /\ stage = "idle" /\ value = 0 /\ negative = FALSE /\ overflow = FALSE
-----------------------------------------------------------------------------
(* A word as a signed number of so many bits. *)
Wrapped(x, width) == ((x + Power(width - 1)) % Power(width)) - Power(width - 1)

biased_ext == request'.accumulator + request'.bias

Abs(x) == IF x < 0 THEN -x ELSE x

(* Faulty variant (TENSORWRIGHT_DEMO_FAULT_REQUANT_ROUND): truncates.      *)
truncated_magnitude(magnitude, shift) ==
  IF shift = 0 THEN magnitude
  ELSE IF shift >= ProductWidth THEN 0
  ELSE magnitude \div Power(shift)

(* The shifted magnitude and the last bit that was shifted out.            *)
rounded_magnitude(magnitude, shift) ==
  IF shift = 0 THEN magnitude
  ELSE IF shift >= ProductWidth THEN 0
  ELSE (magnitude \div Power(shift)) + ((magnitude \div Power(shift - 1)) % 2)

Top == Power(OUTPUT_WIDTH - 1) - 1

next_result ==
  IF overflow \/ (request.relu /\ negative) THEN 0
  ELSE IF negative
    THEN IF value > Top + 1 THEN -Top - 1 ELSE Wrapped(-value, OUTPUT_WIDTH)
    ELSE IF value > Top THEN Top ELSE Wrapped(value, OUTPUT_WIDTH)
-----------------------------------------------------------------------------
(* valid_i: the biased sum is registered, and whether it fits.             *)
AddBias ==
  /\ stage = "idle"
  /\ request' \in Requests
  /\ value' = Wrapped(biased_ext, ACC_WIDTH)
  /\ overflow' = ~InRange(biased_ext, ACC_WIDTH)
  /\ stage' = "biased"
  /\ UNCHANGED negative

Multiply ==
  /\ stage = "biased"
  /\ value' = value * request.multiplier
  /\ stage' = "product"
  /\ UNCHANGED << request, negative, overflow >>

TakeMagnitude ==
  /\ stage = "product"
  /\ value' = Abs(value) /\ negative' = (value < 0)
  /\ stage' = "magnitude"
  /\ UNCHANGED << request, overflow >>

Round ==
  /\ stage = "magnitude"
  /\ value' = rounded_magnitude(value, request.shift)
  /\ stage' = "rounded"
  /\ UNCHANGED << request, negative, overflow >>

Clamp ==
  /\ stage = "rounded"
  /\ value' = next_result
  /\ stage' = "result"
  /\ UNCHANGED << request, negative, overflow >>

(* rst_ni is low.  What the registers hold otherwise when a transaction    *)
(* arrives has no influence: each is written by the stage before it.       *)
UnitReset ==
  /\ request' = NoRequest
  /\ stage' = "idle" /\ value' = 0 /\ negative' = FALSE /\ overflow' = FALSE

UnitNext == AddBias \/ Multiply \/ TakeMagnitude \/ Round \/ Clamp \/ UnitReset

UnitSpec == UnitInit /\ [][UnitNext]_unitVars
-----------------------------------------------------------------------------
(* int8.py: half is added to the magnitude before it is shifted.           *)
round_shift_right(x, shift) ==
  IF shift = 0 THEN x
  ELSE LET magnitude == (Abs(x) + Power(shift - 1)) \div Power(shift)
       IN  IF x >= 0 THEN magnitude ELSE -magnitude

saturate_int8(x) == IF x > Top THEN Top ELSE IF x < -Top - 1 THEN -Top - 1 ELSE x

requantize_int32(r) ==
  LET scaled == round_shift_right((r.accumulator + r.bias) * r.multiplier, r.shift)
  IN  saturate_int8(IF r.relu /\ scaled < 0 THEN 0 ELSE scaled)

(* What leaves the unit is what the integer reference computes: the two    *)
(* ways to round, the cut at the width of the product, the ReLU before or  *)
(* after the rounding and the clamping at -128 make no difference.  Where  *)
(* the reference raises OverflowError the unit says so.                    *)
ResultIsReference ==
  stage = "result" =>
    IF InRange(request.accumulator + request.bias, ACC_WIDTH)
      THEN ~overflow /\ value = requantize_int32(request)
      ELSE overflow /\ value = 0
=============================================================================
