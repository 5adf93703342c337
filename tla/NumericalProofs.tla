--------------------------- MODULE NumericalProofs ---------------------------
(***************************************************************************)
(* For all widths the post-processing unit computes what the integer       *)
(* reference computes; and for all workloads the diagnosis of wrong        *)
(* numbers names the faulty stage and the regression made of them tells    *)
(* the faulty unit from the corrected one.                                 *)
(***************************************************************************)
EXTENDS NumericalDiagnosis, WellFoundedInduction, TLAPS

USE PowerAssumption, WidthAssumption DEF PowerAssumption, WidthAssumption

Half == Power(OUTPUT_WIDTH - 1)

Biased(r) == r.accumulator + r.bias

Product(r) == Biased(r) * r.multiplier

Fits(r) == InRange(Biased(r), ACC_WIDTH)

-----------------------------------------------------------------------------
(* The powers that occur. *)
LEMMA Widths ==
  /\ ACC_WIDTH \in Nat \ {0} /\ MULTIPLIER_WIDTH \in Nat \ {0} /\ SHIFT_WIDTH \in Nat \ {0}
  /\ OUTPUT_WIDTH \in Nat \ {0} /\ ProductWidth \in Nat \ {0}
  OBVIOUS

LEMMA PowersOfWidths ==
  /\ Power(ACC_WIDTH - 1) \in Nat \ {0} /\ Power(MULTIPLIER_WIDTH) \in Nat \ {0}
  /\ Power(ACC_WIDTH) = 2 * Power(ACC_WIDTH - 1)
  /\ Half \in Nat \ {0} /\ Power(OUTPUT_WIDTH) = 2 * Half
  /\ Power(ACC_WIDTH - 1) * Power(MULTIPLIER_WIDTH) <= Power(ProductWidth - 1)
<1>1. /\ ACC_WIDTH - 1 \in Powers /\ MULTIPLIER_WIDTH \in Powers /\ OUTPUT_WIDTH - 1 \in Powers
      /\ ProductWidth - 1 \in Powers /\ ACC_WIDTH - 1 + MULTIPLIER_WIDTH \in Powers
  BY Widths DEF Powers
<1>2. Power(ACC_WIDTH - 1 + 1) = 2 * Power(ACC_WIDTH - 1)
  BY <1>1
<1>3. Power(OUTPUT_WIDTH - 1 + 1) = 2 * Power(OUTPUT_WIDTH - 1)
  BY <1>1
<1>4. ACC_WIDTH - 1 + 1 = ACC_WIDTH /\ OUTPUT_WIDTH - 1 + 1 = OUTPUT_WIDTH
  BY Widths
<1>5. ACC_WIDTH - 1 + MULTIPLIER_WIDTH <= ProductWidth - 1
  BY Widths
<1>6. Power(ACC_WIDTH - 1 + MULTIPLIER_WIDTH) <= Power(ProductWidth - 1)
  BY <1>1, <1>5
<1>7. /\ Power(ACC_WIDTH - 1) \in Nat \ {0}
      /\ Power(MULTIPLIER_WIDTH) \in Nat \ {0}
      /\ Half \in Nat \ {0}
  BY <1>1 DEF Half
<1>8. Power(ACC_WIDTH) = 2 * Power(ACC_WIDTH - 1) /\ Power(OUTPUT_WIDTH) = 2 * Half
  BY <1>2, <1>3, <1>4 DEF Half
<1>9. Power(ACC_WIDTH - 1) * Power(MULTIPLIER_WIDTH) <= Power(ProductWidth - 1)
  BY <1>6
<1>. QED  BY <1>7, <1>8, <1>9

LEMMA PowersOfShifts ==
  ASSUME NEW shift \in 1 .. Power(SHIFT_WIDTH) - 1
  PROVE  /\ Power(shift - 1) \in Nat \ {0} /\ Power(shift) = 2 * Power(shift - 1)
         /\ shift >= ProductWidth => Power(ProductWidth - 1) <= Power(shift - 1)
<1>1. shift - 1 \in Powers /\ ProductWidth - 1 \in Powers
  BY Widths DEF Powers
<1>2. Power(shift - 1 + 1) = 2 * Power(shift - 1) /\ shift - 1 + 1 = shift
  BY <1>1
<1>3. shift >= ProductWidth => Power(ProductWidth - 1) <= Power(shift - 1)
  BY <1>1, Widths
<1>. QED  BY <1>1, <1>2, <1>3

(* A word that fits is what it was. *)
LEMMA WrappedFits ==
  ASSUME NEW h \in Nat \ {0}, NEW x \in Int, -h <= x, x < h
  PROVE  ((x + h) % (2 * h)) - h = x
<1>1. x + h \in 0 .. 2 * h - 1
  OBVIOUS
<1>2. (x + h) % (2 * h) = x + h
  BY <1>1
<1>. QED  BY <1>2

(* The last bit shifted out rounds like the half that is added before the  *)
(* shift: there is no carry between the two.                               *)
LEMMA RoundBitIsHalf ==
  ASSUME NEW m \in Nat, NEW h \in Nat \ {0}
  PROVE  (m \div (2 * h)) + ((m \div h) % 2) = (m + h) \div (2 * h)
<1> DEFINE q == m \div h
           r == m % h
<1>1. q \in Nat /\ r \in 0 .. h - 1 /\ m = h * q + r
  OBVIOUS
<1> DEFINE p == q \div 2
           s == q % 2
<1>2. p \in Nat /\ s \in {0, 1} /\ q = 2 * p + s
  BY <1>1
<1> HIDE DEF q, r, p, s
<1>3. s = 0 => h * q = (2 * h) * p
  BY <1>2
<1>h. s = 1 => h * q = (2 * h) * p + h
  BY <1>2
<1>n. (2 * h) * p \in Nat /\ (2 * h) * (p + 1) = (2 * h) * p + 2 * h
  BY <1>2
<1> DEFINE w == (2 * h) * p
<1>4. CASE s = 0
  <2>1. m = (2 * h) * p + r /\ r \in 0 .. 2 * h - 1
    <3>1. m = w + r
      BY <1>1, <1>3, <1>4
    <3>. QED  BY <3>1, <1>1
  <2>2. m + h = (2 * h) * p + (r + h) /\ r + h \in 0 .. 2 * h - 1
    <3>1. w \in Nat
      BY <1>n
    <3>. HIDE DEF w
    <3>2. m + h = w + (r + h)
      BY <2>1, <1>1, <3>1 DEF w
    <3>. QED  BY <3>2, <1>1 DEF w
  <2>3. m \div (2 * h) = p
    BY <2>1, <1>2
  <2>4. (m + h) \div (2 * h) = p
    BY <2>2, <1>2, <1>1
  <2>. QED  BY <2>3, <2>4, <1>4, <1>2, <1>1 DEF q, s
<1>5. CASE s = 1
  <2>1. m = (2 * h) * p + (h + r) /\ h + r \in 0 .. 2 * h - 1
    <3>1. w \in Nat /\ m = w + h + r
      BY <1>1, <1>h, <1>5, <1>n
    <3>. HIDE DEF w
    <3>2. m = w + (h + r)
      BY <3>1, <1>1
    <3>. QED  BY <3>2, <1>1 DEF w
  <2>2. m + h = (2 * h) * (p + 1) + r /\ r \in 0 .. 2 * h - 1
    BY <2>1, <1>1, <1>2, <1>n
  <2>3. m \div (2 * h) = p
    BY <2>1, <1>2, <1>1
  <2>4. (m + h) \div (2 * h) = p + 1
    BY <2>2, <1>2, <1>1
  <2>. QED  BY <2>3, <2>4, <1>5, <1>2, <1>1 DEF q, s
<1>. QED  BY <1>2, <1>4, <1>5
-----------------------------------------------------------------------------
LEMMA RequestParts ==
  ASSUME NEW r \in Requests
  PROVE  /\ Biased(r) \in Int /\ Product(r) \in Int
         /\ r.multiplier \in Nat /\ r.multiplier < Power(MULTIPLIER_WIDTH)
         /\ r.relu \in BOOLEAN
         /\ r.shift = 0 \/ r.shift \in 1 .. Power(SHIFT_WIDTH) - 1
<1>1. /\ r.accumulator \in Int /\ r.bias \in Int
      /\ r.multiplier \in 0 .. Power(MULTIPLIER_WIDTH) - 1
      /\ r.shift \in 0 .. Power(SHIFT_WIDTH) - 1
      /\ r.relu \in BOOLEAN
  BY PowersOfWidths DEF Requests
<1>2. Power(SHIFT_WIDTH) \in Nat /\ Power(MULTIPLIER_WIDTH) \in Nat
  BY PowersOfWidths
<1>. QED  BY <1>1, <1>2 DEF Biased, Product

(* The product of a sum that fits needs one bit less than its register.    *)
LEMMA ProductFits ==
  ASSUME NEW r \in Requests, Fits(r)
  PROVE  Abs(Product(r)) \in Nat /\ Abs(Product(r)) < Power(ProductWidth - 1)
<1> DEFINE a == Power(ACC_WIDTH - 1)
           t == Power(MULTIPLIER_WIDTH)
           x == Abs(Biased(r))
           y == r.multiplier
<1>1. a \in Nat \ {0} /\ t \in Nat \ {0} /\ a * t <= Power(ProductWidth - 1)
  BY PowersOfWidths
<1>2. Biased(r) \in Int /\ y \in Nat /\ y <= t - 1
  BY RequestParts, <1>1
<1>3. x \in Nat /\ x <= a
  BY <1>1, <1>2 DEF Fits, InRange, Abs
<1>4. Product(r) = Biased(r) * y
  BY DEF Product
<1>5. Abs(Product(r)) = x * y
  BY <1>2, <1>4 DEF Abs
<1> HIDE DEF a, t, x, y
<1>6. x * y <= a * y
  BY <1>1, <1>2, <1>3
<1>7. a * y <= a * (t - 1)
  BY <1>1, <1>2
<1>8. a * (t - 1) = a * t - a
  BY <1>1
<1>9. x * y \in Nat /\ a * y \in Nat /\ a * t \in Nat
  BY <1>1, <1>2, <1>3
<1>10. Power(ProductWidth - 1) \in Nat
  <2>1. ProductWidth - 1 \in Powers
    BY Widths DEF Powers
  <2>. QED  BY <2>1
<1>11. x * y < a * t
  BY <1>1, <1>6, <1>7, <1>8, <1>9
<1>12. x * y < Power(ProductWidth - 1)
  BY <1>1, <1>9, <1>10, <1>11
<1>. QED  BY <1>5, <1>9, <1>12

Shifted(magnitude, shift) ==
  IF shift = 0 THEN magnitude ELSE (magnitude + Power(shift - 1)) \div Power(shift)

(* The rounding stage agrees with the reference, also where the shift is   *)
(* as wide as the product or wider.                                        *)
LEMMA RoundingAgrees ==
  ASSUME NEW r \in Requests, Fits(r)
  PROVE  /\ Shifted(Abs(Product(r)), r.shift) \in Nat
         /\ rounded_magnitude(Abs(Product(r)), r.shift) = Shifted(Abs(Product(r)), r.shift)
<1> DEFINE m == Abs(Product(r))
<1>1. m \in Nat /\ m < Power(ProductWidth - 1)
  BY ProductFits
<1> HIDE DEF m
<1>2. CASE r.shift = 0
  BY <1>1, <1>2 DEF Shifted, rounded_magnitude, m
<1>3. CASE r.shift \in 1 .. Power(SHIFT_WIDTH) - 1
  <2> DEFINE h == Power(r.shift - 1)
  <2>1. h \in Nat \ {0} /\ Power(r.shift) = 2 * h
    BY <1>3, PowersOfShifts
  <2>2. r.shift >= ProductWidth => m < h
    <3>1. Power(ProductWidth - 1) \in Nat
      <4>1. ProductWidth - 1 \in Powers
        BY Widths DEF Powers
      <4>. QED  BY <4>1
    <3>2. r.shift >= ProductWidth => Power(ProductWidth - 1) <= h
      BY <1>3, PowersOfShifts
    <3>. QED  BY <3>1, <3>2, <2>1, <1>1
  <2> HIDE DEF h
  <2>3. (m \div (2 * h)) + ((m \div h) % 2) = (m + h) \div (2 * h)
    BY <1>1, <2>1, RoundBitIsHalf
  <2>4. r.shift \in Nat /\ r.shift # 0
    BY <1>3, Widths
  <2>5. Shifted(m, r.shift) = (m + h) \div (2 * h)
    BY <2>1, <2>4 DEF Shifted, h
  <2>6. (m + h) \div (2 * h) \in Nat
    BY <1>1, <2>1
  <2>7. CASE r.shift >= ProductWidth
    <3>1. m + h \in 0 .. 2 * h - 1
      BY <1>1, <2>1, <2>2, <2>7
    <3>2. (m + h) \div (2 * h) = 0
      BY <3>1, <2>1
    <3>. QED  BY <2>4, <2>5, <2>7, <3>2 DEF rounded_magnitude, m
  <2>8. CASE ~(r.shift >= ProductWidth)
    <3>1. rounded_magnitude(m, r.shift) = (m \div (2 * h)) + ((m \div h) % 2)
      BY <2>1, <2>4, <2>8 DEF rounded_magnitude, h
    <3>. QED  BY <2>3, <2>5, <2>6, <3>1 DEF m
  <2>. QED  BY <2>7, <2>8
<1>. QED  BY <1>2, <1>3, RequestParts

(* Clamping the magnitude by its sign is saturating the signed number, and *)
(* the ReLU may look at the sign before or after the rounding.             *)
Clamped(v, neg, relu) ==
  IF relu /\ neg THEN 0
  ELSE IF neg THEN IF v > Top + 1 THEN -Top - 1 ELSE Wrapped(-v, OUTPUT_WIDTH)
  ELSE IF v > Top THEN Top ELSE Wrapped(v, OUTPUT_WIDTH)

LEMMA ClampSaturates ==
  ASSUME NEW v \in Nat, NEW neg \in BOOLEAN, NEW relu \in BOOLEAN
  PROVE  LET scaled == IF neg THEN -v ELSE v
         IN  Clamped(v, neg, relu) = saturate_int8(IF relu /\ scaled < 0 THEN 0 ELSE scaled)
<1>1. Half \in Nat \ {0} /\ Power(OUTPUT_WIDTH) = 2 * Half /\ Top = Half - 1
  BY PowersOfWidths DEF Top, Half
<1>2. \A x \in Int : -Half <= x /\ x < Half => Wrapped(x, OUTPUT_WIDTH) = x
  BY <1>1, WrappedFits DEF Wrapped, Half
<1>3. CASE neg
  <2>1. v <= Top + 1 => Wrapped(-v, OUTPUT_WIDTH) = -v
    BY <1>1, <1>2
  <2>. QED  BY <1>1, <1>3, <2>1 DEF Clamped, saturate_int8
<1>4. CASE ~neg
  <2>1. v <= Top => Wrapped(v, OUTPUT_WIDTH) = v
    BY <1>1, <1>2
  <2>. QED  BY <1>1, <1>4, <2>1 DEF Clamped, saturate_int8
<1>. QED  BY <1>3, <1>4
LEMMA ResultAgrees ==
  ASSUME NEW r \in Requests, Fits(r)
  PROVE  Clamped(Shifted(Abs(Product(r)), r.shift), Product(r) < 0, r.relu) = requantize_int32(r)
<1> DEFINE v == Shifted(Abs(Product(r)), r.shift)
           neg == Product(r) < 0
<1>1. v \in Nat
  BY RoundingAgrees
<1>2. Product(r) \in Int /\ r.relu \in BOOLEAN /\ neg \in BOOLEAN
  BY RequestParts
<1>3. round_shift_right(Product(r), r.shift) = IF neg THEN -v ELSE v
  BY <1>2 DEF round_shift_right, Shifted, Abs
<1>4. Clamped(v, neg, r.relu) =
        saturate_int8(IF r.relu /\ (IF neg THEN -v ELSE v) < 0 THEN 0 ELSE IF neg THEN -v ELSE v)
  BY <1>1, <1>2, ClampSaturates
<1>5. requantize_int32(r) =
        saturate_int8(IF r.relu /\ round_shift_right(Product(r), r.shift) < 0 THEN 0
                      ELSE round_shift_right(Product(r), r.shift))
  BY DEF requantize_int32, Product, Biased
<1>. QED  BY <1>3, <1>4, <1>5
-----------------------------------------------------------------------------
(* What each register holds of a transaction whose biased sum fits.        *)
StageHolds ==
  Fits(request) =>
    /\ stage = "biased" => value = Biased(request)
    /\ stage = "product" => value = Product(request)
    /\ stage = "magnitude" => value = Abs(Product(request))
    /\ stage = "rounded" => value = Shifted(Abs(Product(request)), request.shift)
    /\ stage \in {"magnitude", "rounded"} => (negative <=> Product(request) < 0)

OverflowTracked ==
  stage # "idle" => (overflow <=> ~Fits(request))

UnitInv ==
  /\ request \in Requests
  /\ StageHolds
  /\ OverflowTracked
  /\ ResultIsReference

LEMMA NoRequestIsRequest == NoRequest \in Requests
<1>1. 0 \in -Power(ACC_WIDTH - 1) .. Power(ACC_WIDTH - 1) - 1
  BY PowersOfWidths
<1>2. 0 \in 0 .. Power(MULTIPLIER_WIDTH) - 1
  BY PowersOfWidths
<1>3. 0 \in 0 .. Power(SHIFT_WIDTH) - 1
  OBVIOUS
<1>. QED  BY <1>1, <1>2, <1>3 DEF NoRequest, Requests

LEMMA UnitInitInv == UnitInit => UnitInv
  BY NoRequestIsRequest DEF UnitInit, UnitInv, StageHolds, OverflowTracked, ResultIsReference

LEMMA UnitNextInv == UnitInv /\ [UnitNext]_unitVars => UnitInv'
<1> SUFFICES ASSUME UnitInv, [UnitNext]_unitVars
             PROVE  UnitInv'
  OBVIOUS
<1> USE DEF UnitInv, OverflowTracked
<1>1. CASE AddBias
  <2>1. request' \in Requests /\ stage' = "biased"
    BY <1>1 DEF AddBias
  <2>2. overflow' <=> ~Fits(request')
    BY <1>1 DEF AddBias, Fits, Biased, biased_ext
  <2>3. Biased(request') \in Int
    BY <2>1, RequestParts
  <2>4. Fits(request') => Wrapped(Biased(request'), ACC_WIDTH) = Biased(request')
    BY <2>3, PowersOfWidths, WrappedFits DEF Fits, InRange, Wrapped
  <2>5. value' = Wrapped(Biased(request'), ACC_WIDTH)
    BY <1>1 DEF AddBias, Biased, biased_ext
  <2>6. StageHolds'
    BY <2>1, <2>4, <2>5 DEF StageHolds
  <2>. QED  BY <2>1, <2>2, <2>6 DEF ResultIsReference
<1>2. CASE Multiply
  BY <1>2 DEF Multiply, StageHolds, ResultIsReference, Product
<1>3. CASE TakeMagnitude
  BY <1>3 DEF TakeMagnitude, StageHolds, ResultIsReference
<1>4. CASE Round
  <2>1. Fits(request) => value' = Shifted(Abs(Product(request)), request.shift)
    BY <1>4, RoundingAgrees DEF Round, StageHolds
  <2>. QED  BY <1>4, <2>1 DEF Round, StageHolds, ResultIsReference
<1>5. CASE Clamp
  <2>1. stage' = "result" /\ stage = "rounded" /\ UNCHANGED << request, negative, overflow >>
    BY <1>5 DEF Clamp
  <2>2. CASE Fits(request)
    <3>1. /\ value = Shifted(Abs(Product(request)), request.shift)
          /\ negative <=> Product(request) < 0
          /\ ~overflow
      BY <2>1, <2>2 DEF StageHolds
    <3>2. value' = Clamped(value, Product(request) < 0, request.relu)
      BY <1>5, <3>1 DEF Clamp, next_result, Clamped
    <3>3. value' = requantize_int32(request)
      BY <2>2, <3>1, <3>2, ResultAgrees
    <3>. QED
      BY <2>1, <2>2, <3>1, <3>3
         DEF StageHolds, ResultIsReference, Fits, Biased, requantize_int32
  <2>3. CASE ~Fits(request)
    <3>1. overflow /\ value' = 0
      BY <1>5, <2>1, <2>3 DEF Clamp, next_result
    <3>. QED  BY <2>1, <2>3, <3>1 DEF StageHolds, ResultIsReference, Fits, Biased
  <2>. QED  BY <2>2, <2>3
<1>6. CASE UnitReset
  BY <1>6, NoRequestIsRequest DEF UnitReset, StageHolds, ResultIsReference
<1>7. CASE UNCHANGED unitVars
  BY <1>7 DEF unitVars, StageHolds, ResultIsReference, requantize_int32
<1>. QED  BY <1>1, <1>2, <1>3, <1>4, <1>5, <1>6, <1>7 DEF UnitNext

(* The inductive invariant: each register holds what the reference has     *)
(* computed by then.                                                       *)
THEOREM UnitInvariant == UnitSpec => []UnitInv
  BY UnitInitInv, UnitNextInv, PTL DEF UnitSpec

(* For all widths, sums, biases, multipliers and shifts the result of the  *)
(* unit is requantize_int32's.                                             *)
THEOREM UnitComputesReference == UnitSpec => []ResultIsReference
<1>1. UnitInv => ResultIsReference
  BY DEF UnitInv
<1>. QED  BY <1>1, UnitInvariant, PTL
-----------------------------------------------------------------------------
HIDE DEF PowerAssumption, WidthAssumption

(* A truncated number differs from the rounded one by at most one, and has *)
(* its sign.                                                               *)
LEMMA UnitRounds ==
  ASSUME NEW r \in Requests, Fits(r)
  PROVE  LET good == unit_rounded(Product(r), r.shift, FALSE)
             cut  == unit_rounded(Product(r), r.shift, TRUE)
         IN  /\ good \in Int /\ cut \in Int
             /\ good = round_shift_right(Product(r), r.shift)
             /\ \/ 0 <= cut /\ good \in {cut, cut + 1}
                \/ cut <= 0 /\ good \in {cut, cut - 1}
<1>. DEFINE m == Abs(Product(r))
            s == r.shift
            whole == truncated_magnitude(m, s)
            near == rounded_magnitude(m, s)
<1>1. m \in Nat /\ Product(r) \in Int
  BY ProductFits, RequestParts
<1>2. near = Shifted(m, s) /\ near \in Nat
  BY RoundingAgrees
<1>3. s = 0 \/ s \in 1 .. Power(SHIFT_WIDTH) - 1
  BY RequestParts
<1>4. s # 0 => Power(s) \in Nat \ {0} /\ Power(s - 1) \in Nat \ {0}
  BY <1>3, PowersOfShifts
<1>. HIDE DEF m, s
<1>5. whole \in Nat /\ near \in {whole, whole + 1}
  <2>1. CASE s = 0 \/ s >= ProductWidth
    BY <1>1, <2>1 DEF truncated_magnitude, rounded_magnitude
  <2>2. CASE s # 0 /\ ~(s >= ProductWidth)
    <3>1. whole = m \div Power(s) /\ near = (m \div Power(s)) + ((m \div Power(s - 1)) % 2)
      BY <2>2 DEF truncated_magnitude, rounded_magnitude
    <3>2. m \div Power(s) \in Nat /\ m \div Power(s - 1) \in Nat
      BY <1>1, <1>4, <2>2
    <3>3. (m \div Power(s - 1)) % 2 \in {0, 1}
      BY <3>2
    <3>. QED  BY <3>1, <3>2, <3>3
  <2>. QED  BY <2>1, <2>2
<1>. DEFINE good == unit_rounded(Product(r), s, FALSE)
            cut  == unit_rounded(Product(r), s, TRUE)
<1>6. good = IF Product(r) < 0 THEN -near ELSE near
  BY DEF unit_rounded, m
<1>7. cut = IF Product(r) < 0 THEN -whole ELSE whole
  BY DEF unit_rounded, m
<1>8. round_shift_right(Product(r), s) = IF Product(r) < 0 THEN -near ELSE near
  BY <1>1, <1>2 DEF round_shift_right, Shifted, Abs, m
<1>. HIDE DEF whole, near, good, cut
<1>9. good = round_shift_right(Product(r), s)
  BY <1>6, <1>8
<1>10. good \in Int /\ cut \in Int
  BY <1>5, <1>6, <1>7
<1>11. CASE Product(r) < 0
  <2>1. cut <= 0 /\ good \in {cut, cut - 1}
    BY <1>5, <1>7, <1>6, <1>11
  <2>. QED  BY <1>9, <1>10, <2>1 DEF good, cut, s
<1>12. CASE ~(Product(r) < 0)
  <2>1. 0 <= cut /\ good \in {cut, cut + 1}
    BY <1>5, <1>7, <1>6, <1>12
  <2>. QED  BY <1>9, <1>10, <2>1 DEF good, cut, s
<1>. QED  BY <1>11, <1>12

(* Saturating keeps integers, and what is negative negative.               *)
LEMMA Saturates ==
  ASSUME NEW x \in Int, NEW relu \in BOOLEAN
  PROVE  /\ Top \in Nat
         /\ saturate_int8(x) \in Int
         /\ x < 0 => saturate_int8(x) < 0
         /\ x >= 0 => saturate_int8(x) >= 0
         /\ saturated(x, relu) = IF relu /\ x < 0 THEN 0 ELSE saturate_int8(x)
<1>1. Top \in Nat
  BY PowersOfWidths DEF Top, Half
<1>. QED  BY <1>1 DEF saturate_int8, saturated

-----------------------------------------------------------------------------
Sums == workload.accumulators
Channel == workload.channel

WorkloadOK ==
  /\ workload \in [accumulators : Accumulators, channel : Channels]
  /\ fault = NoFault \/ fault \in [part : Parts, at : SUBSET DOMAIN workload.accumulators]

Wrong(part, i) == fault.part = part /\ i \in fault.at

Operands(sum, bias, multiplier) ==
  [accumulator |-> sum, bias |-> bias, multiplier |-> multiplier,
   shift |-> Channel.shift, relu |-> Channel.relu]

(* Right or off by one, the operands of a workload are ones the unit takes. *)
LEMMA OperandsFit ==
  ASSUME WorkloadOK, NEW i \in DOMAIN Sums, NEW sum \in {Sums[i], Sums[i] + 1},
         NEW bias \in {Channel.bias, 0},
         NEW multiplier \in {Channel.multiplier, Channel.multiplier + 1}
  PROVE  Operands(sum, bias, multiplier) \in Requests /\ Fits(Operands(sum, bias, multiplier))
<1>1. /\ Channel.bias \in Biases /\ Channel.multiplier \in 0 .. Power(MULTIPLIER_WIDTH) - 2
      /\ Channel.shift \in 0 .. Power(SHIFT_WIDTH) - 1 /\ Channel.relu \in BOOLEAN
  BY WorkloadAssumption DEF WorkloadAssumption, WorkloadOK, Channel
<1>2. /\ Sums[i] \in Int
      /\ \A b \in {0, Channel.bias} :
           InRange(Sums[i] + b, ACC_WIDTH) /\ InRange(Sums[i] + 1 + b, ACC_WIDTH)
  <2>1. Sums \in Accumulators /\ Channel \in Channels /\ Sums \in Seq(Int)
    BY WorkloadAssumption DEF WorkloadAssumption, WorkloadOK, Channel, Sums
  <2>2. Sums[i] \in Int
    BY <2>1
  <2>3. 0 \in {0} \cup {c.bias : c \in Channels}
    OBVIOUS
  <2>4. Channel.bias \in {0} \cup {c.bias : c \in Channels}
    BY <2>1
  <2>5. \A b \in {0} \cup {c.bias : c \in Channels} :
          InRange(Sums[i] + b, ACC_WIDTH) /\ InRange(Sums[i] + 1 + b, ACC_WIDTH)
    BY <2>1, WorkloadAssumption DEF WorkloadAssumption
  <2>. QED  BY <2>2, <2>3, <2>4, <2>5
<1>3. 0 \in Biases /\ \A b \in Biases : b \in Int
  BY WidthAssumption DEF WidthAssumption
<1>4. Power(ACC_WIDTH - 1) \in Nat /\ Power(MULTIPLIER_WIDTH) \in Nat
  BY PowersOfWidths
<1>5. InRange(sum, ACC_WIDTH) /\ InRange(sum + bias, ACC_WIDTH) /\ sum \in Int
  BY <1>2
<1>6. sum \in -Power(ACC_WIDTH - 1) .. Power(ACC_WIDTH - 1) - 1
  BY <1>4, <1>5 DEF InRange
<1>7. multiplier \in 0 .. Power(MULTIPLIER_WIDTH) - 1
  BY <1>1, <1>4
<1>8. Operands(sum, bias, multiplier) \in Requests
  BY <1>1, <1>3, <1>6, <1>7 DEF Operands, Requests
<1>. QED  BY <1>5, <1>8 DEF Fits, Biased, Operands

-----------------------------------------------------------------------------
(* The operands the reference and the device compute an output of.         *)
Given(i) == Operands(Sums[i], Channel.bias, Channel.multiplier)

Taken(i) ==
  Operands(IF Wrong("accumulator", i) THEN Sums[i] + 1 ELSE Sums[i],
           IF Wrong("bias", i) THEN 0 ELSE Channel.bias,
           IF Wrong("multiplier", i) THEN Channel.multiplier + 1 ELSE Channel.multiplier)

Traced(r, rounded, result) ==
  StageValues(r.accumulator, r.bias, r.multiplier, r.shift, rounded, result)

Right(i) == round_shift_right(Product(Given(i)), Channel.shift)

Computed(i) == unit_rounded(Product(Taken(i)), Channel.shift, Wrong("rounding", i))

Stored(i) ==
  IF Wrong("clamp", i) THEN Wrapped(Computed(i), OUTPUT_WIDTH)
  ELSE saturated(Computed(i), Channel.relu /\ ~Wrong("relu", i))

LEMMA OperandsTaken ==
  ASSUME WorkloadOK, NEW i \in DOMAIN Sums
  PROVE  /\ Given(i) \in Requests /\ Fits(Given(i))
         /\ Taken(i) \in Requests /\ Fits(Taken(i))
         /\ Sums[i] \in Int /\ Channel.bias \in Int /\ Channel.multiplier \in Int
         /\ Channel.relu \in BOOLEAN
<1>1. Given(i) \in Requests /\ Fits(Given(i))
  BY OperandsFit DEF Given
<1>2. Taken(i) \in Requests /\ Fits(Taken(i))
  BY OperandsFit DEF Taken
<1>3. Given(i).accumulator \in Int /\ Given(i).bias \in Int /\ Given(i).multiplier \in Int
  <2>1. Power(ACC_WIDTH - 1) \in Nat /\ Power(MULTIPLIER_WIDTH) \in Nat
    BY PowersOfWidths
  <2>2. \A b \in Biases : b \in Int
    BY WidthAssumption DEF WidthAssumption
  <2>. QED  BY <1>1, <2>1, <2>2 DEF Requests
<1>. QED  BY <1>1, <1>2, <1>3 DEF Given, Operands, Requests

LEMMA ReferenceTraces ==
  ASSUME WorkloadOK, NEW i \in DOMAIN Sums
  PROVE  reference_arithmetic_samples[i]
           = Traced(Given(i), Right(i), saturated(Right(i), Channel.relu))
BY DEF reference_arithmetic_samples, Traced, Given, Operands, Right, Product, Biased, Sums,
       Channel

LEMMA DeviceTraces ==
  ASSUME WorkloadOK, NEW i \in DOMAIN Sums
  PROVE  device_sample(i) = Traced(Taken(i), Computed(i), Stored(i))
<1>1. /\ Sums[i] + (IF Wrong("accumulator", i) THEN 1 ELSE 0) = Taken(i).accumulator
      /\ (IF Wrong("bias", i) THEN 0 ELSE Channel.bias) = Taken(i).bias
      /\ Channel.multiplier + (IF Wrong("multiplier", i) THEN 1 ELSE 0) = Taken(i).multiplier
      /\ Channel.shift = Taken(i).shift
  <2>1. Sums[i] \in Int /\ Channel.multiplier \in Int
    BY OperandsTaken
  <2>2. /\ Taken(i).accumulator = IF Wrong("accumulator", i) THEN Sums[i] + 1 ELSE Sums[i]
        /\ Taken(i).bias = IF Wrong("bias", i) THEN 0 ELSE Channel.bias
        /\ Taken(i).multiplier = IF Wrong("multiplier", i) THEN Channel.multiplier + 1
                                 ELSE Channel.multiplier
        /\ Taken(i).shift = Channel.shift
    BY DEF Taken, Operands
  <2>. QED  BY <2>1, <2>2
<1>2. Product(Taken(i)) = (Taken(i).accumulator + Taken(i).bias) * Taken(i).multiplier
  BY DEF Product, Biased
<1>. HIDE DEF Taken
<1>. QED
  BY <1>1, <1>2 DEF device_sample, Traced, Computed, Stored, Wrong, Channel, Sums

(* Which stages a fault can show at.                                       *)
LEMMA FaultShows ==
  ASSUME WorkloadOK, NEW i \in DOMAIN Sums
  PROVE  /\ Right(i) \in Int /\ Computed(i) \in Int
         /\ Wrong("accumulator", i) <=> Taken(i).accumulator # Given(i).accumulator
         /\ ~Wrong("accumulator", i) /\ ~Wrong("bias", i) /\ ~Wrong("multiplier", i) =>
              Taken(i) = Given(i)
         /\ Wrong("bias", i) /\ Biased(Taken(i)) = Biased(Given(i)) => Taken(i) = Given(i)
         /\ Wrong("multiplier", i) => Biased(Taken(i)) = Biased(Given(i))
         /\ Taken(i) = Given(i) /\ ~Wrong("rounding", i) => Computed(i) = Right(i)
         /\ Taken(i) = Given(i) /\ Wrong("rounding", i) =>
              \/ 0 <= Computed(i) /\ Right(i) \in {Computed(i), Computed(i) + 1}
              \/ Computed(i) <= 0 /\ Right(i) \in {Computed(i), Computed(i) - 1}
<1>1. /\ Given(i) \in Requests /\ Fits(Given(i)) /\ Taken(i) \in Requests /\ Fits(Taken(i))
      /\ Sums[i] \in Int /\ Channel.bias \in Int /\ Channel.multiplier \in Int
  BY OperandsTaken
<1>2. /\ Given(i).accumulator = Sums[i] /\ Given(i).bias = Channel.bias
      /\ Given(i).shift = Channel.shift
      /\ Taken(i).accumulator = IF Wrong("accumulator", i) THEN Sums[i] + 1 ELSE Sums[i]
      /\ Taken(i).bias = IF Wrong("bias", i) THEN 0 ELSE Channel.bias
      /\ Taken(i).shift = Channel.shift
  BY DEF Taken, Given, Operands
<1>3. /\ Wrong("bias", i) => ~Wrong("accumulator", i) /\ ~Wrong("multiplier", i)
      /\ Wrong("multiplier", i) => ~Wrong("accumulator", i) /\ ~Wrong("bias", i)
  BY DEF Wrong
<1>4. ~Wrong("accumulator", i) /\ ~Wrong("bias", i) /\ ~Wrong("multiplier", i) =>
        Taken(i) = Given(i)
  BY DEF Taken, Given
<1>5. ASSUME Wrong("bias", i), Biased(Taken(i)) = Biased(Given(i))
      PROVE  Taken(i) = Given(i)
  <2>1. Channel.bias = 0
    BY <1>1, <1>2, <1>3, <1>5 DEF Biased
  <2>. QED  BY <1>3, <1>5, <2>1 DEF Taken, Given
<1>6. Wrong("multiplier", i) => Biased(Taken(i)) = Biased(Given(i))
  BY <1>1, <1>2, <1>3 DEF Biased
<1>7. ~Wrong("rounding", i) => Computed(i) = unit_rounded(Product(Taken(i)), Channel.shift, FALSE)
  BY DEF Computed, unit_rounded
<1>8. Wrong("rounding", i) => Computed(i) = unit_rounded(Product(Taken(i)), Channel.shift, TRUE)
  BY DEF Computed, unit_rounded
<1>9. /\ unit_rounded(Product(Taken(i)), Channel.shift, FALSE) \in Int
      /\ unit_rounded(Product(Taken(i)), Channel.shift, TRUE) \in Int
  BY <1>1, <1>2, UnitRounds
<1>10. /\ Right(i) \in Int
       /\ unit_rounded(Product(Given(i)), Channel.shift, FALSE) = Right(i)
  BY <1>1, <1>2, UnitRounds DEF Right
<1>11. LET cut == unit_rounded(Product(Given(i)), Channel.shift, TRUE)
       IN  \/ 0 <= cut /\ Right(i) \in {cut, cut + 1}
           \/ cut <= 0 /\ Right(i) \in {cut, cut - 1}
  BY <1>1, <1>2, <1>10, UnitRounds
<1>12. Computed(i) \in Int
  BY <1>7, <1>8, <1>9
<1>13. Wrong("accumulator", i) <=> Taken(i).accumulator # Given(i).accumulator
  BY <1>1, <1>2
<1>14. Taken(i) = Given(i) /\ ~Wrong("rounding", i) => Computed(i) = Right(i)
  BY <1>7, <1>10
<1>15. Taken(i) = Given(i) /\ Wrong("rounding", i) =>
         \/ 0 <= Computed(i) /\ Right(i) \in {Computed(i), Computed(i) + 1}
         \/ Computed(i) <= 0 /\ Right(i) \in {Computed(i), Computed(i) - 1}
  BY <1>8, <1>11
<1>. QED  BY <1>4, <1>5, <1>6, <1>10, <1>12, <1>13, <1>14, <1>15

(* The vector of the generated test, made at output i.                     *)
CaseOf(i) ==
  [accumulator |-> Taken(i).accumulator, bias |-> Taken(i).bias,
   multiplier |-> Taken(i).multiplier, shift |-> Taken(i).shift,
   software_result |-> saturated(Right(i), Channel.relu)]

(* Made where a result is wrong, the test fails on the unit that computed  *)
(* it, although it leaves the ReLU out; and if the truncation made it      *)
(* wrong, it passes on the corrected unit.                                 *)
LEMMA TestTells ==
  ASSUME WorkloadOK, NEW i \in DOMAIN Sums, case = CaseOf(i),
         ~Wrong("clamp", i), ~Wrong("relu", i),
         Stored(i) # saturated(Right(i), Channel.relu)
  PROVE  /\ Wrong("rounding", i) => ~run_case(TRUE) /\ run_case(FALSE)
         /\ ~Wrong("rounding", i) => ~run_case(FALSE)
<1>. DEFINE C == Computed(i)
            R == Right(i)
            relu == Channel.relu
            wanted == saturated(Right(i), Channel.relu)
            plain(x) == saturated(x, FALSE)
<1>1. C \in Int /\ R \in Int /\ relu \in BOOLEAN
  BY FaultShows, OperandsTaken
<1>2. /\ Top \in Nat
      /\ wanted = IF relu /\ R < 0 THEN 0 ELSE saturate_int8(R)
      /\ saturated(C, relu) = IF relu /\ C < 0 THEN 0 ELSE saturate_int8(C)
      /\ plain(C) = saturate_int8(C) /\ plain(R) = saturate_int8(R)
      /\ saturate_int8(C) \in Int /\ saturate_int8(R) \in Int
      /\ C < 0 => saturate_int8(C) < 0
      /\ R >= 0 => saturate_int8(R) >= 0
  BY <1>1, Saturates
<1>3. saturated(C, relu) # wanted
  <2>1. Stored(i) = saturated(C, relu)
    BY <1>1 DEF Stored, saturated
  <2>. QED  BY <2>1
<1>4. /\ case.accumulator = Taken(i).accumulator /\ case.bias = Taken(i).bias
      /\ case.multiplier = Taken(i).multiplier /\ case.shift = Channel.shift
      /\ case.software_result = wanted
  BY DEF CaseOf, Taken, Operands
<1>5. (case.accumulator + case.bias) * case.multiplier = Product(Taken(i))
  BY <1>4 DEF Product, Biased
<1>6. Wrong("rounding", i) => (run_case(TRUE) <=> plain(C) = wanted)
  BY <1>4, <1>5 DEF run_case, Computed, unit_rounded
<1>7. ~Wrong("rounding", i) => (run_case(FALSE) <=> plain(C) = wanted)
  BY <1>4, <1>5 DEF run_case, Computed, unit_rounded
<1>. HIDE DEF C, R, relu, wanted, plain
<1>8. plain(C) # wanted
  <2>1. CASE relu /\ C < 0
    <3>1. wanted = IF R < 0 THEN 0 ELSE saturate_int8(R)
      BY <1>2, <2>1
    <3>2. wanted \in Int /\ wanted >= 0
      BY <1>1, <1>2, <3>1
    <3>. QED  BY <1>1, <1>2, <2>1, <3>2
  <2>2. CASE ~(relu /\ C < 0)
    BY <1>2, <1>3, <2>2
  <2>. QED  BY <2>1, <2>2
<1>9. ASSUME Wrong("rounding", i)
      PROVE  run_case(FALSE)
  <2>1. Taken(i) = Given(i)
    BY <1>9, FaultShows DEF Wrong
  <2>2. \/ 0 <= C /\ R \in {C, C + 1}
        \/ C <= 0 /\ R \in {C, C - 1}
    BY <1>9, <2>1, FaultShows DEF C, R
  <2>3. ~(relu /\ R < 0)
    <3>1. SUFFICES ASSUME relu, R < 0 PROVE FALSE
      OBVIOUS
    <3>2. wanted = 0 /\ C <= 0
      BY <1>1, <1>2, <2>2, <3>1
    <3>3. C = 0 => saturate_int8(C) = 0
      BY <1>2 DEF saturate_int8
    <3>. QED  BY <1>1, <1>2, <1>3, <3>1, <3>2, <3>3
  <2>4. plain(R) = wanted
    BY <1>2, <2>3
  <2>5. run_case(FALSE) <=> plain(R) = wanted
    <3>1. unit_rounded(Product(Given(i)), Channel.shift, FALSE) = R
      <4>1. Given(i).shift = Channel.shift /\ Given(i) \in Requests /\ Fits(Given(i))
        BY OperandsTaken DEF Given, Operands
      <4>. QED  BY <4>1, UnitRounds DEF Right, R
    <3>. QED  BY <1>4, <1>5, <2>1, <3>1 DEF run_case, plain
  <2>. QED  BY <2>4, <2>5
<1>. QED  BY <1>6, <1>7, <1>8, <1>9

-----------------------------------------------------------------------------
(* The least of some numbers is one of them and none is less.              *)
LEMMA LeastIsLeast ==
  ASSUME NEW S \in SUBSET Nat, S # {}
  PROVE  Min(S) \in S /\ \A n \in S : Min(S) <= n
<1>. DEFINE R == {p \in Nat \X Nat : p[1] < p[2]}
<1>1. IsWellFoundedOn(R, Nat)
  BY NatLessThanWellFounded DEF OpToRel
<1>2. PICK m \in S : \A n \in S : << n, m >> \notin R
  <2>. HIDE DEF R
  <2>. QED  BY <1>1, WFMin
<1>3. \A n \in S : ~(n < m)
  BY <1>2
<1>4. \A n \in S : m <= n
  BY <1>3
<1>. QED  BY <1>2, <1>4 DEF Min

Kinds == {"missing_candidate_value", "value_mismatch"}

Points == {"accumulator", "post_bias", "post_requantization", "operation_output"}

Events == [point : Points, sequence : Nat, held : Int]

(* What the comparison reports: the first expected event that the other    *)
(* trace does not have, and if it has another for the same value, that.    *)
LEMMA DivergenceIs ==
  ASSUME NEW n \in Nat, NEW expected \in [1 .. n -> Events], NEW actual \in SUBSET Events
  PROVE  LET d == FirstDivergence(expected, actual)
             same(e) == {c \in actual : c.point = e.point /\ c.sequence = e.sequence}
         IN  /\ (\E k \in 1 .. n : expected[k] \notin actual) => d # NoDivergence
             /\ d # NoDivergence =>
                  \E k \in 1 .. n :
                    /\ expected[k] \notin actual
                    /\ \A j \in 1 .. n : expected[j] \notin actual => k <= j
                    /\ d.trace_point = expected[k].point /\ d.sequence = expected[k].sequence
                    /\ d.reference = expected[k].held
                    /\ same(expected[k]) = {} => d.kind = "missing_candidate_value"
                    /\ same(expected[k]) # {} =>
                         /\ d.kind = "value_mismatch"
                         /\ \E c \in same(expected[k]) : d.candidate = c.held
<1>. DEFINE wrong == {k \in 1 .. n : expected[k] \notin actual}
            same(e) == {c \in actual : c.point = e.point /\ c.sequence = e.sequence}
            d == FirstDivergence(expected, actual)
<1>1. CASE wrong = {}
  BY <1>1 DEF FirstDivergence
<1>2. CASE wrong # {}
  <2>. DEFINE k == Min(wrong)
              e == expected[k]
              c == CHOOSE c \in same(e) : TRUE
  <2>1. k \in wrong /\ \A j \in wrong : k <= j
    <3>1. wrong \in SUBSET Nat
      OBVIOUS
    <3>. HIDE DEF wrong
    <3>. QED  BY <1>2, <3>1, LeastIsLeast
  <2>2. d = [kind |-> IF same(e) = {} THEN "missing_candidate_value" ELSE "value_mismatch",
             trace_point |-> e.point, sequence |-> e.sequence, reference |-> e.held,
             candidate |-> IF same(e) = {} THEN e.held ELSE c.held]
    BY <1>2 DEF FirstDivergence
  <2>3. same(e) # {} => c \in same(e)
    OBVIOUS
  <2>4. e \in Events /\ same(e) \subseteq Events
    BY <2>1
  <2>. HIDE DEF k, c
  <2>5. d # NoDivergence
    <3>1. d \in [kind : Kinds, trace_point : Points, sequence : Nat,
                 reference : Int, candidate : Int]
      <4>1. /\ e.point \in Points /\ e.sequence \in Nat /\ e.held \in Int
            /\ same(e) # {} => c.held \in Int
        BY <2>3, <2>4 DEF Events
      <4>. DEFINE kind == IF same(e) = {} THEN "missing_candidate_value" ELSE "value_mismatch"
                  held == IF same(e) = {} THEN e.held ELSE c.held
      <4>2. kind \in Kinds /\ held \in Int
        <5>. HIDE DEF e, same
        <5>1. CASE same(e) = {}
          <6>1. kind = "missing_candidate_value" /\ held = e.held
            BY <5>1
          <6>. QED  BY <4>1, <6>1 DEF Kinds
        <5>2. CASE same(e) # {}
          <6>1. kind = "value_mismatch" /\ held = c.held
            BY <5>2
          <6>. QED  BY <4>1, <5>2, <6>1 DEF Kinds
        <5>. QED  BY <5>1, <5>2
      <4>3. d = [kind |-> kind, trace_point |-> e.point, sequence |-> e.sequence,
                 reference |-> e.held, candidate |-> held]
        BY <2>2
      <4>. HIDE DEF d, e, same, kind, held
      <4>. QED  BY <4>1, <4>2, <4>3
    <3>. QED  BY <3>1, NoDivergenceAssumption DEF NoDivergenceAssumption, Kinds, Points
  <2>6. /\ e \notin actual /\ k \in 1 .. n
        /\ \A j \in 1 .. n : expected[j] \notin actual => k <= j
    BY <2>1
  <2>7. /\ d.trace_point = e.point /\ d.sequence = e.sequence /\ d.reference = e.held
        /\ same(e) = {} => d.kind = "missing_candidate_value"
        /\ same(e) # {} => d.kind = "value_mismatch" /\ d.candidate = c.held
    BY <2>2
  <2>. HIDE DEF d, same
  <2>8. \E j \in 1 .. n :
          /\ expected[j] \notin actual
          /\ \A i \in 1 .. n : expected[i] \notin actual => j <= i
          /\ d.trace_point = expected[j].point /\ d.sequence = expected[j].sequence
          /\ d.reference = expected[j].held
          /\ same(expected[j]) = {} => d.kind = "missing_candidate_value"
          /\ same(expected[j]) # {} =>
               /\ d.kind = "value_mismatch"
               /\ \E a \in same(expected[j]) : d.candidate = a.held
    BY <2>3, <2>6, <2>7
  <2>. QED  BY <2>5, <2>8 DEF d, same
<1>. QED  BY <1>1, <1>2

-----------------------------------------------------------------------------
(* The traces.                                                             *)
Sample ==
  [accumulator : Int, bias : Int, post_bias : Int, multiplier : Int, shift : Int,
   rounded : Int, result : Int]

Held(s, point) ==
  IF point = "accumulator" THEN s.accumulator
  ELSE IF point = "post_bias" THEN s.post_bias
  ELSE IF point = "post_requantization" THEN s.rounded
  ELSE s.result

(* The place of a stage among the four of its output.                      *)
Place(point) ==
  IF point = "accumulator" THEN 1
  ELSE IF point = "post_bias" THEN 2
  ELSE IF point = "post_requantization" THEN 3
  ELSE 4

At(i, point) == 4 * i - 4 + Place(point)

LEMMA SamplesHold ==
  ASSUME NEW s \in Sample, NEW point \in Points
  PROVE  Held(s, point) \in Int
BY DEF Sample, Held

(* The stages of output i are the four events behind those of the outputs  *)
(* before it.                                                              *)
LEMMA PlacesInTrace ==
  ASSUME NEW n \in Nat
  PROVE  /\ \A i \in 1 .. n, point \in Points :
              At(i, point) \in 1 .. 4 * n /\ (At(i, point) + 3) \div 4 = i
         /\ \A k \in 1 .. 4 * n : \E i \in 1 .. n, point \in Points : k = At(i, point)
         /\ \A i, j \in 1 .. n, p, q \in Points :
              At(i, p) <= At(j, q) => i <= j /\ (i = j => Place(p) <= Place(q))
<1>1. \A point \in Points : Place(point) \in 1 .. 4
  BY DEF Place
<1>2. ASSUME NEW i \in 1 .. n, NEW point \in Points
      PROVE  At(i, point) \in 1 .. 4 * n /\ (At(i, point) + 3) \div 4 = i
  BY <1>1 DEF At
<1>3. ASSUME NEW k \in 1 .. 4 * n
      PROVE  \E i \in 1 .. n, point \in Points : k = At(i, point)
  <2>. DEFINE i == (k + 3) \div 4
  <2>1. i \in 1 .. n /\ k - (4 * i - 4) \in 1 .. 4
    OBVIOUS
  <2>2. \A s \in 1 .. 4 : \E point \in Points : Place(point) = s
    BY DEF Place, Points
  <2>3. PICK point \in Points : Place(point) = k - (4 * i - 4)
    BY <2>1, <2>2
  <2>4. k = At(i, point)
    BY <2>1, <2>3 DEF At
  <2>. QED  BY <2>1, <2>4
<1>4. ASSUME NEW i \in 1 .. n, NEW j \in 1 .. n, NEW p \in Points, NEW q \in Points,
             At(i, p) <= At(j, q)
      PROVE  i <= j /\ (i = j => Place(p) <= Place(q))
  BY <1>1, <1>4 DEF At
<1>. QED  BY <1>2, <1>3, <1>4

LEMMA TraceOf ==
  ASSUME NEW of \in Seq(Sample)
  PROVE  /\ pipeline_trace(of) \in [1 .. 4 * Len(of) -> Events]
         /\ \A i \in 1 .. Len(of), point \in Points :
              pipeline_trace(of)[At(i, point)] = Event(point, i, Held(of[i], point))
<1>. DEFINE n == Len(of)
<1>1. n \in Nat /\ \A i \in 1 .. n : of[i] \in Sample
  OBVIOUS
<1>. HIDE DEF n
<1>2. ASSUME NEW i \in 1 .. n, NEW point \in Points
      PROVE  stage_events(of[i], i)[Place(point)] = Event(point, i, Held(of[i], point))
  BY DEF stage_events, Place, Held, Points
<1>3. ASSUME NEW i \in 1 .. n, NEW point \in Points
      PROVE  /\ At(i, point) \in 1 .. 4 * n
             /\ pipeline_trace(of)[At(i, point)] = Event(point, i, Held(of[i], point))
  <2>1. At(i, point) \in 1 .. 4 * n /\ (At(i, point) + 3) \div 4 = i
    BY <1>1, PlacesInTrace
  <2>2. At(i, point) + 4 - 4 * i = Place(point)
    <3>1. Place(point) \in 1 .. 4
      BY DEF Place
    <3>. QED  BY <1>1, <3>1 DEF At
  <2>3. pipeline_trace(of)[At(i, point)] = stage_events(of[i], i)[Place(point)]
    BY <2>1, <2>2 DEF pipeline_trace, n
  <2>. QED  BY <1>2, <2>1, <2>3
<1>4. ASSUME NEW k \in 1 .. 4 * n
      PROVE  pipeline_trace(of)[k] \in Events
  <2>1. PICK i \in 1 .. n, point \in Points : k = At(i, point)
    BY <1>1, PlacesInTrace
  <2>2. pipeline_trace(of)[k] = Event(point, i, Held(of[i], point))
    BY <1>3, <2>1
  <2>3. Held(of[i], point) \in Int /\ i \in Nat
    BY <1>1, SamplesHold
  <2>. QED  BY <2>2, <2>3 DEF Event, Events
<1>5. pipeline_trace(of) \in [1 .. 4 * n -> Events]
  <2>1. pipeline_trace(of) = [k \in 1 .. 4 * n |-> pipeline_trace(of)[k]]
    BY DEF pipeline_trace, n
  <2>. HIDE DEF pipeline_trace
  <2>. QED  BY <1>4, <2>1
<1>. QED  BY <1>3, <1>5 DEF n

LEMMA OutputsOf ==
  ASSUME NEW of \in Seq(Sample)
  PROVE  /\ output_trace(of) \in [1 .. Len(of) -> Events]
         /\ \A i \in 1 .. Len(of) : output_trace(of)[i] = Event("operation_output", i, of[i].result)
<1>1. \A i \in 1 .. Len(of) : of[i] \in Sample /\ i \in Nat
  OBVIOUS
<1>2. \A i \in 1 .. Len(of) : of[i].result \in Int
  BY <1>1 DEF Sample
<1>. QED  BY <1>1, <1>2 DEF output_trace, Event, Events, Points

LEMMA EventsDiffer ==
  ASSUME NEW p, NEW i, NEW x, NEW q, NEW j, NEW y
  PROVE  /\ Event(p, i, x) = Event(q, j, y) <=> p = q /\ i = j /\ x = y
         /\ Event(p, i, x).point = p /\ Event(p, i, x).sequence = i /\ Event(p, i, x).held = x
BY DEF Event

(* Comparing the stage traces finds the first stage of the first output    *)
(* that differ, whenever any do.                                           *)
LEMMA StagesCompared ==
  ASSUME NEW n \in Nat, NEW r \in Seq(Sample), NEW s \in Seq(Sample), Len(r) = n, Len(s) = n
  PROVE  LET d == FirstDivergence(pipeline_trace(r), Range(pipeline_trace(s)))
             differ(i, point) == Held(r[i], point) # Held(s[i], point)
         IN  /\ \A i \in 1 .. n, point \in Points : differ(i, point) => d # NoDivergence
             /\ d # NoDivergence =>
                  /\ d.sequence \in 1 .. n /\ d.trace_point \in Points
                  /\ d.kind = "value_mismatch" /\ differ(d.sequence, d.trace_point)
                  /\ d.reference = Held(r[d.sequence], d.trace_point)
                  /\ d.candidate = Held(s[d.sequence], d.trace_point)
                  /\ \A i \in 1 .. n, point \in Points :
                       differ(i, point) =>
                         \/ d.sequence < i
                         \/ d.sequence = i /\ Place(d.trace_point) <= Place(point)
<1>. DEFINE expected == pipeline_trace(r)
            actual == Range(pipeline_trace(s))
            same(e) == {c \in actual : c.point = e.point /\ c.sequence = e.sequence}
            d == FirstDivergence(expected, actual)
            differ(i, point) == Held(r[i], point) # Held(s[i], point)
<1>1. expected \in [1 .. 4 * n -> Events] /\ actual \in SUBSET Events
  <2>1. expected \in [1 .. 4 * n -> Events]
    BY TraceOf
  <2>2. pipeline_trace(s) \in [1 .. 4 * n -> Events]
    BY TraceOf
  <2>3. actual \in SUBSET Events
    <3>. HIDE DEF expected
    <3>. QED  BY <2>2 DEF Range
  <2>. HIDE DEF expected, actual
  <2>. QED  BY <2>1, <2>3
<1>2. /\ \A i \in 1 .. n, point \in Points : At(i, point) \in 1 .. 4 * n
      /\ \A k \in 1 .. 4 * n : \E i \in 1 .. n, point \in Points : k = At(i, point)
      /\ \A i, j \in 1 .. n, p, q \in Points :
           At(i, p) <= At(j, q) => i <= j /\ (i = j => Place(p) <= Place(q))
  BY PlacesInTrace
<1>3. \A i \in 1 .. n, point \in Points :
        expected[At(i, point)] = Event(point, i, Held(r[i], point))
  BY TraceOf
<1>4. actual = {Event(point, i, Held(s[i], point)) : i \in 1 .. n, point \in Points}
  <2>1. \A i \in 1 .. n, point \in Points :
          pipeline_trace(s)[At(i, point)] = Event(point, i, Held(s[i], point))
    BY TraceOf
  <2>2. DOMAIN pipeline_trace(s) = 1 .. 4 * n
    BY TraceOf
  <2>3. actual = {pipeline_trace(s)[k] : k \in 1 .. 4 * n}
    BY <2>2 DEF Range
  <2>4. ASSUME NEW i \in 1 .. n, NEW point \in Points
        PROVE  Event(point, i, Held(s[i], point)) \in actual
    <3>. HIDE DEF actual
    <3>. QED  BY <1>2, <2>1, <2>3
  <2>5. ASSUME NEW e \in actual
        PROVE  \E i \in 1 .. n, point \in Points : e = Event(point, i, Held(s[i], point))
    <3>1. PICK k \in 1 .. 4 * n : e = pipeline_trace(s)[k]
      BY <2>3
    <3>2. PICK i \in 1 .. n, point \in Points : k = At(i, point)
      BY <1>2
    <3>. QED  BY <2>1, <3>1, <3>2
  <2>. HIDE DEF actual
  <2>. QED  BY <2>4, <2>5
<1>5. \A i \in 1 .. n, point \in Points :
        same(Event(point, i, Held(r[i], point))) = {Event(point, i, Held(s[i], point))}
  <2>. HIDE DEF actual
  <2>. QED  BY <1>4 DEF Event
<1>6. \A i \in 1 .. n, point \in Points : expected[At(i, point)] \notin actual <=> differ(i, point)
  <2>. HIDE DEF actual, expected
  <2>. SUFFICES ASSUME NEW i \in 1 .. n, NEW point \in Points
                PROVE  expected[At(i, point)] \notin actual <=> differ(i, point)
    OBVIOUS
  <2>1. expected[At(i, point)] \in actual <=>
          \E j \in 1 .. n, q \in Points :
            Event(point, i, Held(r[i], point)) = Event(q, j, Held(s[j], q))
    BY <1>3, <1>4
  <2>. QED  BY <2>1, EventsDiffer
<1>7. /\ (\E k \in 1 .. 4 * n : expected[k] \notin actual) => d # NoDivergence
      /\ d # NoDivergence =>
           \E k \in 1 .. 4 * n :
             /\ expected[k] \notin actual
             /\ \A j \in 1 .. 4 * n : expected[j] \notin actual => k <= j
             /\ d.trace_point = expected[k].point /\ d.sequence = expected[k].sequence
             /\ d.reference = expected[k].held
             /\ same(expected[k]) = {} => d.kind = "missing_candidate_value"
             /\ same(expected[k]) # {} =>
                  /\ d.kind = "value_mismatch"
                  /\ \E c \in same(expected[k]) : d.candidate = c.held
  <2>. HIDE DEF expected, actual
  <2>. QED  BY <1>1, DivergenceIs
<1>. HIDE DEF expected, actual, same, d, differ
<1>8. \A i \in 1 .. n, point \in Points : differ(i, point) => d # NoDivergence
  BY <1>2, <1>6, <1>7
<1>9. ASSUME d # NoDivergence
      PROVE  /\ d.sequence \in 1 .. n /\ d.trace_point \in Points
             /\ d.kind = "value_mismatch" /\ differ(d.sequence, d.trace_point)
             /\ d.reference = Held(r[d.sequence], d.trace_point)
             /\ d.candidate = Held(s[d.sequence], d.trace_point)
             /\ \A i \in 1 .. n, point \in Points :
                  differ(i, point) =>
                    \/ d.sequence < i
                    \/ d.sequence = i /\ Place(d.trace_point) <= Place(point)
  <2>1. PICK k \in 1 .. 4 * n :
             /\ expected[k] \notin actual
             /\ \A j \in 1 .. 4 * n : expected[j] \notin actual => k <= j
             /\ d.trace_point = expected[k].point /\ d.sequence = expected[k].sequence
             /\ d.reference = expected[k].held
             /\ same(expected[k]) # {} =>
                  /\ d.kind = "value_mismatch"
                  /\ \E c \in same(expected[k]) : d.candidate = c.held
    BY <1>7, <1>9
  <2>2. PICK i \in 1 .. n, point \in Points : k = At(i, point)
    BY <1>2
  <2>3. expected[k] = Event(point, i, Held(r[i], point))
    BY <1>3, <2>2
  <2>4. d.sequence = i /\ d.trace_point = point /\ d.reference = Held(r[i], point)
    BY <2>1, <2>3 DEF Event
  <2>5. same(expected[k]) = {Event(point, i, Held(s[i], point))}
    BY <1>5, <2>3
  <2>6. d.kind = "value_mismatch" /\ d.candidate = Held(s[i], point)
    BY <2>1, <2>5 DEF Event
  <2>7. differ(i, point)
    BY <1>6, <2>1, <2>2
  <2>8. ASSUME NEW j \in 1 .. n, NEW q \in Points, differ(j, q)
        PROVE  i < j \/ (i = j /\ Place(point) <= Place(q))
    <3>1. At(i, point) <= At(j, q)
      BY <1>2, <1>6, <2>1, <2>2, <2>8
    <3>2. i <= j /\ (i = j => Place(point) <= Place(q))
      BY <1>2, <3>1
    <3>. QED  BY <3>2
  <2>. QED  BY <2>4, <2>6, <2>7, <2>8
<1>. QED  BY <1>8, <1>9 DEF d, differ, expected, actual

(* Comparing the outputs finds the first that was lost or is wrong.        *)
LEMMA OutputsCompared ==
  ASSUME NEW n \in Nat, NEW r \in Seq(Sample), NEW s \in Seq(Sample), Len(r) = n, Len(s) = n,
         NEW lost \in SUBSET (1 .. n)
  PROVE  LET actual == {e \in Range(output_trace(s)) : e.sequence \notin lost}
             d == FirstDivergence(output_trace(r), actual)
         IN  d # NoDivergence =>
               /\ d.sequence \in 1 .. n /\ d.trace_point = "operation_output"
               /\ d.reference = r[d.sequence].result
               /\ d.sequence \in lost => d.kind = "missing_candidate_value"
               /\ d.sequence \notin lost =>
                    /\ d.kind = "value_mismatch" /\ d.candidate = s[d.sequence].result
                    /\ d.reference # d.candidate
<1>. DEFINE expected == output_trace(r)
            actual == {e \in Range(output_trace(s)) : e.sequence \notin lost}
            same(e) == {c \in actual : c.point = e.point /\ c.sequence = e.sequence}
            d == FirstDivergence(expected, actual)
            out(of, i) == Event("operation_output", i, of[i].result)
<1>1. expected \in [1 .. n -> Events] /\ actual \in SUBSET Events
  <2>1. expected \in [1 .. n -> Events]
    BY OutputsOf
  <2>2. output_trace(s) \in [1 .. n -> Events]
    BY OutputsOf
  <2>3. Range(output_trace(s)) \in SUBSET Events
    <3>. HIDE DEF expected, actual
    <3>. QED  BY <2>2 DEF Range
  <2>4. actual \in SUBSET Events
    BY <2>3
  <2>. HIDE DEF expected, actual
  <2>. QED  BY <2>1, <2>4
<1>2. \A i \in 1 .. n : expected[i] = out(r, i)
  BY OutputsOf
<1>3. actual = {out(s, i) : i \in 1 .. n \ lost}
  <2>1. DOMAIN output_trace(s) = 1 .. n /\ \A i \in 1 .. n : output_trace(s)[i] = out(s, i)
    BY OutputsOf
  <2>2. Range(output_trace(s)) = {out(s, i) : i \in 1 .. n}
    BY <2>1 DEF Range
  <2>3. \A i \in 1 .. n : out(s, i).sequence = i
    BY DEF Event
  <2>. HIDE DEF out
  <2>. QED  BY <2>2, <2>3
<1>4. \A i \in 1 .. n : same(out(r, i)) = IF i \in lost THEN {} ELSE {out(s, i)}
  <2>. HIDE DEF actual
  <2>. QED  BY <1>3 DEF Event
<1>5. \A i \in 1 .. n : expected[i] \notin actual <=> i \in lost \/ r[i].result # s[i].result
  <2>. HIDE DEF actual, expected
  <2>. SUFFICES ASSUME NEW i \in 1 .. n
                PROVE  expected[i] \notin actual <=> i \in lost \/ r[i].result # s[i].result
    OBVIOUS
  <2>1. expected[i] \in actual <=> \E j \in 1 .. n \ lost : out(r, i) = out(s, j)
    BY <1>2, <1>3
  <2>. QED  BY <2>1, EventsDiffer
<1>6. d # NoDivergence =>
        \E k \in 1 .. n :
          /\ expected[k] \notin actual
          /\ d.trace_point = expected[k].point /\ d.sequence = expected[k].sequence
          /\ d.reference = expected[k].held
          /\ same(expected[k]) = {} => d.kind = "missing_candidate_value"
          /\ same(expected[k]) # {} =>
               /\ d.kind = "value_mismatch"
               /\ \E c \in same(expected[k]) : d.candidate = c.held
  <2>. HIDE DEF expected, actual
  <2>. QED  BY <1>1, DivergenceIs
<1>. HIDE DEF expected, actual, same, d
<1>7. ASSUME d # NoDivergence
      PROVE  /\ d.sequence \in 1 .. n /\ d.trace_point = "operation_output"
             /\ d.reference = r[d.sequence].result
             /\ d.sequence \in lost => d.kind = "missing_candidate_value"
             /\ d.sequence \notin lost =>
                  /\ d.kind = "value_mismatch" /\ d.candidate = s[d.sequence].result
                  /\ d.reference # d.candidate
  <2>1. PICK k \in 1 .. n :
          /\ expected[k] \notin actual
          /\ d.trace_point = expected[k].point /\ d.sequence = expected[k].sequence
          /\ d.reference = expected[k].held
          /\ same(expected[k]) = {} => d.kind = "missing_candidate_value"
          /\ same(expected[k]) # {} =>
               /\ d.kind = "value_mismatch"
               /\ \E c \in same(expected[k]) : d.candidate = c.held
    BY <1>6, <1>7
  <2>2. d.trace_point = "operation_output" /\ d.sequence = k /\ d.reference = r[k].result
    <3>1. /\ out(r, k).point = "operation_output" /\ out(r, k).sequence = k
          /\ out(r, k).held = r[k].result
      BY EventsDiffer
    <3>. HIDE DEF out
    <3>. QED  BY <1>2, <2>1, <3>1
  <2>3. k \in lost => d.kind = "missing_candidate_value"
    BY <1>2, <1>4, <2>1
  <2>4. ASSUME k \notin lost
        PROVE  /\ d.kind = "value_mismatch" /\ d.candidate = s[k].result
               /\ r[k].result # s[k].result
    <3>1. same(expected[k]) = {out(s, k)}
      BY <1>2, <1>4, <2>4
    <3>2. out(s, k).held = s[k].result
      BY DEF Event
    <3>. HIDE DEF out
    <3>. QED  BY <1>5, <2>1, <2>4, <3>1, <3>2
  <2>. QED  BY <2>2, <2>3, <2>4
<1>. QED  BY <1>7 DEF d, expected, actual

(* The number of outputs that agreed leads to the one that did not.        *)
LEMMA MatchedIsBefore ==
  ASSUME NEW n \in Nat, NEW r \in Seq(Sample), Len(r) = n, NEW actual,
         FirstDivergence(output_trace(r), actual) # NoDivergence
  PROVE  matched_values(output_trace(r), actual) + 1
           = FirstDivergence(output_trace(r), actual).sequence
<1>. DEFINE expected == output_trace(r)
            wrong == {i \in DOMAIN expected : expected[i] \notin actual}
            k == Min(wrong)
<1>1. DOMAIN expected = 1 .. n /\ \A i \in 1 .. n : expected[i].sequence = i
  <2>1. /\ DOMAIN expected = 1 .. n
        /\ \A i \in 1 .. n : expected[i] = Event("operation_output", i, r[i].result)
    <3>1. /\ output_trace(r) \in [1 .. n -> Events] /\ DOMAIN output_trace(r) = 1 .. n
          /\ \A i \in 1 .. n : output_trace(r)[i] = Event("operation_output", i, r[i].result)
      BY OutputsOf
    <3>. QED  BY <3>1
  <2>. HIDE DEF expected
  <2>. QED  BY <2>1 DEF Event
<1>. HIDE DEF expected
<1>2. wrong # {}
  BY DEF FirstDivergence, expected
<1>3. k \in wrong
  <2>1. wrong \in SUBSET Nat
    BY <1>1
  <2>. HIDE DEF wrong
  <2>. QED  BY <1>2, <2>1, LeastIsLeast
<1>4. k \in 1 .. n
  BY <1>1, <1>3
<1>5. FirstDivergence(expected, actual).sequence = expected[k].sequence
  BY <1>2 DEF FirstDivergence
<1>6. matched_values(expected, actual) = k - 1
  BY <1>2 DEF matched_values
<1>. HIDE DEF k
<1>. QED  BY <1>1, <1>4, <1>5, <1>6 DEF expected

-----------------------------------------------------------------------------
(* What the device's stages hold, and what comparing them says.            *)
Device == [i \in DOMAIN workload.accumulators |-> device_sample(i)]

Complete == \A i \in DOMAIN samples : \E e \in transfers : e.sequence = i

Diagnosed ==
  /\ pipeline = IF Complete
                  THEN FirstDivergence(pipeline_trace(reference_arithmetic_samples),
                                       Range(pipeline_trace(samples)))
                  ELSE NoDivergence
  /\ divergence = FirstDivergence(output_trace(reference_arithmetic_samples), transfers)
  /\ rules = << diagnosis(pipeline), diagnosis(divergence) >>

Lost == IF fault.part = "transfer" THEN fault.at ELSE {}

RightAt(i) == Traced(Given(i), Right(i), saturated(Right(i), Channel.relu))

TakenAt(i) == Traced(Taken(i), Computed(i), Stored(i))

LEMMA Integers ==
  ASSUME NEW r \in Requests
  PROVE  /\ r.accumulator \in Int /\ r.bias \in Int /\ r.multiplier \in Int /\ r.shift \in Int
         /\ Biased(r) \in Int
<1>1. /\ Power(ACC_WIDTH - 1) \in Nat /\ Power(MULTIPLIER_WIDTH) \in Nat
      /\ Power(SHIFT_WIDTH) \in Nat
  BY PowersOfWidths, WidthAssumption, PowerAssumption DEF WidthAssumption, PowerAssumption
<1>2. \A b \in Biases : b \in Int
  BY WidthAssumption DEF WidthAssumption
<1>3. r.accumulator \in Int /\ r.bias \in Int /\ r.multiplier \in Int /\ r.shift \in Int
  BY <1>1, <1>2 DEF Requests
<1>. QED  BY <1>3 DEF Biased

LEMMA SamplesAre ==
  ASSUME WorkloadOK, NEW i \in DOMAIN Sums
  PROVE  /\ RightAt(i) \in Sample /\ TakenAt(i) \in Sample
         /\ Held(RightAt(i), "accumulator") = Given(i).accumulator
         /\ Held(TakenAt(i), "accumulator") = Taken(i).accumulator
         /\ Held(RightAt(i), "post_bias") = Biased(Given(i))
         /\ Held(TakenAt(i), "post_bias") = Biased(Taken(i))
         /\ Held(RightAt(i), "post_requantization") = Right(i)
         /\ Held(TakenAt(i), "post_requantization") = Computed(i)
         /\ Held(RightAt(i), "operation_output") = saturated(Right(i), Channel.relu)
         /\ Held(TakenAt(i), "operation_output") = Stored(i)
<1>1. /\ Given(i) \in Requests /\ Taken(i) \in Requests /\ Channel.relu \in BOOLEAN
      /\ Right(i) \in Int /\ Computed(i) \in Int
  BY OperandsTaken, FaultShows
<1>2. saturated(Right(i), Channel.relu) \in Int
  BY <1>1, Saturates
<1>3. Stored(i) \in Int
  <2>1. CASE Wrong("clamp", i)
    <3>1. Power(OUTPUT_WIDTH) \in Nat \ {0} /\ Power(OUTPUT_WIDTH - 1) \in Nat
      BY PowersOfWidths DEF Half
    <3>. QED  BY <1>1, <2>1, <3>1 DEF Stored, Wrapped
  <2>2. CASE ~Wrong("clamp", i)
    <3>. DEFINE relu == Channel.relu /\ ~Wrong("relu", i)
    <3>1. relu \in BOOLEAN
      OBVIOUS
    <3>2. Stored(i) = saturated(Computed(i), relu)
      BY <2>2 DEF Stored
    <3>. HIDE DEF relu
    <3>. QED  BY <1>1, <3>1, <3>2, Saturates
  <2>. QED  BY <2>1, <2>2
<1>4. ASSUME NEW r \in Requests, NEW rounded \in Int, NEW out \in Int
      PROVE  /\ Traced(r, rounded, out) \in Sample
             /\ Held(Traced(r, rounded, out), "accumulator") = r.accumulator
             /\ Held(Traced(r, rounded, out), "post_bias") = Biased(r)
             /\ Held(Traced(r, rounded, out), "post_requantization") = rounded
             /\ Held(Traced(r, rounded, out), "operation_output") = out
  <2>1. /\ r.accumulator \in Int /\ r.bias \in Int /\ r.multiplier \in Int /\ r.shift \in Int
        /\ r.accumulator + r.bias \in Int
    BY Integers
  <2>. QED  BY <2>1 DEF Traced, StageValues, Sample, Held, Biased
<1>. QED  BY <1>1, <1>2, <1>3, <1>4 DEF RightAt, TakenAt

LEMMA Sampled ==
  ASSUME WorkloadOK, samples = Device
  PROVE  \E n \in Nat :
           /\ DOMAIN Sums = 1 .. n /\ DOMAIN samples = 1 .. n
           /\ reference_arithmetic_samples \in Seq(Sample) /\ Len(reference_arithmetic_samples) = n
           /\ samples \in Seq(Sample) /\ Len(samples) = n
           /\ \A i \in 1 .. n : reference_arithmetic_samples[i] = RightAt(i)
           /\ \A i \in 1 .. n : samples[i] = TakenAt(i)
<1>1. Sums \in Seq(Int)
  BY WorkloadAssumption DEF WorkloadAssumption, WorkloadOK, Sums
<1>. DEFINE n == Len(Sums)
<1>2. n \in Nat /\ DOMAIN Sums = 1 .. n
  BY <1>1
<1>. HIDE DEF n
<1>3. \A i \in 1 .. n : reference_arithmetic_samples[i] = RightAt(i) /\ RightAt(i) \in Sample
  BY <1>2, ReferenceTraces, SamplesAre DEF RightAt
<1>4. \A i \in 1 .. n : device_sample(i) = TakenAt(i) /\ TakenAt(i) \in Sample
  BY <1>2, DeviceTraces, SamplesAre DEF TakenAt
<1>5. reference_arithmetic_samples = [i \in 1 .. n |-> reference_arithmetic_samples[i]]
  BY <1>2 DEF reference_arithmetic_samples, Sums
<1>6. samples = [i \in 1 .. n |-> device_sample(i)]
  BY <1>2 DEF Device, Sums
<1>7. reference_arithmetic_samples \in [1 .. n -> Sample]
  BY <1>3, <1>5
<1>8. samples \in [1 .. n -> Sample] /\ \A i \in 1 .. n : samples[i] = TakenAt(i)
  BY <1>4, <1>6
<1>9. /\ reference_arithmetic_samples \in Seq(Sample) /\ Len(reference_arithmetic_samples) = n
      /\ samples \in Seq(Sample) /\ Len(samples) = n /\ DOMAIN samples = 1 .. n
  BY <1>2, <1>7, <1>8
<1>. QED  BY <1>2, <1>3, <1>8, <1>9

LEMMA StagesTell ==
  ASSUME WorkloadOK, samples = Device, Diagnosed, pipeline # NoDivergence
  PROVE  LET i == pipeline.sequence
             point == pipeline.trace_point
         IN  /\ i \in DOMAIN Sums /\ point \in Points /\ pipeline.kind = "value_mismatch"
             /\ pipeline.reference = Held(RightAt(i), point)
             /\ pipeline.candidate = Held(TakenAt(i), point)
             /\ pipeline.reference # pipeline.candidate
             /\ \A q \in Points :
                  Place(q) < Place(point) => Held(RightAt(i), q) = Held(TakenAt(i), q)
             /\ rules[1] = classify(pipeline)
<1>1. PICK n \in Nat :
        /\ DOMAIN Sums = 1 .. n /\ DOMAIN samples = 1 .. n
        /\ reference_arithmetic_samples \in Seq(Sample) /\ Len(reference_arithmetic_samples) = n
        /\ samples \in Seq(Sample) /\ Len(samples) = n
        /\ \A i \in 1 .. n : reference_arithmetic_samples[i] = RightAt(i)
        /\ \A i \in 1 .. n : samples[i] = TakenAt(i)
  BY Sampled
<1>2. pipeline = FirstDivergence(pipeline_trace(reference_arithmetic_samples),
                                 Range(pipeline_trace(samples)))
  BY DEF Diagnosed
<1>3. rules[1] = classify(pipeline)
  BY DEF Diagnosed, diagnosis
<1>. DEFINE r == reference_arithmetic_samples
            differ(i, point) == Held(r[i], point) # Held(samples[i], point)
<1>4. /\ pipeline.sequence \in 1 .. n /\ pipeline.trace_point \in Points
      /\ pipeline.kind = "value_mismatch"
      /\ differ(pipeline.sequence, pipeline.trace_point)
      /\ pipeline.reference = Held(r[pipeline.sequence], pipeline.trace_point)
      /\ pipeline.candidate = Held(samples[pipeline.sequence], pipeline.trace_point)
      /\ \A i \in 1 .. n, point \in Points :
           differ(i, point) =>
             \/ pipeline.sequence < i
             \/ pipeline.sequence = i /\ Place(pipeline.trace_point) <= Place(point)
  <2>. HIDE DEF r
  <2>. QED  BY <1>1, <1>2, StagesCompared DEF r
<1>5. \A point \in Points : Place(point) \in Nat
  BY DEF Place
<1>6. \A q \in Points :
        Place(q) < Place(pipeline.trace_point) => ~differ(pipeline.sequence, q)
  <2>. HIDE DEF differ
  <2>. QED  BY <1>4, <1>5
<1>. QED  BY <1>1, <1>3, <1>4, <1>6

(* Which stages of an output can differ first, and from what fault.        *)
LEMMA FirstStageNamesFault ==
  ASSUME WorkloadOK, NEW i \in DOMAIN Sums, NEW point \in Points,
         Held(RightAt(i), point) # Held(TakenAt(i), point),
         \A q \in Points : Place(q) < Place(point) => Held(RightAt(i), q) = Held(TakenAt(i), q)
  PROVE  /\ point = "accumulator" => Wrong("accumulator", i)
         /\ point = "post_bias" => Wrong("bias", i)
         /\ point = "post_requantization" =>
              \/ Wrong("multiplier", i)
              \/ /\ Wrong("rounding", i)
                 /\ Computed(i) \in Int /\ Right(i) \in {Computed(i) - 1, Computed(i) + 1}
         /\ point = "operation_output" => Wrong("clamp", i) \/ Wrong("relu", i)
<1>1. /\ Held(RightAt(i), "accumulator") = Given(i).accumulator
      /\ Held(TakenAt(i), "accumulator") = Taken(i).accumulator
      /\ Held(RightAt(i), "post_bias") = Biased(Given(i))
      /\ Held(TakenAt(i), "post_bias") = Biased(Taken(i))
      /\ Held(RightAt(i), "post_requantization") = Right(i)
      /\ Held(TakenAt(i), "post_requantization") = Computed(i)
      /\ Held(RightAt(i), "operation_output") = saturated(Right(i), Channel.relu)
      /\ Held(TakenAt(i), "operation_output") = Stored(i)
  BY SamplesAre
<1>2. /\ Right(i) \in Int /\ Computed(i) \in Int
      /\ Wrong("accumulator", i) <=> Taken(i).accumulator # Given(i).accumulator
      /\ ~Wrong("accumulator", i) /\ ~Wrong("bias", i) /\ ~Wrong("multiplier", i) =>
           Taken(i) = Given(i)
      /\ Wrong("bias", i) /\ Biased(Taken(i)) = Biased(Given(i)) => Taken(i) = Given(i)
      /\ Wrong("multiplier", i) => Biased(Taken(i)) = Biased(Given(i))
      /\ Taken(i) = Given(i) /\ ~Wrong("rounding", i) => Computed(i) = Right(i)
      /\ Taken(i) = Given(i) /\ Wrong("rounding", i) =>
           \/ 0 <= Computed(i) /\ Right(i) \in {Computed(i), Computed(i) + 1}
           \/ Computed(i) <= 0 /\ Right(i) \in {Computed(i), Computed(i) - 1}
  BY FaultShows
<1>3. /\ Place("accumulator") = 1 /\ Place("post_bias") = 2
      /\ Place("post_requantization") = 3 /\ Place("operation_output") = 4
      /\ {"accumulator", "post_bias", "post_requantization", "operation_output"} = Points
  BY DEF Place, Points
<1>4. Wrong("bias", i) => ~Wrong("rounding", i) /\ ~Wrong("multiplier", i)
  BY DEF Wrong
<1>5. CASE point = "accumulator"
  BY <1>1, <1>2, <1>5
<1>6. CASE point = "post_bias"
  <2>1. Taken(i).accumulator = Given(i).accumulator
    BY <1>1, <1>3, <1>6
  <2>2. Biased(Taken(i)) # Biased(Given(i))
    BY <1>1, <1>6
  <2>. QED  BY <1>2, <1>6, <2>1, <2>2
<1>7. CASE point = "post_requantization"
  <2>1. Taken(i).accumulator = Given(i).accumulator /\ Biased(Taken(i)) = Biased(Given(i))
    BY <1>1, <1>3, <1>7
  <2>2. Computed(i) # Right(i)
    BY <1>1, <1>7
  <2>3. ~Wrong("multiplier", i) => Taken(i) = Given(i)
    BY <1>2, <2>1
  <2>4. ~Wrong("multiplier", i) => Wrong("rounding", i)
    BY <1>2, <2>2, <2>3
  <2>5. ~Wrong("multiplier", i) => Right(i) \in {Computed(i) - 1, Computed(i) + 1}
    BY <1>2, <2>2, <2>3, <2>4
  <2>. QED  BY <1>2, <1>7, <2>4, <2>5
<1>8. CASE point = "operation_output"
  <2>1. Computed(i) = Right(i)
    BY <1>1, <1>3, <1>8
  <2>2. saturated(Right(i), Channel.relu) # Stored(i)
    BY <1>1, <1>8
  <2>3. ~Wrong("clamp", i) /\ ~Wrong("relu", i) => Stored(i) = saturated(Computed(i), Channel.relu)
    BY OperandsTaken DEF Stored, saturated
  <2>. QED  BY <1>8, <2>1, <2>2, <2>3
<1>. QED  BY <1>3, <1>5, <1>6, <1>7, <1>8

LEMMA Classified ==
  ASSUME NEW d, d.kind = "value_mismatch"
  PROVE  /\ d.trace_point = "accumulator" => classify(d) = "accumulation_arithmetic_mismatch"
         /\ d.trace_point = "post_bias" => classify(d) = "bias_application_mismatch"
         /\ d.trace_point = "post_requantization" /\ Abs(d.candidate - d.reference) = 1 =>
              IF AtLimit(d.reference) # AtLimit(d.candidate)
                THEN classify(d) = "saturation_boundary_mismatch"
                ELSE classify(d) = "requantization_rounding_mismatch"
BY DEF classify

LEMMA StagesNameFault ==
  ASSUME WorkloadOK, samples = Device, Diagnosed, pipeline # NoDivergence
  PROVE  /\ pipeline.trace_point = ShowsAt(fault.part) /\ pipeline.sequence \in fault.at
         /\ RuleNames(fault.part, pipeline, rules[1])
<1>. DEFINE i == pipeline.sequence
            point == pipeline.trace_point
<1>1. /\ i \in DOMAIN Sums /\ point \in Points /\ pipeline.kind = "value_mismatch"
      /\ pipeline.reference = Held(RightAt(i), point)
      /\ pipeline.candidate = Held(TakenAt(i), point)
      /\ pipeline.reference # pipeline.candidate
      /\ \A q \in Points :
           Place(q) < Place(point) => Held(RightAt(i), q) = Held(TakenAt(i), q)
      /\ rules[1] = classify(pipeline)
  BY StagesTell
<1>2. /\ point = "accumulator" => Wrong("accumulator", i)
      /\ point = "post_bias" => Wrong("bias", i)
      /\ point = "post_requantization" =>
           \/ Wrong("multiplier", i)
           \/ /\ Wrong("rounding", i)
              /\ Computed(i) \in Int /\ Right(i) \in {Computed(i) - 1, Computed(i) + 1}
      /\ point = "operation_output" => Wrong("clamp", i) \/ Wrong("relu", i)
  BY <1>1, FirstStageNamesFault
<1>3. point \in {"accumulator", "post_bias", "post_requantization", "operation_output"}
  BY <1>1 DEF Points
<1>4. CASE point = "accumulator"
  <2>1. fault.part = "accumulator" /\ i \in fault.at
    BY <1>2, <1>4 DEF Wrong
  <2>2. rules[1] = "accumulation_arithmetic_mismatch"
    BY <1>1, <1>4, Classified
  <2>. QED  BY <1>4, <2>1, <2>2 DEF ShowsAt, RuleNames
<1>5. CASE point = "post_bias"
  <2>1. fault.part = "bias" /\ i \in fault.at
    BY <1>2, <1>5 DEF Wrong
  <2>2. rules[1] = "bias_application_mismatch"
    BY <1>1, <1>5, Classified
  <2>. QED  BY <1>5, <2>1, <2>2 DEF ShowsAt, RuleNames
<1>6. CASE point = "post_requantization"
  <2>1. CASE Wrong("multiplier", i)
    BY <1>6, <2>1 DEF ShowsAt, RuleNames, Wrong
  <2>2. CASE Wrong("rounding", i) /\ Computed(i) \in Int
             /\ Right(i) \in {Computed(i) - 1, Computed(i) + 1}
    <3>1. pipeline.reference = Right(i) /\ pipeline.candidate = Computed(i)
      BY <1>1, <1>6, SamplesAre
    <3>2. Abs(pipeline.candidate - pipeline.reference) = 1
      BY <2>2, <3>1 DEF Abs
    <3>3. fault.part = "rounding" /\ i \in fault.at
      BY <2>2 DEF Wrong
    <3>4. IF AtLimit(pipeline.reference) # AtLimit(pipeline.candidate)
            THEN rules[1] = "saturation_boundary_mismatch"
            ELSE rules[1] = "requantization_rounding_mismatch"
      BY <1>1, <1>6, <3>2, Classified
    <3>. QED  BY <1>6, <3>3, <3>4 DEF ShowsAt, RuleNames
  <2>. QED  BY <1>2, <1>6, <2>1, <2>2
<1>7. CASE point = "operation_output"
  BY <1>2, <1>7 DEF ShowsAt, RuleNames, Wrong
<1>. QED  BY <1>3, <1>4, <1>5, <1>6, <1>7

LEMMA OutputsTell ==
  ASSUME WorkloadOK, samples = Device, Diagnosed, divergence # NoDivergence
  PROVE  LET i == divergence.sequence
         IN  /\ i \in DOMAIN Sums
             /\ divergence.reference = saturated(Right(i), Channel.relu)
             /\ i \in Lost => divergence.kind = "missing_candidate_value"
             /\ i \notin Lost => Stored(i) # saturated(Right(i), Channel.relu)
             /\ rules[2] = classify(divergence)
<1>1. PICK n \in Nat :
        /\ DOMAIN Sums = 1 .. n /\ DOMAIN samples = 1 .. n
        /\ reference_arithmetic_samples \in Seq(Sample) /\ Len(reference_arithmetic_samples) = n
        /\ samples \in Seq(Sample) /\ Len(samples) = n
        /\ \A i \in 1 .. n : reference_arithmetic_samples[i] = RightAt(i)
        /\ \A i \in 1 .. n : samples[i] = TakenAt(i)
  BY Sampled
<1>2. Lost \in SUBSET (1 .. n)
  BY <1>1 DEF WorkloadOK, Lost, Sums, NoFault
<1>3. transfers = {e \in Range(output_trace(samples)) : e.sequence \notin Lost}
  BY DEF transfers, Lost
<1>4. divergence = FirstDivergence(output_trace(reference_arithmetic_samples),
                                   {e \in Range(output_trace(samples)) : e.sequence \notin Lost})
  BY <1>3 DEF Diagnosed
<1>5. rules[2] = classify(divergence)
  BY DEF Diagnosed, diagnosis
<1>. DEFINE r == reference_arithmetic_samples
            i == divergence.sequence
<1>6. /\ i \in 1 .. n
      /\ divergence.reference = r[i].result
      /\ i \in Lost => divergence.kind = "missing_candidate_value"
      /\ i \notin Lost =>
           /\ divergence.candidate = samples[i].result
           /\ divergence.reference # divergence.candidate
  <2>. HIDE DEF r
  <2>. QED  BY <1>1, <1>2, <1>4, OutputsCompared DEF r
<1>7. r[i].result = saturated(Right(i), Channel.relu) /\ samples[i].result = Stored(i)
  BY <1>1, <1>6 DEF RightAt, TakenAt, Traced, StageValues
<1>. QED  BY <1>1, <1>5, <1>6, <1>7

LEMMA LossIsNoNumber ==
  ASSUME WorkloadOK, samples = Device, Diagnosed, divergence # NoDivergence,
         fault.part = "transfer"
  PROVE  rules[2] = "insufficient_numerical_evidence"
<1>. DEFINE i == divergence.sequence
<1>1. /\ i \in DOMAIN Sums
      /\ i \in Lost => divergence.kind = "missing_candidate_value"
      /\ i \notin Lost => Stored(i) # saturated(Right(i), Channel.relu)
      /\ rules[2] = classify(divergence)
  BY OutputsTell
<1>2. Stored(i) = saturated(Right(i), Channel.relu)
  <2>1. Taken(i) = Given(i) /\ Computed(i) = Right(i)
    BY <1>1, FaultShows DEF Wrong
  <2>. QED  BY <1>1, <2>1, OperandsTaken DEF Stored, Wrong, saturated
<1>3. divergence.kind = "missing_candidate_value"
  BY <1>1, <1>2
<1>. QED  BY <1>1, <1>3 DEF classify

(* A wrong output is a stage of the output that differs. *)
LEMMA StagesDifferFirst ==
  ASSUME WorkloadOK, samples = Device, Diagnosed, divergence # NoDivergence,
         fault.part # "transfer"
  PROVE  pipeline # NoDivergence /\ pipeline.sequence <= divergence.sequence
<1>1. PICK n \in Nat :
        /\ DOMAIN Sums = 1 .. n /\ DOMAIN samples = 1 .. n
        /\ reference_arithmetic_samples \in Seq(Sample) /\ Len(reference_arithmetic_samples) = n
        /\ samples \in Seq(Sample) /\ Len(samples) = n
        /\ \A i \in 1 .. n : reference_arithmetic_samples[i] = RightAt(i)
        /\ \A i \in 1 .. n : samples[i] = TakenAt(i)
  BY Sampled
<1>. DEFINE i == divergence.sequence
            r == reference_arithmetic_samples
            d == FirstDivergence(pipeline_trace(r), Range(pipeline_trace(samples)))
            differ(j, point) == Held(r[j], point) # Held(samples[j], point)
<1>2. i \in 1 .. n /\ Stored(i) # saturated(Right(i), Channel.relu)
  BY <1>1, OutputsTell DEF Lost
<1>3. differ(i, "operation_output") /\ "operation_output" \in Points
  BY <1>1, <1>2, SamplesAre DEF Points
<1>4. Complete
  <2>1. DOMAIN output_trace(samples) = 1 .. n
        /\ \A j \in 1 .. n : output_trace(samples)[j]
                               = Event("operation_output", j, samples[j].result)
    BY <1>1, OutputsOf
  <2>2. \A j \in 1 .. n : output_trace(samples)[j] \in transfers
    BY <2>1 DEF transfers, Range
  <2>3. \A j \in 1 .. n : output_trace(samples)[j].sequence = j
    BY <2>1, EventsDiffer
  <2>. QED  BY <1>1, <2>2, <2>3 DEF Complete
<1>5. pipeline = d
  BY <1>4 DEF Diagnosed
<1>6. /\ \A j \in 1 .. n, point \in Points : differ(j, point) => d # NoDivergence
      /\ d # NoDivergence =>
           /\ d.sequence \in 1 .. n
           /\ \A j \in 1 .. n, point \in Points :
                differ(j, point) =>
                  \/ d.sequence < j
                  \/ d.sequence = j /\ Place(d.trace_point) <= Place(point)
  <2>. HIDE DEF r
  <2>. QED  BY <1>1, StagesCompared DEF r
<1>. HIDE DEF d, differ
<1>. QED  BY <1>2, <1>3, <1>5, <1>6

LEMMA NamedWhenDiagnosed ==
  ASSUME WorkloadOK, samples = Device, Diagnosed
  PROVE  FaultyStageNamed
BY StagesNameFault, LossIsNoNumber, StagesDifferFirst DEF FaultyStageNamed

-----------------------------------------------------------------------------
(* What the demo goes on with, and the test it then generates.             *)
Confirmed ==
  /\ pipeline # NoDivergence /\ pipeline.trace_point = "post_requantization"
  /\ rules[2] = "requantization_rounding_mismatch"

Matched == matched_values(output_trace(reference_arithmetic_samples), transfers)

CaseMade == Confirmed /\ case = evidence(Matched)

LEMMA CaseTells ==
  ASSUME WorkloadOK, samples = Device, Diagnosed, CaseMade
  PROVE  IF fault.part = "rounding" THEN ~run_case(TRUE) /\ run_case(FALSE)
         ELSE ~run_case(FALSE)
<1>. DEFINE i == divergence.sequence
            at == pipeline.sequence
<1>1. Wrong("multiplier", at) \/ Wrong("rounding", at)
  BY StagesTell, FirstStageNamesFault DEF CaseMade, Confirmed
<1>2. fault.part \in {"multiplier", "rounding"}
  BY <1>1 DEF Wrong
<1>3. divergence # NoDivergence
  BY DEF CaseMade, Confirmed, Diagnosed, diagnosis
<1>4. /\ i \in DOMAIN Sums
      /\ divergence.reference = saturated(Right(i), Channel.relu)
      /\ Stored(i) # saturated(Right(i), Channel.relu)
  BY <1>2, <1>3, OutputsTell DEF Lost
<1>5. samples[i] = TakenAt(i)
  BY <1>4, Sampled
<1>m. Matched + 1 = i
  <2>1. PICK n \in Nat :
          /\ reference_arithmetic_samples \in Seq(Sample)
          /\ Len(reference_arithmetic_samples) = n
    BY Sampled
  <2>. QED  BY <1>3, <2>1, MatchedIsBefore DEF Matched, Diagnosed
<1>6. case = CaseOf(i)
  <2>1. case = evidence(Matched)
    BY DEF CaseMade
  <2>. QED  BY <1>4, <1>5, <1>m, <2>1
            DEF evidence, CaseOf, TakenAt, Traced, StageValues
<1>7. ~Wrong("clamp", i) /\ ~Wrong("relu", i)
  BY <1>2 DEF Wrong
<1>8. /\ Wrong("rounding", i) => ~run_case(TRUE) /\ run_case(FALSE)
      /\ ~Wrong("rounding", i) => ~run_case(FALSE)
  BY <1>4, <1>6, <1>7, TestTells
<1>9. fault.part = "rounding" => Wrong("rounding", i)
  <2>. SUFFICES ASSUME fault.part = "rounding", ~Wrong("rounding", i)
                PROVE  FALSE
    OBVIOUS
  <2>1. Taken(i) = Given(i) /\ Computed(i) = Right(i)
    BY <1>4, FaultShows DEF Wrong
  <2>2. Stored(i) = saturated(Right(i), Channel.relu)
    BY <1>4, <1>7, <2>1, OperandsTaken DEF Stored, saturated
  <2>. QED  BY <1>4, <2>2
<1>10. Wrong("rounding", i) => fault.part = "rounding"
  BY DEF Wrong
<1>. QED  BY <1>8, <1>9, <1>10
-----------------------------------------------------------------------------
(* The inductive invariant: what the demo knows at each of its steps.      *)
Prepared == step # "begin" => WorkloadOK

Measured == step \notin {"begin", "run"} => samples = Device

Judged == step \notin {"begin", "run", "compare"} => Diagnosed

Waiting == step \in {"begin", "run", "compare", "generate"} => case = NoCase

Going ==
  /\ step = "generate" => Confirmed
  /\ step \in {"faulty", "corrected", "done"} => CaseMade

Tested ==
  /\ step = "corrected" => (passed[1] <=> run_case(TRUE))
  /\ step = "done" => run_case(FALSE)
  /\ step = "failed" =>
       case = NoCase \/ (CaseMade /\ (run_case(TRUE) \/ ~run_case(FALSE)))

DemoInv == Prepared /\ Measured /\ Judged /\ Waiting /\ Going /\ Tested

LEMMA DemoInitInv == DemoInit => DemoInv
BY DEF DemoInit, DemoInv, Prepared, Measured, Judged, Waiting, Going, Tested

LEMMA DemoNextInv == DemoInv /\ [DemoNext]_demoVars => DemoInv'
<1>. SUFFICES ASSUME DemoInv, [DemoNext]_demoVars
              PROVE  DemoInv'
  OBVIOUS
<1>. USE DEF DemoInv, Prepared, Measured, Judged, Waiting, Going, Tested
<1>k. ASSUME UNCHANGED << workload, fault >>, WorkloadOK
      PROVE  WorkloadOK'
  BY <1>k DEF WorkloadOK
<1>s. ASSUME UNCHANGED << workload, fault, samples >>, samples = Device
      PROVE  (samples = Device)'
  BY <1>s DEF Device, device_sample
<1>d. ASSUME UNCHANGED << workload, fault, samples, pipeline, divergence, rules >>, Diagnosed
      PROVE  Diagnosed'
  <2>1. /\ reference_arithmetic_samples' = reference_arithmetic_samples
        /\ transfers' = transfers
    BY <1>d DEF reference_arithmetic_samples, transfers
  <2>2. Complete' = Complete
    BY <1>d, <2>1 DEF Complete
  <2>. QED  BY <1>d, <2>1, <2>2 DEF Diagnosed
<1>m. ASSUME UNCHANGED << workload, fault, samples >>
      PROVE  Matched' = Matched
  <2>1. /\ reference_arithmetic_samples' = reference_arithmetic_samples
        /\ transfers' = transfers
    BY <1>m DEF reference_arithmetic_samples, transfers
  <2>. QED  BY <2>1 DEF Matched
<1>c. ASSUME UNCHANGED << workload, fault, samples, pipeline, divergence, rules, case >>, CaseMade
      PROVE  CaseMade'
  <2>1. Matched' = Matched
    BY <1>c, <1>m
  <2>2. evidence(Matched)' = evidence(Matched)
    BY <1>c, <2>1 DEF evidence
  <2>. QED  BY <1>c, <2>2 DEF CaseMade, Confirmed
<1>r. ASSUME UNCHANGED case
      PROVE  (run_case(TRUE) <=> run_case(TRUE)') /\ (run_case(FALSE) <=> run_case(FALSE)')
  BY <1>r DEF run_case
<1>1. CASE StartAgain
  BY <1>1 DEF StartAgain
<1>2. CASE GenerateWorkload
  <2>1. step = "begin" /\ step' = "run" /\ case' = case
    BY <1>2 DEF GenerateWorkload
  <2>2. WorkloadOK'
    BY <1>2 DEF GenerateWorkload, WorkloadOK
  <2>. QED  BY <2>1, <2>2
<1>3. CASE RunDevice
  <2>1. /\ step = "run" /\ step' = "compare" /\ case' = case
        /\ UNCHANGED << workload, fault >>
    BY <1>3 DEF RunDevice
  <2>2. samples' = Device'
    BY <1>3 DEF RunDevice, Device, device_sample
  <2>. QED  BY <1>k, <2>1, <2>2
<1>4. CASE Diagnose
  <2>1. /\ step = "compare" /\ step' \in {"generate", "failed"}
        /\ step' = "generate" => Confirmed'
        /\ UNCHANGED << workload, fault, samples, case >>
    BY <1>4 DEF Diagnose, Confirmed
  <2>2. /\ reference_arithmetic_samples' = reference_arithmetic_samples
        /\ transfers' = transfers
    BY <2>1 DEF reference_arithmetic_samples, transfers
  <2>3. Complete' = Complete
    BY <2>1, <2>2 DEF Complete
  <2>4. Diagnosed'
    BY <1>4, <2>1, <2>2, <2>3 DEF Diagnose, Diagnosed, Complete
  <2>. QED  BY <1>k, <1>s, <2>1, <2>4
<1>5. CASE Generate
  <2>1. /\ step = "generate" /\ step' = "faulty"
        /\ UNCHANGED << workload, fault, samples, pipeline, divergence, rules >>
        /\ case' = evidence(Matched)
    BY <1>5 DEF Generate, Matched
  <2>2. CaseMade'
    <3>1. Matched' = Matched
      BY <1>m, <2>1
    <3>2. evidence(Matched)' = evidence(Matched)
      BY <2>1, <3>1 DEF evidence
    <3>. QED  BY <2>1, <3>2 DEF CaseMade, Confirmed
  <2>. QED  BY <1>k, <1>s, <1>d, <2>1, <2>2
<1>6. CASE RunFaulty
  <2>1. /\ step = "faulty" /\ step' = "corrected"
        /\ UNCHANGED << workload, fault, samples, pipeline, divergence, rules, case >>
        /\ passed' = << run_case(TRUE), passed[2] >>
    BY <1>6 DEF RunFaulty
  <2>2. passed'[1] <=> run_case(TRUE)
    BY <2>1
  <2>. QED  BY <1>k, <1>s, <1>d, <1>c, <1>r, <2>1, <2>2
<1>7. CASE RunCorrected
  <2>1. /\ step = "corrected" /\ step' \in {"done", "failed"}
        /\ UNCHANGED << workload, fault, samples, pipeline, divergence, rules, case >>
        /\ passed' = << passed[1], run_case(FALSE) >>
        /\ step' = IF passed'[1] \/ ~passed'[2] THEN "failed" ELSE "done"
    BY <1>7 DEF RunCorrected
  <2>2. (passed'[1] <=> passed[1]) /\ (passed'[2] <=> run_case(FALSE))
    BY <2>1
  <2>3. step' = "done" => run_case(FALSE)
    BY <2>1, <2>2
  <2>4. step' = "failed" => run_case(TRUE) \/ ~run_case(FALSE)
    BY <2>1, <2>2
  <2>. QED  BY <1>k, <1>s, <1>d, <1>c, <1>r, <2>1, <2>3, <2>4
<1>8. CASE UNCHANGED demoVars
  <2>1. /\ UNCHANGED << workload, fault, step, samples, pipeline, divergence, rules, case >>
        /\ passed' = passed
    BY <1>8 DEF demoVars
  <2>. QED  BY <1>k, <1>s, <1>d, <1>c, <1>r, <2>1 DEF Confirmed
<1>. QED  BY <1>1, <1>2, <1>3, <1>4, <1>5, <1>6, <1>7, <1>8 DEF DemoNext

(* At every step the demo holds what its code has computed from the        *)
(* workload and the fault.                                                 *)
THEOREM DemoInvariant == DemoSpec => []DemoInv
  BY DemoInitInv, DemoNextInv, PTL DEF DemoSpec

(* For all workloads, channels, faults and widths the stage traces first   *)
(* differ at the trace point of the faulty stage, at an output where it    *)
(* shows; a wrong sum, bias or rounding is named by its own rule; and a    *)
(* lost transfer is not taken for numbers.                                 *)
THEOREM FaultsAreNamed == DemoSpec => []FaultyStageNamed
<1>1. DemoInv => FaultyStageNamed
  BY NamedWhenDiagnosed
     DEF DemoInv, Prepared, Measured, Judged, FaultyStageNamed
<1>. QED  BY <1>1, DemoInvariant, PTL

(* And the demo ends with a confirmed regression only if the device        *)
(* truncated, and then never in an error once it has a test.               *)
THEOREM RegressionsSeparate == DemoSpec => []RegressionSeparates
<1>1. DemoInv => RegressionSeparates
  BY CaseTells
     DEF DemoInv, Prepared, Measured, Judged, Going, Tested, RegressionSeparates
<1>. QED  BY <1>1, DemoInvariant, PTL
=============================================================================
