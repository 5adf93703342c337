-------------------------- MODULE NumericalDiagnosis --------------------------
(***************************************************************************)
(* From wrong numbers to a regression: the numerical scenario of           *)
(* scripts/run_demo.py with trace/diagnosis.py and the arithmetic          *)
(* generator of regression.py.  A device computes one convolution whose    *)
(* samples are traced stage by stage; its traces are compared with the     *)
(* reference's, the first divergences are classified, and the sampled      *)
(* operands of the first wrong output become a test that is run on the     *)
(* faulty and on the corrected post-processing unit.                       *)
(*                                                                         *)
(* The convolution's sums are taken as they come; a device has at most one *)
(* faulty stage, which shows at some of the outputs.  Its healthy stages   *)
(* compute what Requantization says they do.                               *)
(***************************************************************************)
EXTENDS Requantization, Sequences, SequencesExt

CONSTANTS
  Accumulators, \* the sums of a workload, in the order of its outputs
  Channels,     \* bias, multiplier, shift and relu of its channel
  NoDivergence

(* A sum, right or off by one, and what the bias makes of it fit their     *)
(* words; so does a multiplier.                                            *)
ASSUME WorkloadAssumption ==
  /\ Channels \subseteq [bias : Biases, multiplier : 0 .. Power(MULTIPLIER_WIDTH) - 2,
                         shift : 0 .. Power(SHIFT_WIDTH) - 1, relu : BOOLEAN]
  /\ \A sums \in Accumulators :
       /\ sums \in Seq(Int)
       /\ \A i \in DOMAIN sums, b \in {0} \cup {c.bias : c \in Channels} :
            InRange(sums[i] + b, ACC_WIDTH) /\ InRange(sums[i] + 1 + b, ACC_WIDTH)

ASSUME NoDivergenceAssumption ==
  NoDivergence \notin
    [kind        : {"missing_candidate_value", "value_mismatch"},
     trace_point : {"accumulator", "post_bias", "post_requantization", "operation_output"},
     sequence    : Nat, reference : Int, candidate : Int]

Parts == {"accumulator", "bias", "multiplier", "rounding", "clamp", "relu", "transfer"}

VARIABLES
  workload,     \* the sums and the channel
  fault,        \* the faulty stage of the device and the outputs it shows at
  step,         \* the step of the demo, "failed" when it raised
  samples,      \* arithmetic_samples: what the device's stages held
  pipeline,     \* first divergence of the stage traces
  divergence,   \* first divergence of the output traces
  rules,        \* rule_id of the diagnosis of each
  case,         \* the operands and the result the generated test holds
  passed        \* what its runs on the faulty and on the corrected unit returned

demoVars ==
  << workload, fault, step, samples, pipeline, divergence, rules, case, passed >>

NoCase == [accumulator |-> 0, bias |-> 0, multiplier |-> 0, shift |-> 0, software_result |-> 0]

NoWorkload == [accumulators |-> << >>, channel |-> NoRequest]
NoFault == [part |-> "none", at |-> {}]

DemoInit ==
  /\ step = "begin" /\ workload = NoWorkload /\ fault = NoFault /\ samples = << >>
  /\ pipeline = NoDivergence /\ divergence = NoDivergence
  /\ rules = << "none", "none" >> /\ case = NoCase /\ passed = << FALSE, FALSE >>

(* Step 1: the vectors; and the device the demo is going to build.         *)
GenerateWorkload ==
  /\ step = "begin"
  /\ workload' \in [accumulators : Accumulators, channel : Channels]
  /\ fault' \in {NoFault} \cup
                [part : Parts, at : (SUBSET DOMAIN workload'.accumulators) \ {{}}]
  /\ step' = "run"
  /\ UNCHANGED << samples, pipeline, divergence, rules, case, passed >>
-----------------------------------------------------------------------------
(* What every stage holds for one output. *)
StageValues(sum, bias, multiplier, shift, rounded, result) ==
  [accumulator |-> sum, bias |-> bias, post_bias |-> sum + bias, multiplier |-> multiplier,
   shift |-> shift, rounded |-> rounded, result |-> result]

saturated(rounded, relu) == IF relu /\ rounded < 0 THEN 0 ELSE saturate_int8(rounded)

reference_arithmetic_samples ==
  LET c == workload.channel
      sample(sum) ==
        LET rounded == round_shift_right((sum + c.bias) * c.multiplier, c.shift)
        IN  StageValues(sum, c.bias, c.multiplier, c.shift, rounded, saturated(rounded, c.relu))
  IN  [i \in DOMAIN workload.accumulators |-> sample(workload.accumulators[i])]

(* The unit's own arithmetic, with and without its faults. *)
unit_rounded(product, shift, faulty) ==
  LET magnitude == IF faulty THEN truncated_magnitude(Abs(product), shift)
                             ELSE rounded_magnitude(Abs(product), shift)
  IN  IF product < 0 THEN -magnitude ELSE magnitude

device_sample(i) ==
  LET wrong(part) == fault.part = part /\ i \in fault.at
      c          == workload.channel
      sum        == workload.accumulators[i] + IF wrong("accumulator") THEN 1 ELSE 0
      bias       == IF wrong("bias") THEN 0 ELSE c.bias
      multiplier == c.multiplier + IF wrong("multiplier") THEN 1 ELSE 0
      rounded    == unit_rounded((sum + bias) * multiplier, c.shift, wrong("rounding"))
      result     == IF wrong("clamp") THEN Wrapped(rounded, OUTPUT_WIDTH)
                    ELSE saturated(rounded, c.relu /\ ~wrong("relu"))
  IN  StageValues(sum, bias, multiplier, c.shift, rounded, result)

(* Steps 2 and 3: the device runs and its stages are sampled. *)
RunDevice ==
  /\ step = "run"
  /\ samples' = [i \in DOMAIN workload.accumulators |-> device_sample(i)]
  /\ step' = "compare"
  /\ UNCHANGED << workload, fault, pipeline, divergence, rules, case, passed >>
-----------------------------------------------------------------------------
Event(point, i, x) == [point |-> point, sequence |-> i, held |-> x]

stage_events(s, i) ==
  << Event("accumulator", i, s.accumulator), Event("post_bias", i, s.post_bias),
     Event("post_requantization", i, s.rounded), Event("operation_output", i, s.result) >>

(* The stages of the outputs behind each other. *)
pipeline_trace(of) ==
  [k \in 1 .. 4 * Len(of) |-> LET i == (k + 3) \div 4 IN stage_events(of[i], i)[k + 4 - 4 * i]]

output_trace(of) == [i \in DOMAIN of |-> Event("operation_output", i, of[i].result)]

(* What was transferred: dropped outputs are in no log. *)
transfers ==
  {e \in Range(output_trace(samples)) : ~(fault.part = "transfer" /\ e.sequence \in fault.at)}

(* compare_trace_files on scalars: the first of the expected events that   *)
(* the other trace lacks or has another value for, and how many agreed     *)
(* before it.                                                              *)
matched_values(expected, actual) ==
  LET wrong == {i \in DOMAIN expected : expected[i] \notin actual}
  IN  IF wrong = {} THEN Len(expected) ELSE Min(wrong) - 1

FirstDivergence(expected, actual) ==
  LET wrong    == {i \in DOMAIN expected : expected[i] \notin actual}
      e        == expected[Min(wrong)]
      same_key == {c \in actual : c.point = e.point /\ c.sequence = e.sequence}
  IN  IF wrong = {} THEN NoDivergence
      ELSE [kind |-> IF same_key = {} THEN "missing_candidate_value" ELSE "value_mismatch",
            trace_point |-> e.point, sequence |-> e.sequence, reference |-> e.held,
            candidate |-> IF same_key = {} THEN e.held ELSE (CHOOSE c \in same_key : TRUE).held]

AtLimit(x) == x \in {-Top - 1, Top}

(* Faulty variant: the rules for a pair of numbers in front of those for   *)
(* the place they were found at.                                           *)
classify_numbers_first(d) ==
  IF d.kind # "value_mismatch" THEN "insufficient_numerical_evidence"
  ELSE IF AtLimit(d.reference) # AtLimit(d.candidate) THEN "saturation_boundary_mismatch"
  ELSE IF Abs(d.candidate - d.reference) = 1 THEN "requantization_rounding_mismatch"
  ELSE IF d.trace_point = "accumulator" THEN "accumulation_arithmetic_mismatch"
  ELSE IF d.trace_point = "post_bias" THEN "bias_application_mismatch"
  ELSE IF d.trace_point = "post_requantization" THEN "requantization_parameter_mismatch"
  ELSE "output_numerical_mismatch"

classify(d) ==
  IF d.kind # "value_mismatch" THEN "insufficient_numerical_evidence"
  ELSE IF d.trace_point = "accumulator" THEN "accumulation_arithmetic_mismatch"
  ELSE IF d.trace_point = "post_bias" THEN "bias_application_mismatch"
  ELSE IF AtLimit(d.reference) # AtLimit(d.candidate) THEN "saturation_boundary_mismatch"
  ELSE IF Abs(d.candidate - d.reference) = 1 THEN "requantization_rounding_mismatch"
  ELSE IF d.trace_point = "post_requantization" THEN "requantization_parameter_mismatch"
  ELSE "output_numerical_mismatch"

diagnosis(d) == IF d = NoDivergence THEN "none" ELSE classify(d)

(* The rest of step 3, and step 4.  Stage traces look up every transfer.   *)
(* Both comparisons are diagnosed, as trace diagnose does it; the demo     *)
(* goes on if the stage traces differ first behind the rounding and the    *)
(* outputs look like a rounding fault.                                     *)
Diagnose ==
  /\ step = "compare"
  /\ pipeline' =
       IF \A i \in DOMAIN samples : \E e \in transfers : e.sequence = i
         THEN FirstDivergence(pipeline_trace(reference_arithmetic_samples),
                              Range(pipeline_trace(samples)))
         ELSE NoDivergence
  /\ divergence' = FirstDivergence(output_trace(reference_arithmetic_samples), transfers)
  /\ rules' = << diagnosis(pipeline'), diagnosis(divergence') >>
  /\ step' = IF /\ pipeline' # NoDivergence /\ pipeline'.trace_point = "post_requantization"
                /\ rules'[2] = "requantization_rounding_mismatch"
             THEN "generate" ELSE "failed"
  /\ UNCHANGED << workload, fault, samples, case, passed >>

(* Faulty variant: the operands of the first output whose stages differ.   *)
evidence_of_stages(matched) ==
  LET s == samples[pipeline.sequence]
  IN  [accumulator |-> s.accumulator, bias |-> s.bias, multiplier |-> s.multiplier,
       shift |-> s.shift, software_result |-> divergence.reference]

(* arithmetic_evidence: the sample whose sequence number, counted from     *)
(* zero, is the number of outputs that agreed.                             *)
evidence(matched) ==
  LET s == samples[matched + 1]
  IN  [accumulator |-> s.accumulator, bias |-> s.bias, multiplier |-> s.multiplier,
       shift |-> s.shift, software_result |-> divergence.reference]

Generate ==
  /\ step = "generate"
  /\ case' = evidence(matched_values(output_trace(reference_arithmetic_samples), transfers))
  /\ step' = "faulty"
  /\ UNCHANGED << workload, fault, samples, pipeline, divergence, rules, passed >>

(* run_case of the generated test: its vector never asks for the ReLU.     *)
run_case(faulty) ==
  LET product == (case.accumulator + case.bias) * case.multiplier
  IN  saturated(unit_rounded(product, case.shift, faulty), FALSE) = case.software_result

RunFaulty ==
  /\ step = "faulty"
  /\ passed' = << run_case(TRUE), passed[2] >>
  /\ step' = "corrected"
  /\ UNCHANGED << workload, fault, samples, pipeline, divergence, rules, case >>

RunCorrected ==
  /\ step = "corrected"
  /\ passed' = << passed[1], run_case(FALSE) >>
  /\ step' = IF passed'[1] \/ ~passed'[2] THEN "failed" ELSE "done"
  /\ UNCHANGED << workload, fault, samples, pipeline, divergence, rules, case >>

(* The script is started again. *)
StartAgain ==
  /\ step \in {"done", "failed"}
  /\ step' = "begin" /\ workload' = NoWorkload /\ fault' = NoFault /\ samples' = << >>
  /\ pipeline' = NoDivergence /\ divergence' = NoDivergence
  /\ rules' = << "none", "none" >> /\ case' = NoCase /\ passed' = << FALSE, FALSE >>

DemoNext ==
  \/ StartAgain \/ GenerateWorkload \/ RunDevice \/ Diagnose
  \/ Generate \/ RunFaulty \/ RunCorrected

DemoSpec == DemoInit /\ [][DemoNext]_demoVars
-----------------------------------------------------------------------------
(* Where a faulty stage shows first. *)
ShowsAt(part) ==
  CASE part = "accumulator"                -> "accumulator"
    [] part = "bias"                       -> "post_bias"
    [] part \in {"multiplier", "rounding"} -> "post_requantization"
    [] part \in {"clamp", "relu"}          -> "operation_output"
    [] OTHER                               -> "nowhere"

(* The rule that names it.  Behind the bias a rule sees two numbers only:  *)
(* a truncated number that meets a limit of the output is put down to      *)
(* saturation, and a fault of the multiplier, the clamp or the ReLU that   *)
(* changes a number by one is called a likely rounding fault.  Of those    *)
(* three the trace point tells more than the rule, and none is asked for.  *)
RuleNames(part, d, rule) ==
  /\ part = "accumulator" => rule = "accumulation_arithmetic_mismatch"
  /\ part = "bias" => rule = "bias_application_mismatch"
  /\ part = "rounding" =>
       IF AtLimit(d.reference) # AtLimit(d.candidate) THEN rule = "saturation_boundary_mismatch"
       ELSE rule = "requantization_rounding_mismatch"

(* The first divergence of the stage traces is at the trace point of the   *)
(* faulty stage, never in front of it nor behind, at an output where it    *)
(* shows, and a wrong sum, bias or rounding is named by its own rule and   *)
(* by no other that fits the numbers; a wrong output never goes without a  *)
(* divergence of the stages there or before; and a lost transfer is not    *)
(* taken for numbers.                                                      *)
FaultyStageNamed ==
  step \notin {"begin", "run", "compare"} =>
    /\ pipeline # NoDivergence =>
         /\ pipeline.trace_point = ShowsAt(fault.part) /\ pipeline.sequence \in fault.at
         /\ RuleNames(fault.part, pipeline, rules[1])
    /\ divergence # NoDivergence =>
         IF fault.part = "transfer" THEN rules[2] = "insufficient_numerical_evidence"
         ELSE pipeline # NoDivergence /\ pipeline.sequence <= divergence.sequence

(* The demo confirms a rounding fault exactly when there is one: once its  *)
(* checks let it generate a test, the test fails on the truncating unit    *)
(* and passes on the corrected one if the device truncated, although its   *)
(* vector leaves the ReLU out; operands sampled from a device that got     *)
(* them wrong give a test no unit passes, and the demo ends in its error.  *)
RegressionSeparates ==
  /\ step = "done" => fault.part = "rounding"
  /\ step = "failed" /\ case # NoCase => fault.part # "rounding"
=============================================================================
