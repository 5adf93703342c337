------------------------- MODULE AcceleratorProofs -------------------------
(***************************************************************************)
(* The accelerator for every image shape, every host and every pattern of  *)
(* the streams.                                                            *)
(*                                                                         *)
(* First: the control plane's view of a run and the engine's agree.  Of an *)
(* edge of the control plane only three things matter there: what it does  *)
(* to busy, to the pulse and to the response (ControlEffect); of an edge   *)
(* of the engine only what it does to its state and done (EngineEffect).   *)
(* The invariant relates the two.                                          *)
(*                                                                         *)
(* Then: what is in the pipeline is what the present output position has   *)
(* fed it, so every answer is the convolution at its raster position and   *)
(* nothing is left over for the next.                                      *)
(***************************************************************************)
EXTENDS Accelerator, SequenceTheorems, TLAPS


States ==
  {"IDLE", "LOAD_WEIGHTS", "LOAD_ACTIVATIONS", "COMPUTE", "WAIT_RESULT", "OUTPUT"}

(* BusySpansRun says nothing under a reset pulse, and a commit during a    *)
(* pulse could overtake it: the first conjuncts exclude both.              *)
Agreement ==
  /\ pulse \in {"none", "start", "soft_reset"}
  /\ pulse # "none" => response # NoResponse
  /\ pulse = "soft_reset" => ~busy
  /\ state \in States
  /\ done => state = "IDLE"
  /\ StartFindsEngineIdle
  /\ BusySpansRun

-----------------------------------------------------------------------------
(* The record of registers, seen only as something with a status field.    *)
IsFile(r) ==
  r \in [status : {r.status}, error_code : {r.error_code}, irq_status : {r.irq_status},
         error_count : {r.error_count}, layer_invocations : {r.layer_invocations},
         counter : {r.counter}]

LEMMA RegistersStatus ==
  /\ IsFile(Control!Registers)
  /\ Control!Registers.status = status /\ Control!Registers.counter = counter
BY DEF Control!Registers, IsFile

LEMMA RecordErrorStatus ==
  ASSUME NEW r, IsFile(r), NEW code
  PROVE  /\ IsFile(Control!record_error(r, code))
         /\ Control!record_error(r, code).status = r.status
         /\ Control!record_error(r, code).counter = r.counter
BY DEF Control!record_error, IsFile

LEMMA ClearErrorStatus ==
  ASSUME NEW r, IsFile(r)
  PROVE  /\ IsFile(Control!ClearError(r))
         /\ Control!ClearError(r).status = r.status
         /\ Control!ClearError(r).counter = r.counter
BY DEF Control!ClearError, IsFile

LEMMA ClearRunStatus ==
  ASSUME NEW r, IsFile(r)
  PROVE  /\ IsFile(Control!ClearRun(r))
         /\ Control!ClearRun(r).status = {}
         /\ Control!ClearRun(r).counter = Control!ZeroCounters
BY DEF Control!ClearRun, IsFile

LEMMA BeginRunStatus ==
  ASSUME NEW r, IsFile(r)
  PROVE  /\ IsFile(Control!BeginRun(r))
         /\ Control!BeginRun(r).status = {"busy"}
         /\ Control!BeginRun(r).counter = Control!ZeroCounters
BY ClearRunStatus DEF Control!BeginRun, IsFile

(* What the activity of an edge makes of the counters while busy. *)
Counted(activity) ==
  [c \in Counters |->
    IF c \in Control!Assigned(activity) THEN Control!Advanced(c, activity) ELSE counter[c]]

LEMMA CountStatus ==
  ASSUME NEW r, IsFile(r), NEW activity
  PROVE  /\ IsFile(Control!Count(r, activity))
         /\ Control!Count(r, activity).status = r.status
         /\ r.counter = counter => Control!Count(r, activity).counter = Counted(activity)
BY DEF Control!Count, IsFile, Counted

LEMMA CompleteStatus ==
  ASSUME NEW r, IsFile(r), NEW activity
  PROVE  /\ "busy" \notin Control!Complete(r, activity).status
         /\ Control!Complete(r, activity).counter = r.counter
<1>1. CASE Control!outputs_at_done(activity) < config["OUTPUT_LENGTH"]
  <2>. DEFINE ended == [r EXCEPT !.status = @ \ {"busy"}]
  <2>1. IsFile(ended) /\ ended.status = r.status \ {"busy"} /\ ended.counter = r.counter
    BY DEF IsFile
  <2>2. /\ Control!record_error(ended, "EARLY_COMPLETION").status = ended.status
        /\ Control!record_error(ended, "EARLY_COMPLETION").counter = ended.counter
    BY <2>1, RecordErrorStatus
  <2>. QED  BY <1>1, <2>1, <2>2 DEF Control!Complete
<1>2. CASE ~(Control!outputs_at_done(activity) < config["OUTPUT_LENGTH"])
  <2>. DEFINE ended == [r EXCEPT !.status = (@ \ {"busy"}) \cup {"done"},
                                 !.irq_status = @ \cup {"completion"}]
  <2>1. ended.status = (r.status \ {"busy"}) \cup {"done"} /\ ended.counter = r.counter
    BY DEF IsFile
  <2>. QED  BY <1>2, <2>1 DEF Control!Complete
<1>. QED  BY <1>1, <1>2

(* The activity of an edge clears busy exactly when the engine is done.    *)
LEMMA ActivityStatus ==
  ASSUME NEW r, IsFile(r), NEW activity,
         Control!Assign(Control!AfterActivity(r, activity))
  PROVE  /\ busy /\ done => ~busy'
         /\ ~busy \/ ~done => status' = r.status
         /\ busy /\ r.counter = counter => counter' = Counted(activity)
         /\ ~busy => counter' = r.counter
<1>. DEFINE count == Control!Count(r, activity)
<1>1. /\ IsFile(count) /\ count.status = r.status
      /\ r.counter = counter => count.counter = Counted(activity)
  BY CountStatus
<1>2. /\ "busy" \notin Control!Complete(count, activity).status
      /\ Control!Complete(count, activity).counter = count.counter
  BY <1>1, CompleteStatus
<1>3. /\ status' = Control!AfterActivity(r, activity).status
      /\ counter' = Control!AfterActivity(r, activity).counter
  BY DEF Control!Assign
<1>. HIDE DEF count
<1>4. Control!AfterActivity(r, activity) =
        IF ~busy THEN r ELSE IF done THEN Control!Complete(count, activity) ELSE count
  BY DEF Control!AfterActivity, busy, count
<1>5. CASE ~busy
  BY <1>3, <1>4, <1>5
<1>6. CASE busy /\ done
  BY <1>1, <1>2, <1>3, <1>4, <1>6 DEF busy, Control!busy
<1>7. CASE busy /\ ~done
  BY <1>1, <1>3, <1>4, <1>7
<1>. QED  BY <1>5, <1>6, <1>7

LEMMA BeforeStartStatus ==
  /\ IsFile(Control!BeforeStart)
  /\ Control!BeforeStart.status = status /\ Control!BeforeStart.counter = counter
BY RegistersStatus, ClearErrorStatus DEF Control!BeforeStart

-----------------------------------------------------------------------------
(* The three things an edge of the control plane can do to a run.          *)
Commits == response = NoResponse /\ response' # NoResponse

Starts == Commits /\ pulse' = "start" /\ ~busy /\ busy'

Resets == Commits /\ pulse' = "soft_reset" /\ ~busy'

Continues == pulse' = "none" /\ (busy' <=> busy /\ ~done)

(* A start clears the counters, and while busy an edge that is no reset    *)
(* counts its activity, whatever it commits.                               *)
Tallies(activity) ==
  /\ pulse' = "start" => counter' = Control!ZeroCounters
  /\ busy /\ pulse' # "soft_reset" => counter' = Counted(activity)

LEMMA CommitAnswers ==
  ASSUME NEW address, Control!Committing(address),
         NEW answer \in {"OKAY", "SLVERR", "DECERR"}, Control!EndWrite(answer)
  PROVE  Commits
BY ResponseAssumption DEF Control!Committing, Control!EndWrite, Commits

(* Registers that hold the status of before leave busy to the activity.    *)
LEMMA StatusKept ==
  ASSUME NEW r, IsFile(r), r.status = status, r.counter = counter, NEW activity,
         Control!Assign(Control!AfterActivity(r, activity)), pulse' = "none"
  PROVE  Continues /\ Tallies(activity)
BY ActivityStatus DEF Continues, Tallies, busy, Control!busy

LEMMA CommandEffect ==
  ASSUME NEW activity,
         \/ Control!SoftReset(activity) \/ Control!NoStart(activity)
         \/ Control!RefuseStart(activity) \/ Control!AcceptStart(activity)
  PROVE  (Starts \/ Resets \/ Continues) /\ Tallies(activity)
<1>1. /\ IsFile(Control!BeforeStart)
      /\ Control!BeforeStart.status = status /\ Control!BeforeStart.counter = counter
  BY BeforeStartStatus
<1>2. CASE Control!SoftReset(activity)
  <2>1. IsFile(Control!ClearRun(Control!Registers))
        /\ Control!ClearRun(Control!Registers).status = {}
    BY RegistersStatus, ClearRunStatus
  <2>2. ~busy'
    BY <1>2, <2>1, ActivityStatus DEF Control!SoftReset, busy, Control!busy
  <2>3. Commits
    BY <1>2, CommitAnswers DEF Control!SoftReset
  <2>. QED  BY <1>2, <2>2, <2>3 DEF Control!SoftReset, Resets, Tallies
<1>3. CASE Control!NoStart(activity)
  BY <1>1, <1>3, StatusKept DEF Control!NoStart
<1>4. CASE Control!RefuseStart(activity)
  <2>1. PICK code :
          Control!Assign(Control!AfterActivity(
            Control!record_error(Control!BeforeStart, code), activity))
    BY <1>4 DEF Control!RefuseStart
  <2>2. IsFile(Control!record_error(Control!BeforeStart, code))
        /\ Control!record_error(Control!BeforeStart, code).status = status
        /\ Control!record_error(Control!BeforeStart, code).counter = counter
    BY <1>1, RecordErrorStatus
  <2>. QED  BY <1>4, <2>1, <2>2, StatusKept DEF Control!RefuseStart
<1>5. CASE Control!AcceptStart(activity)
  <2>1. /\ IsFile(Control!BeginRun(Control!BeforeStart))
        /\ Control!BeginRun(Control!BeforeStart).status = {"busy"}
        /\ Control!BeginRun(Control!BeforeStart).counter = Control!ZeroCounters
    BY <1>1, BeginRunStatus
  <2>2. ~busy /\ busy' /\ counter' = Control!ZeroCounters
    BY <1>5, <2>1, ActivityStatus DEF Control!AcceptStart, busy, Control!busy
  <2>3. Commits
    BY <1>5, CommitAnswers DEF Control!AcceptStart
  <2>. QED  BY <1>5, <2>2, <2>3 DEF Control!AcceptStart, Starts, Tallies
<1>. QED  BY <1>2, <1>3, <1>4, <1>5

LEMMA RegisterWriteEffect ==
  ASSUME NEW activity,
         \/ Control!ClearInterrupts(activity) \/ Control!EnableInterrupts(activity)
         \/ Control!Configure(activity) \/ Control!RefuseConfigure(activity)
         \/ Control!RefuseUnmapped(activity)
  PROVE  Continues /\ Tallies(activity)
<1>1. /\ IsFile(Control!Registers)
      /\ Control!Registers.status = status /\ Control!Registers.counter = counter
  BY RegistersStatus
<1>2. CASE Control!ClearInterrupts(activity)
  <2>. DEFINE cleared ==
         [Control!Registers EXCEPT !.irq_status = @ \ Control!IrqBits(write.word)]
  <2>1. IsFile(cleared) /\ cleared.status = status /\ cleared.counter = counter
    BY <1>1 DEF IsFile
  <2>. QED  BY <1>2, <2>1, StatusKept DEF Control!ClearInterrupts
<1>3. CASE Control!RefuseConfigure(activity)
  BY <1>1, <1>3, RecordErrorStatus, StatusKept DEF Control!RefuseConfigure
<1>4. CASE Control!EnableInterrupts(activity) \/ Control!Configure(activity)
           \/ Control!RefuseUnmapped(activity)
  BY <1>1, <1>4, StatusKept
     DEF Control!EnableInterrupts, Control!Configure, Control!RefuseUnmapped
<1>. QED  BY <1>2, <1>3, <1>4

LEMMA ControlEffect ==
  ASSUME NEW activity, Control!ControlEdge(activity)
  PROVE  (Starts \/ Resets \/ Continues) /\ Tallies(activity)
<1>1. CASE Control!NoCommit(activity)
  BY <1>1, RegistersStatus, StatusKept DEF Control!NoCommit
<1>2. CASE Control!Commit(activity)
  BY <1>2, CommandEffect, RegisterWriteEffect DEF Control!Commit
<1>. QED  BY <1>1, <1>2 DEF Control!ControlEdge

-----------------------------------------------------------------------------
(* An edge of the engine: it leaves IDLE exactly on a start, and returns   *)
(* to it exactly with a done pulse of one edge.                            *)
LEMMA EngineEffect ==
  ASSUME state \in States,
         NEW start \in BOOLEAN, NEW weight_valid, NEW activation_valid, NEW output_ready,
         Engine!Edge(start, weight_valid, activation_valid, output_ready)
  PROVE  /\ state' \in States
         /\ state = "IDLE" => ~done' /\ (state' # "IDLE" <=> start)
         /\ state # "IDLE" => (done' <=> state' = "IDLE")
<1>1. CASE state = "IDLE"
  BY <1>1 DEF Engine!Edge, Engine!StayIdle, Engine!Start, Engine!Starve, Engine!LoadWeight,
     Engine!LoadActivation, Engine!Compute, Engine!AwaitResult, Engine!TakeResult,
     Engine!StallOutput, Engine!AcceptOutput, States
<1>2. CASE state # "IDLE"
  BY <1>2 DEF Engine!Edge, Engine!StayIdle, Engine!Start, Engine!Starve, Engine!LoadWeight,
     Engine!LoadActivation, Engine!Compute, Engine!AwaitResult, Engine!TakeResult,
     Engine!StallOutput, Engine!AcceptOutput, States
<1>. QED  BY <1>1, <1>2

-----------------------------------------------------------------------------
LEMMA InitAgrees == Init => Agreement
BY DEF Init, Control!ControlInit, Engine!Init, Agreement, States, StartFindsEngineIdle,
   BusySpansRun, busy, Control!busy

LEMMA HardResetAgrees ==
  ASSUME HardReset
  PROVE  Agreement'
BY DEF HardReset, Control!HardReset, Engine!Reset, Agreement, States,
   StartFindsEngineIdle, BusySpansRun, busy, Control!busy

LEMMA EdgeAgrees ==
  ASSUME Agreement, NEW weight_valid, NEW activation_valid, NEW output_ready,
         Edge(weight_valid, activation_valid, output_ready)
  PROVE  Agreement'
<1>. DEFINE activity == Activity(weight_valid, activation_valid, output_ready)
<1>1. Starts \/ Resets \/ Continues
  BY ControlEffect DEF Edge
<1>2. CASE pulse = "soft_reset"
  <2>1. state' = "IDLE" /\ ~done'
    BY <1>2 DEF Edge, EngineEdge, Engine!Reset
  <2>2. Continues /\ ~busy
    BY <1>1, <1>2 DEF Agreement, Starts, Resets, Commits
  <2>. QED  BY <2>1, <2>2 DEF Agreement, States, StartFindsEngineIdle, BusySpansRun, Continues
<1>3. CASE pulse = "start"
  <2>1. Continues
    BY <1>1, <1>3 DEF Agreement, Starts, Resets, Commits
  <2>2. state' \in States /\ ~done' /\ state' # "IDLE"
    BY <1>3, EngineEffect DEF Edge, EngineEdge, Agreement, StartFindsEngineIdle
  <2>. QED  BY <1>3, <2>1, <2>2
       DEF Agreement, StartFindsEngineIdle, BusySpansRun, Continues
<1>4. CASE pulse = "none"
  <2>1. /\ state' \in States
        /\ state = "IDLE" => ~done' /\ state' = "IDLE"
        /\ state # "IDLE" => (done' <=> state' = "IDLE")
    BY <1>4, EngineEffect DEF Edge, EngineEdge, Agreement
  <2>2. busy <=> state # "IDLE" \/ done
    BY <1>4 DEF Agreement, BusySpansRun
  <2>3. CASE Starts
    BY <2>1, <2>2, <2>3 DEF Agreement, StartFindsEngineIdle, BusySpansRun, Starts, Commits
  <2>4. CASE Resets
    BY <2>1, <2>2, <2>4 DEF Agreement, StartFindsEngineIdle, BusySpansRun, Resets, Commits
  <2>5. CASE Continues
    BY <2>1, <2>2, <2>5 DEF Agreement, StartFindsEngineIdle, BusySpansRun, Continues
  <2>. QED  BY <1>1, <2>3, <2>4, <2>5
<1>. QED  BY <1>2, <1>3, <1>4 DEF Agreement

LEMMA NextAgrees == Agreement /\ [Next]_vars => Agreement'
<1>. SUFFICES ASSUME Agreement, [Next]_vars PROVE Agreement'
  OBVIOUS
<1>1. CASE UNCHANGED vars
  BY <1>1 DEF vars, Engine!vars, Control!controlVars, Control!writeVars, Control!lifecycle,
     Agreement, StartFindsEngineIdle, BusySpansRun, busy, Control!busy
<1>2. CASE HardReset
  BY <1>2, HardResetAgrees
<1>3. CASE Next /\ ~HardReset
  BY <1>3, EdgeAgrees DEF Next
<1>. QED  BY <1>1, <1>2, <1>3

(* The two views of a run agree at every edge.                             *)
THEOREM ViewsAgree == Spec => []Agreement
BY InitAgrees, NextAgrees, PTL DEF Spec

(* No start pulse is dropped by an engine that is still busy.              *)
THEOREM StartsAreSeen == Spec => []StartFindsEngineIdle
<1>1. Agreement => StartFindsEngineIdle
  BY DEF Agreement
<1>. QED  BY <1>1, ViewsAgree, PTL

(* busy spans exactly the engine's run, for every shape and every host.    *)
THEOREM BusyIsTheRun == Spec => []BusySpansRun
<1>1. Agreement => BusySpansRun
  BY DEF Agreement
<1>. QED  BY <1>1, ViewsAgree, PTL

-----------------------------------------------------------------------------
(* The pipeline f edges after the first beat of a sum was fed to it, when  *)
(* nothing else was: beat i is in stage s of the lanes at f = i + s, and   *)
(* the finished sum follows the last beat.                                 *)
BeatAt(sum, channel, i) ==
  IF i \in 0 .. INPUT_CHANNELS - 1
    THEN [lanes |-> sum[i + 1], clear |-> i = 0, last |-> i = INPUT_CHANNELS - 1,
          settings |-> channel]
    ELSE Bubble

OpenAt(sum, i) ==
  IF i \in 1 .. INPUT_CHANNELS - 1 THEN [ic \in 1 .. i |-> sum[ic]] ELSE << >>

SumAt(sum, channel, i) ==
  IF i = INPUT_CHANNELS /\ ~AccumulatorOverflows(sum)
    THEN [sum |-> sum, settings |-> channel, overflow |-> BiasOverflows(sum, channel)]
    ELSE Bubble

Pipeline(sum, channel, f, lanes, open, post, answer) ==
  /\ lanes = << BeatAt(sum, channel, f - 1), BeatAt(sum, channel, f - 2),
                BeatAt(sum, channel, f - 3) >>
  /\ open = OpenAt(sum, f - 3)
  /\ post = << SumAt(sum, channel, f - 3), SumAt(sum, channel, f - 4),
               SumAt(sum, channel, f - 5), SumAt(sum, channel, f - 6) >>
  /\ answer = SumAt(sum, channel, f - 7)

Drained(lanes, open, post, answer) ==
  /\ lanes = << Bubble, Bubble, Bubble >>
  /\ open = << >>
  /\ post = << Bubble, Bubble, Bubble, Bubble >>
  /\ answer = Bubble

Index(oc, y, x) == oc * (Engine!OUTPUT_HEIGHT * Engine!OUTPUT_WIDTH)
                   + (y * Engine!OUTPUT_WIDTH + x)

(* The sum of the present position, and the answer made of it. *)
ThisSum == Engine!Reference(output_channel, output_y, output_x)

IsMemory(m, count) == m = [k \in Engine!Addresses(count) |-> m[k]]

LoadInv ==
  /\ IsMemory(weights, Engine!WEIGHT_COUNT)
  /\ IsMemory(activations, Engine!ACTIVATION_COUNT)
  /\ sent \in [weights : Nat, activations : Nat, outputs : Nat]
  /\ \A k \in Engine!Addresses(Engine!WEIGHT_COUNT) :
       k < sent.weights => weights[k] = Engine!WeightElement(k)
  /\ \A k \in Engine!Addresses(Engine!ACTIVATION_COUNT) :
       k < sent.activations => activations[k] = Engine!ActivationElement(k)
  /\ state = "LOAD_WEIGHTS" =>
       /\ weight_count \in Engine!Addresses(Engine!WEIGHT_COUNT)
       /\ sent.weights = weight_count /\ sent.activations = 0 /\ activation_count = 0
  /\ state = "LOAD_ACTIVATIONS" =>
       /\ activation_count \in Engine!Addresses(Engine!ACTIVATION_COUNT)
       /\ sent.weights = Engine!WEIGHT_COUNT /\ sent.activations = activation_count
  /\ state \in {"COMPUTE", "WAIT_RESULT", "OUTPUT"} =>
       /\ sent.weights = Engine!WEIGHT_COUNT
       /\ sent.activations = Engine!ACTIVATION_COUNT

PositionInv ==
  state # "IDLE" =>
    /\ output_channel \in Engine!Addresses(OUTPUT_CHANNELS)
    /\ output_y \in Engine!Addresses(Engine!OUTPUT_HEIGHT)
    /\ output_x \in Engine!Addresses(Engine!OUTPUT_WIDTH)
    /\ sent.outputs = Index(output_channel, output_y, output_x)
    /\ state \in {"LOAD_WEIGHTS", "LOAD_ACTIVATIONS"} => sent.outputs = 0

OutputInv ==
  /\ done \in BOOLEAN
  /\ done => state = "IDLE"
  /\ state # "OUTPUT" => output = Bubble
  /\ state = "OUTPUT" =>
       /\ output = [data |-> Engine!Answer(sent.outputs),
                    last |-> sent.outputs = Engine!OUTPUT_COUNT - 1]
       /\ output.data = Zero => overflow

PipelineInv ==
  /\ state \notin {"COMPUTE", "WAIT_RESULT"} =>
       Drained(lane_stage, accumulator, post_stage, result)
  /\ state = "COMPUTE" =>
       /\ input_channel \in Engine!Addresses(INPUT_CHANNELS)
       /\ Pipeline(ThisSum, output_channel, input_channel,
                   lane_stage, accumulator, post_stage, result)
  /\ state \in {"WAIT_RESULT", "OUTPUT"} => input_channel = 0
  /\ state = "WAIT_RESULT" =>
       \E f \in Nat :
         /\ f >= INPUT_CHANNELS
         /\ Pipeline(ThisSum, output_channel, f, lane_stage, accumulator, post_stage, result)

EngineInv ==
  /\ state \in States
  /\ LoadInv
  /\ PositionInv
  /\ OutputInv
  /\ PipelineInv
-----------------------------------------------------------------------------
(* Numbers in a mixed radix. *)
LEMMA Radix ==
  ASSUME NEW a \in Nat, NEW b \in Nat, NEW A \in Nat, NEW B \in Nat, a < A, b < B
  PROVE  /\ a * B + b \in 0 .. A * B - 1
         /\ (a * B + b) \div B = a
         /\ (a * B + b) % B = b
<1>1. a * B <= (A - 1) * B
  OBVIOUS
<1>2. (a * B + b) \div B = a /\ (a * B + b) % B = b
  BY Z3
<1>. QED  BY <1>1, <1>2

(* Three digits, the outer two read at once or one by one. *)
Number(a, b, c, B, C) == a * (B * C) + (b * C + c)

LEMMA ThreeDigits ==
  ASSUME NEW a \in Nat, NEW b \in Nat, NEW c \in Nat,
         NEW A \in Nat, NEW B \in Nat, NEW C \in Nat, a < A, b < B, c < C
  PROVE  /\ Number(a, b, c, B, C) \in 0 .. A * (B * C) - 1
         /\ Number(a, b, c, B, C) \div (B * C) = a
         /\ (Number(a, b, c, B, C) \div C) % B = b
         /\ Number(a, b, c, B, C) % C = c
<1>1. b * C + c \in 0 .. B * C - 1
  BY Radix
<1>. DEFINE low == b * C + c
            BC  == B * C
            n   == a * BC + low
<1>2. low \in Nat /\ BC \in Nat /\ low < BC
  BY <1>1
<1>3. n \in 0 .. A * BC - 1 /\ n \div BC = a
  BY <1>2, Radix
<1>4. n = ((a * B + b) * C) + c
  BY Z3
<1>5. a * B + b \in 0 .. A * B - 1 /\ (a * B + b) % B = b
  BY Radix
<1>6. n \div C = a * B + b /\ n % C = c
  <2>. DEFINE high == a * B + b
  <2>1. high \in Nat /\ A * B \in Nat /\ high < A * B
    BY <1>5
  <2>2. (high * C + c) \div C = high /\ (high * C + c) % C = c
    BY <2>1, Radix
  <2>. QED  BY <1>4, <2>2
<1>7. Number(a, b, c, B, C) = n
  BY DEF Number
<1>. QED  BY <1>3, <1>5, <1>6, <1>7

LEMMA Shape ==
  /\ INPUT_CHANNELS \in Nat \ {0} /\ OUTPUT_CHANNELS \in Nat \ {0}
  /\ IMAGE_HEIGHT \in Nat \ {0} /\ IMAGE_WIDTH \in Nat \ {0}
  /\ Engine!OUTPUT_WIDTH \in Nat \ {0} /\ Engine!OUTPUT_HEIGHT \in Nat \ {0}
  /\ Engine!OUTPUT_WIDTH = IMAGE_WIDTH - 2 /\ Engine!OUTPUT_HEIGHT = IMAGE_HEIGHT - 2
BY ShapeAssumption DEF Engine!OUTPUT_WIDTH, Engine!OUTPUT_HEIGHT

LEMMA LaneDigits ==
  ASSUME NEW lane \in 0 .. 8
  PROVE  /\ lane \div 3 \in 0 .. 2 /\ lane % 3 \in 0 .. 2
         /\ lane = 3 * (lane \div 3) + (lane % 3)
OBVIOUS

(* The memory word of a lane is the element the convolution wants there.   *)
LEMMA WeightAddress ==
  ASSUME NEW oc \in Engine!Addresses(OUTPUT_CHANNELS),
         NEW ic \in Engine!Addresses(INPUT_CHANNELS), NEW lane \in Engine!Lane
  PROVE  LET address == oc * (INPUT_CHANNELS * 9) + ic * 9 + lane IN
         /\ address \in Engine!Addresses(Engine!WEIGHT_COUNT)
         /\ Engine!WeightElement(address) =
              [oc |-> oc, ic |-> ic, row |-> lane \div 3, column |-> lane % 3]
<1>. DEFINE n == Number(oc, ic, lane, INPUT_CHANNELS, 9)
<1>1. /\ oc \in Nat /\ ic \in Nat /\ lane \in Nat
      /\ oc < OUTPUT_CHANNELS /\ ic < INPUT_CHANNELS /\ lane < 9
  BY Shape DEF Engine!Addresses, Engine!Lane
<1>2. /\ n \in 0 .. OUTPUT_CHANNELS * (INPUT_CHANNELS * 9) - 1
      /\ n \div (INPUT_CHANNELS * 9) = oc
      /\ (n \div 9) % INPUT_CHANNELS = ic
      /\ n % 9 = lane
  BY <1>1, Shape, ThreeDigits
<1>3. n % 3 = lane % 3
  <2>. DEFINE triples == oc * INPUT_CHANNELS + ic
  <2>1. triples \in Nat
    BY <1>1, Shape
  <2>2. n = 9 * triples + lane
    BY <1>1, Shape, Z3 DEF Number
  <2>. HIDE DEF triples, n
  <2>3. (9 * triples + lane) % 3 = lane % 3
    BY <1>1, <2>1
  <2>. QED  BY <2>2, <2>3
<1>4. n = oc * (INPUT_CHANNELS * 9) + ic * 9 + lane
  BY <1>1, Shape, Z3 DEF Number
<1>5. OUTPUT_CHANNELS * (INPUT_CHANNELS * 9) = Engine!WEIGHT_COUNT
  BY Shape, Z3 DEF Engine!WEIGHT_COUNT
<1>. HIDE DEF n
<1>6. n \in Engine!Addresses(Engine!WEIGHT_COUNT)
  BY <1>2, <1>5 DEF Engine!Addresses
<1>7. Engine!WeightElement(n) =
        [oc |-> oc, ic |-> ic, row |-> lane \div 3, column |-> lane % 3]
  BY <1>2, <1>3 DEF Engine!WeightElement
<1>. QED  BY <1>4, <1>6, <1>7

LEMMA ActivationAddress ==
  ASSUME NEW ic \in Engine!Addresses(INPUT_CHANNELS),
         NEW row \in Engine!Addresses(IMAGE_HEIGHT),
         NEW column \in Engine!Addresses(IMAGE_WIDTH)
  PROVE  LET address == ic * (IMAGE_HEIGHT * IMAGE_WIDTH) + (row * IMAGE_WIDTH + column) IN
         /\ address \in Engine!Addresses(Engine!ACTIVATION_COUNT)
         /\ Engine!ActivationElement(address) = [ic |-> ic, row |-> row, column |-> column]
<1>. DEFINE n == Number(ic, row, column, IMAGE_HEIGHT, IMAGE_WIDTH)
<1>1. /\ ic \in Nat /\ row \in Nat /\ column \in Nat
      /\ ic < INPUT_CHANNELS /\ row < IMAGE_HEIGHT /\ column < IMAGE_WIDTH
  BY Shape DEF Engine!Addresses
<1>2. /\ n \in 0 .. INPUT_CHANNELS * (IMAGE_HEIGHT * IMAGE_WIDTH) - 1
      /\ n \div (IMAGE_HEIGHT * IMAGE_WIDTH) = ic
      /\ (n \div IMAGE_WIDTH) % IMAGE_HEIGHT = row
      /\ n % IMAGE_WIDTH = column
  BY <1>1, Shape, ThreeDigits
<1>3. INPUT_CHANNELS * (IMAGE_HEIGHT * IMAGE_WIDTH) = Engine!ACTIVATION_COUNT
  BY Shape, Z3 DEF Engine!ACTIVATION_COUNT
<1>. HIDE DEF n
<1>4. n \in Engine!Addresses(Engine!ACTIVATION_COUNT)
  BY <1>2, <1>3 DEF Engine!Addresses
<1>5. Engine!ActivationElement(n) = [ic |-> ic, row |-> row, column |-> column]
  BY <1>2 DEF Engine!ActivationElement
<1>. QED  BY <1>4, <1>5 DEF n, Number

(* The outputs in raster order. *)
LEMMA RasterDigits ==
  ASSUME NEW oc \in Engine!Addresses(OUTPUT_CHANNELS),
         NEW y \in Engine!Addresses(Engine!OUTPUT_HEIGHT),
         NEW x \in Engine!Addresses(Engine!OUTPUT_WIDTH)
  PROVE  /\ Index(oc, y, x) \in Engine!Addresses(Engine!OUTPUT_COUNT)
         /\ Index(oc, y, x) \div (Engine!OUTPUT_HEIGHT * Engine!OUTPUT_WIDTH) = oc
         /\ (Index(oc, y, x) \div Engine!OUTPUT_WIDTH) % Engine!OUTPUT_HEIGHT = y
         /\ Index(oc, y, x) % Engine!OUTPUT_WIDTH = x
<1>. DEFINE H == Engine!OUTPUT_HEIGHT
            W == Engine!OUTPUT_WIDTH
            n == Number(oc, y, x, H, W)
<1>1. /\ oc \in Nat /\ y \in Nat /\ x \in Nat /\ H \in Nat /\ W \in Nat
      /\ OUTPUT_CHANNELS \in Nat /\ oc < OUTPUT_CHANNELS /\ y < H /\ x < W
  BY Shape DEF Engine!Addresses
<1>. HIDE DEF H, W
<1>2. /\ n \in 0 .. OUTPUT_CHANNELS * (H * W) - 1
      /\ n \div (H * W) = oc
      /\ (n \div W) % H = y
      /\ n % W = x
  BY <1>1, ThreeDigits
<1>3. OUTPUT_CHANNELS * (H * W) = Engine!OUTPUT_COUNT
  BY <1>1, Z3 DEF Engine!OUTPUT_COUNT, H, W
<1>4. Index(oc, y, x) = n
  BY DEF Index, Number, H, W
<1>. HIDE DEF n
<1>5. n \in Engine!Addresses(Engine!OUTPUT_COUNT)
  BY <1>2, <1>3 DEF Engine!Addresses
<1>. QED  BY <1>2, <1>4, <1>5 DEF H, W

LEMMA RasterOrder ==
  ASSUME NEW oc \in Engine!Addresses(OUTPUT_CHANNELS),
         NEW y \in Engine!Addresses(Engine!OUTPUT_HEIGHT),
         NEW x \in Engine!Addresses(Engine!OUTPUT_WIDTH)
  PROVE  Engine!Answer(Index(oc, y, x)) =
              IF BiasOverflows(Engine!Reference(oc, y, x), oc) THEN Zero
              ELSE [sum |-> Engine!Reference(oc, y, x), settings |-> oc]
BY RasterDigits DEF Engine!Answer

LEMMA LastIndex ==
  ASSUME NEW oc \in Engine!Addresses(OUTPUT_CHANNELS),
         NEW y \in Engine!Addresses(Engine!OUTPUT_HEIGHT),
         NEW x \in Engine!Addresses(Engine!OUTPUT_WIDTH)
  PROVE  Index(oc, y, x) = Engine!OUTPUT_COUNT - 1 <=>
           /\ oc = OUTPUT_CHANNELS - 1
           /\ y = Engine!OUTPUT_HEIGHT - 1
           /\ x = Engine!OUTPUT_WIDTH - 1
<1>. DEFINE C == OUTPUT_CHANNELS - 1
            Y == Engine!OUTPUT_HEIGHT - 1
            X == Engine!OUTPUT_WIDTH - 1
<1>1. /\ C \in Engine!Addresses(OUTPUT_CHANNELS)
      /\ Y \in Engine!Addresses(Engine!OUTPUT_HEIGHT)
      /\ X \in Engine!Addresses(Engine!OUTPUT_WIDTH)
  BY Shape DEF Engine!Addresses
<1>2. Index(C, Y, X) = Engine!OUTPUT_COUNT - 1
  BY Shape, Z3 DEF Index, Engine!OUTPUT_COUNT
<1>. HIDE DEF C, Y, X
<1>3. Index(oc, y, x) = Index(C, Y, X) => oc = C /\ y = Y /\ x = X
  <2>1. /\ Index(C, Y, X) \div (Engine!OUTPUT_HEIGHT * Engine!OUTPUT_WIDTH) = C
        /\ (Index(C, Y, X) \div Engine!OUTPUT_WIDTH) % Engine!OUTPUT_HEIGHT = Y
        /\ Index(C, Y, X) % Engine!OUTPUT_WIDTH = X
    BY <1>1, RasterDigits
  <2>. QED  BY <2>1, RasterDigits
<1>. QED  BY <1>2, <1>3 DEF C, Y, X

LEMMA NextIndex ==
  ASSUME NEW oc \in Nat, NEW y \in Nat, NEW x \in Nat
  PROVE  /\ Index(oc, y, x + 1) = Index(oc, y, x) + 1
         /\ x = Engine!OUTPUT_WIDTH - 1 => Index(oc, y + 1, 0) = Index(oc, y, x) + 1
         /\ x = Engine!OUTPUT_WIDTH - 1 /\ y = Engine!OUTPUT_HEIGHT - 1 =>
              Index(oc + 1, 0, 0) = Index(oc, y, x) + 1
         /\ Index(0, 0, 0) = 0
<1>. DEFINE H == Engine!OUTPUT_HEIGHT
            W == Engine!OUTPUT_WIDTH
<1>1. H \in Nat /\ W \in Nat
  BY Shape
<1>2. /\ Index(oc, y, x + 1) = oc * (H * W) + (y * W + (x + 1))
      /\ Index(oc, y + 1, 0) = oc * (H * W) + ((y + 1) * W + 0)
      /\ Index(oc + 1, 0, 0) = (oc + 1) * (H * W) + (0 * W + 0)
      /\ Index(oc, y, x) = oc * (H * W) + (y * W + x)
      /\ Index(0, 0, 0) = 0 * (H * W) + (0 * W + 0)
  BY DEF Index
<1>. HIDE DEF H, W
<1>3. Index(oc, y, x + 1) = Index(oc, y, x) + 1
  BY <1>1, <1>2, Z3
<1>4. x = W - 1 => Index(oc, y + 1, 0) = Index(oc, y, x) + 1
  BY <1>1, <1>2, Z3
<1>5. x = W - 1 /\ y = H - 1 => Index(oc + 1, 0, 0) = Index(oc, y, x) + 1
  BY <1>1, <1>2, Z3
<1>6. Index(0, 0, 0) = 0
  BY <1>1, <1>2, Z3
<1>. QED  BY <1>3, <1>4, <1>5, <1>6 DEF H, W

-----------------------------------------------------------------------------
(* What the present position feeds, and how it is told from a bubble.      *)
LEMMA ReferenceIsSum ==
  ASSUME NEW oc \in Nat, NEW y \in Nat, NEW x \in Nat
  PROVE  Engine!Reference(oc, y, x) \in SumsOfLayer
<1>1. \A ic \in 1 .. INPUT_CHANNELS : ic - 1 \in Nat
  BY Shape
<1>2. \A lane \in 0 .. 8 : /\ lane \div 3 \in Nat /\ lane % 3 \in Nat
                          /\ y + (lane \div 3) \in Nat /\ x + (lane % 3) \in Nat
  BY LaneDigits
<1>. QED  BY <1>1, <1>2 DEF Engine!Reference, SumsOfLayer, Operands, Engine!Lane

LEMMA LanesAreReference ==
  ASSUME LoadInv, PositionInv, state = "COMPUTE",
         input_channel \in Engine!Addresses(INPUT_CHANNELS)
  PROVE  Engine!core_lanes = ThisSum[input_channel + 1]
<1>. DEFINE wanted(lane) ==
       [activation |-> [ic |-> input_channel, row |-> output_y + (lane \div 3),
                        column |-> output_x + (lane % 3)],
        weight |-> [oc |-> output_channel, ic |-> input_channel,
                    row |-> lane \div 3, column |-> lane % 3]]
<1>1. ThisSum[input_channel + 1] = [lane \in Engine!Lane |-> wanted(lane)]
  <2>1. input_channel + 1 \in 1 .. INPUT_CHANNELS /\ (input_channel + 1) - 1 = input_channel
    BY Shape DEF Engine!Addresses
  <2>. QED  BY <2>1 DEF ThisSum, Engine!Reference
<1>2. ASSUME NEW lane \in Engine!Lane
      PROVE  weights[output_channel * (INPUT_CHANNELS * 9) + input_channel * 9 + lane]
               = wanted(lane).weight
  <2>1. output_channel \in Engine!Addresses(OUTPUT_CHANNELS)
    BY DEF PositionInv
  <2>. DEFINE a == output_channel * (INPUT_CHANNELS * 9) + input_channel * 9 + lane
  <2>2. /\ a \in Engine!Addresses(Engine!WEIGHT_COUNT)
        /\ Engine!WeightElement(a) = wanted(lane).weight
    BY <2>1, WeightAddress
  <2>. HIDE DEF a
  <2>3. a < sent.weights
    <3>1. Engine!WEIGHT_COUNT \in Int
      BY Shape DEF Engine!WEIGHT_COUNT
    <3>. QED  BY <2>2, <3>1 DEF LoadInv, Engine!Addresses
  <2>4. weights[a] = Engine!WeightElement(a)
    BY <2>2, <2>3 DEF LoadInv
  <2>. QED  BY <2>2, <2>4 DEF a
<1>3. ASSUME NEW lane \in Engine!Lane
      PROVE  activations[input_channel * (IMAGE_HEIGHT * IMAGE_WIDTH)
                         + (output_y + lane \div 3) * IMAGE_WIDTH + output_x + (lane % 3)]
               = wanted(lane).activation
  <2>. DEFINE row == output_y + (lane \div 3)
              column == output_x + (lane % 3)
              a == input_channel * (IMAGE_HEIGHT * IMAGE_WIDTH) + (row * IMAGE_WIDTH + column)
  <2>1. row \in Engine!Addresses(IMAGE_HEIGHT) /\ column \in Engine!Addresses(IMAGE_WIDTH)
    BY LaneDigits, Shape DEF PositionInv, Engine!Addresses, Engine!Lane
  <2>2. /\ a \in Engine!Addresses(Engine!ACTIVATION_COUNT)
        /\ Engine!ActivationElement(a) = wanted(lane).activation
    <3>. HIDE DEF row, column
    <3>1. /\ a \in Engine!Addresses(Engine!ACTIVATION_COUNT)
          /\ Engine!ActivationElement(a) =
               [ic |-> input_channel, row |-> row, column |-> column]
      BY <2>1, ActivationAddress
    <3>. QED  BY <3>1 DEF row, column
  <2>3. a = input_channel * (IMAGE_HEIGHT * IMAGE_WIDTH)
            + (output_y + lane \div 3) * IMAGE_WIDTH + output_x + (lane % 3)
    <3>1. input_channel \in Nat /\ output_x \in Nat /\ lane % 3 \in Nat /\ row \in Nat
      BY <2>1, LaneDigits, Shape DEF PositionInv, Engine!Addresses, Engine!Lane
    <3>2. input_channel * (IMAGE_HEIGHT * IMAGE_WIDTH) \in Nat /\ row * IMAGE_WIDTH \in Nat
      BY <3>1, Shape
    <3>. QED  BY <3>1, <3>2
  <2>4. a < sent.activations
    <3>1. Engine!ACTIVATION_COUNT \in Int
      BY Shape DEF Engine!ACTIVATION_COUNT
    <3>. HIDE DEF a
    <3>. QED  BY <2>2, <3>1 DEF LoadInv, Engine!Addresses
  <2>. HIDE DEF a
  <2>5. activations[a] = Engine!ActivationElement(a)
    BY <2>2, <2>4 DEF LoadInv
  <2>. QED  BY <2>2, <2>3, <2>5
<1>. QED  BY <1>1, <1>2, <1>3 DEF Engine!core_lanes

LEMMA BeatIsReference ==
  ASSUME LoadInv, PositionInv, state = "COMPUTE",
         input_channel \in Engine!Addresses(INPUT_CHANNELS)
  PROVE  Engine!core_beat = BeatAt(ThisSum, output_channel, input_channel)
BY LanesAreReference DEF Engine!core_beat, BeatAt, Engine!Addresses

LEMMA BeatIsValid ==
  ASSUME NEW total \in SumsOfLayer, NEW channel \in Nat, NEW i \in 0 .. INPUT_CHANNELS - 1
  PROVE  /\ BeatAt(total, channel, i) =
              [lanes |-> total[i + 1], clear |-> i = 0, last |-> i = INPUT_CHANNELS - 1,
               settings |-> channel]
         /\ BeatAt(total, channel, i) # Bubble
<1>1. i + 1 \in 1 .. INPUT_CHANNELS
  BY Shape
<1>2. total[i + 1] \in Operands
  BY <1>1 DEF SumsOfLayer
<1>3. BeatAt(total, channel, i) \in
        [lanes : Operands, clear : BOOLEAN, last : BOOLEAN, settings : Nat]
  BY <1>2 DEF BeatAt
<1>. QED  BY <1>3, SymbolAssumption DEF SymbolAssumption, BeatAt

LEMMA SumIsValid ==
  ASSUME NEW total \in SumsOfLayer, NEW channel \in Nat,
         BiasOverflows(total, channel) \in BOOLEAN
  PROVE  [sum |-> total, settings |-> channel, overflow |-> BiasOverflows(total, channel)]
           # Bubble
BY SymbolAssumption DEF SymbolAssumption

(* The first operands of a sum. *)
Prefix(total, n) == [ic \in 1 .. n |-> total[ic]]

LEMMA PrefixGrows ==
  ASSUME NEW total \in SumsOfLayer
  PROVE  /\ << total[1] >> = Prefix(total, 1)
         /\ \A n \in 1 .. INPUT_CHANNELS - 1 :
              Append(Prefix(total, n), total[n + 1]) = Prefix(total, n + 1)
         /\ Prefix(total, INPUT_CHANNELS) = total
<1>1. << total[1] >> = Prefix(total, 1)
  BY DEF Prefix
<1>2. ASSUME NEW n \in 1 .. INPUT_CHANNELS - 1
      PROVE  Append(Prefix(total, n), total[n + 1]) = Prefix(total, n + 1)
  <2>. DEFINE s == Prefix(total, n)
              t == Append(s, total[n + 1])
  <2>1. n \in Nat /\ n + 1 \in Nat /\ n + 1 \in 1 .. INPUT_CHANNELS
    BY Shape
  <2>2. \A ic \in 1 .. n + 1 : ic \in 1 .. INPUT_CHANNELS
    BY <2>1, Shape
  <2>3. \A ic \in 1 .. n + 1 : total[ic] \in Operands
    BY <2>2 DEF SumsOfLayer
  <2>4. s \in Seq(Operands) /\ Len(s) = n /\ \A ic \in 1 .. n : s[ic] = total[ic]
    <3>1. s \in [1 .. n -> Operands]
      BY <2>1, <2>3 DEF Prefix
    <3>2. s \in Seq(Operands)
      BY <2>1, <3>1
    <3>3. Len(s) = n
      BY <2>1, <3>1, <3>2, LenProperties
    <3>. QED  BY <3>2, <3>3 DEF Prefix
  <2>5. total[n + 1] \in Operands
    BY <2>1, <2>3
  <2>. HIDE DEF s
  <2>6. /\ t \in Seq(Operands) /\ Len(t) = n + 1
        /\ \A ic \in 1 .. n : t[ic] = s[ic]
        /\ t[n + 1] = total[n + 1]
    BY <2>4, <2>5, AppendProperties
  <2>7. t = [ic \in 1 .. n + 1 |-> t[ic]]
    BY <2>6
  <2>8. \A ic \in 1 .. n + 1 : t[ic] = total[ic]
    BY <2>1, <2>4, <2>6
  <2>. HIDE DEF t
  <2>9. t = Prefix(total, n + 1)
    BY <2>7, <2>8 DEF Prefix
  <2>. QED  BY <2>9 DEF t, s
<1>3. Prefix(total, INPUT_CHANNELS) = total
  BY DEF Prefix, SumsOfLayer
<1>. QED  BY <1>1, <1>2, <1>3

(* The accumulator at beat i: it holds the operands before, and adds its.  *)
LEMMA BeatIsAdded ==
  ASSUME NEW total \in SumsOfLayer, NEW channel \in Nat, NEW i \in 0 .. INPUT_CHANNELS - 1,
         lane_stage[3] = BeatAt(total, channel, i), accumulator = OpenAt(total, i)
  PROVE  /\ Engine!Core!summand # Bubble
         /\ Engine!Core!summand.settings = channel
         /\ Engine!Core!summand.last = (i = INPUT_CHANNELS - 1)
         /\ Engine!Core!next_accumulator = Prefix(total, i + 1)
<1>1. /\ Engine!Core!summand # Bubble
      /\ Engine!Core!summand.settings = channel
      /\ Engine!Core!summand.last = (i = INPUT_CHANNELS - 1)
      /\ Engine!Core!summand.clear = (i = 0)
      /\ Engine!Core!summand.lanes = total[i + 1]
  <2>. DEFINE beat == [lanes |-> total[i + 1], clear |-> i = 0,
                       last |-> i = INPUT_CHANNELS - 1, settings |-> channel]
  <2>1. Engine!Core!summand = beat /\ beat # Bubble
    BY BeatIsValid DEF Engine!Core!summand
  <2>2. beat.settings = channel /\ beat.lanes = total[i + 1]
    OBVIOUS
  <2>3. beat.last = (i = INPUT_CHANNELS - 1)
    OBVIOUS
  <2>4. beat.clear = (i = 0)
    OBVIOUS
  <2>. HIDE DEF beat
  <2>. QED  BY <2>1, <2>2, <2>3, <2>4
<1>2. CASE i = 0
  <2>1. Engine!Core!summand.clear /\ Engine!Core!summand.lanes = total[1]
    <3>1. total[i + 1] = total[1] /\ Prefix(total, i + 1) = Prefix(total, 1)
      BY <1>2
    <3>. QED  BY <1>1, <1>2, <3>1
  <2>2. << total[1] >> = Prefix(total, i + 1)
    BY <1>2, PrefixGrows
  <2>. QED  BY <1>1, <2>1, <2>2 DEF Engine!Core!next_accumulator
<1>3. CASE i # 0
  <2>1. i \in 1 .. INPUT_CHANNELS - 1
    BY <1>3, Shape
  <2>2. accumulator = Prefix(total, i)
    BY <2>1 DEF OpenAt, Prefix
  <2>3. Append(Prefix(total, i), total[i + 1]) = Prefix(total, i + 1)
    BY <2>1, PrefixGrows
  <2>. QED  BY <1>1, <1>3, <2>2, <2>3 DEF Engine!Core!next_accumulator
<1>. QED  BY <1>2, <1>3, <1>1

(* One edge moves the contents of the pipeline one beat further.           *)
LEMMA PipelineStep ==
  ASSUME NEW total \in SumsOfLayer, NEW channel \in Nat, NEW f \in Nat,
         BiasOverflows(total, channel) \in BOOLEAN,
         Pipeline(total, channel, f, lane_stage, accumulator, post_stage, result),
         Engine!Core!CoreEdge(BeatAt(total, channel, f))
  PROVE  Pipeline(total, channel, f + 1, lane_stage', accumulator', post_stage', result')
<1>. DEFINE i == f - 3
<1>1. /\ i \in Int /\ i + 1 \in Int
      /\ f + 1 - 1 = f /\ f + 1 - 2 = f - 1 /\ f + 1 - 3 = f - 2 /\ f + 1 - 4 = f - 3
      /\ f + 1 - 5 = f - 4 /\ f + 1 - 6 = f - 5 /\ f + 1 - 7 = f - 6 /\ i + 1 = f - 2
  OBVIOUS
<1>2. /\ lane_stage[1] = BeatAt(total, channel, f - 1)
      /\ lane_stage[2] = BeatAt(total, channel, f - 2)
      /\ lane_stage[3] = BeatAt(total, channel, i)
      /\ accumulator = OpenAt(total, i)
      /\ post_stage[1] = SumAt(total, channel, f - 3)
      /\ post_stage[2] = SumAt(total, channel, f - 4)
      /\ post_stage[3] = SumAt(total, channel, f - 5)
      /\ post_stage[4] = SumAt(total, channel, f - 6)
  BY DEF Pipeline
<1>3. accumulator' = OpenAt(total, i + 1) /\ Engine!Core!finished = SumAt(total, channel, i + 1)
  <2>. HIDE DEF i
  <2>1. CASE i \notin 0 .. INPUT_CHANNELS - 1
    <3>1. Engine!Core!summand = Bubble /\ accumulator = << >>
      BY <1>1, <1>2, <2>1, Shape DEF BeatAt, OpenAt, Engine!Core!summand
    <3>2. i + 1 \notin 1 .. INPUT_CHANNELS - 1 /\ i + 1 # INPUT_CHANNELS
      BY <1>1, <2>1, Shape
    <3>3. accumulator' = accumulator /\ Engine!Core!finished = Bubble
      BY <3>1 DEF Engine!Core!CoreEdge, Engine!Core!Accumulate, Engine!Core!finished
    <3>. QED  BY <3>1, <3>2, <3>3 DEF OpenAt, SumAt
  <2>2. CASE i \in 0 .. INPUT_CHANNELS - 1
    <3>1. /\ Engine!Core!summand # Bubble
          /\ Engine!Core!summand.settings = channel
          /\ Engine!Core!summand.last = (i = INPUT_CHANNELS - 1)
          /\ Engine!Core!next_accumulator = Prefix(total, i + 1)
      BY <1>2, <2>2, BeatIsAdded
    <3>2. CASE i = INPUT_CHANNELS - 1
      <4>1. i + 1 = INPUT_CHANNELS /\ i + 1 \notin 1 .. INPUT_CHANNELS - 1
        BY <1>1, <3>2, Shape
      <4>2. Engine!Core!summand.last
        BY <3>1, <3>2
      <4>3. Engine!Core!next_accumulator = total
        BY <3>1, <4>1, PrefixGrows
      <4>4. accumulator' = << >>
        BY <3>1, <4>2 DEF Engine!Core!CoreEdge, Engine!Core!Accumulate
      <4>5. Engine!Core!Sum = [sum |-> total, settings |-> channel,
                               overflow |-> BiasOverflows(total, channel)]
        BY <3>1, <4>3 DEF Engine!Core!Sum
      <4>6. Engine!Core!finished = IF ~AccumulatorOverflows(total) THEN Engine!Core!Sum ELSE Bubble
        BY <3>1, <4>2, <4>3 DEF Engine!Core!finished, Engine!Core!accumulator_overflow
      <4>7. accumulator' = OpenAt(total, i + 1)
        BY <4>1, <4>4 DEF OpenAt
      <4>8. SumAt(total, channel, i + 1) =
              IF ~AccumulatorOverflows(total) THEN Engine!Core!Sum ELSE Bubble
        BY <4>1, <4>5 DEF SumAt
      <4>. QED  BY <4>6, <4>7, <4>8
    <3>3. CASE i # INPUT_CHANNELS - 1
      <4>1. i + 1 # INPUT_CHANNELS /\ i + 1 \in 1 .. INPUT_CHANNELS - 1
        BY <1>1, <2>2, <3>3, Shape
      <4>2. ~Engine!Core!summand.last
        BY <3>1, <3>3
      <4>3. accumulator' = Prefix(total, i + 1)
        BY <3>1, <4>2 DEF Engine!Core!CoreEdge, Engine!Core!Accumulate
      <4>4. Engine!Core!finished = Bubble
        BY <4>2 DEF Engine!Core!finished
      <4>. QED  BY <4>1, <4>3, <4>4 DEF OpenAt, SumAt, Prefix
    <3>. QED  BY <3>2, <3>3
  <2>. QED  BY <2>1, <2>2
<1>4. /\ lane_stage' = << BeatAt(total, channel, f), BeatAt(total, channel, f - 1),
                          BeatAt(total, channel, f - 2) >>
      /\ post_stage' = << SumAt(total, channel, f - 2), SumAt(total, channel, f - 3),
                          SumAt(total, channel, f - 4), SumAt(total, channel, f - 5) >>
      /\ result' = SumAt(total, channel, f - 6)
      /\ accumulator' = OpenAt(total, f - 2)
  BY <1>1, <1>2, <1>3 DEF Engine!Core!CoreEdge, Engine!Core!PostProcess
<1>. QED  BY <1>1, <1>4 DEF Pipeline

(* A pipeline that nothing was fed to stays empty, and is one that the     *)
(* first beat has not reached, or that every beat has left.                *)
LEMMA DrainedStep ==
  ASSUME Drained(lane_stage, accumulator, post_stage, Bubble), Engine!Core!CoreEdge(Bubble)
  PROVE  Drained(lane_stage', accumulator', post_stage', result')
<1>1. lane_stage[3] = Bubble /\ Engine!Core!summand = Bubble
  BY DEF Drained, Engine!Core!summand
<1>2. accumulator' = accumulator /\ Engine!Core!finished = Bubble
  BY <1>1 DEF Engine!Core!CoreEdge, Engine!Core!Accumulate, Engine!Core!finished
<1>. QED  BY <1>2 DEF Drained, Engine!Core!CoreEdge, Engine!Core!PostProcess

LEMMA DrainedIsUnfed ==
  ASSUME NEW total, NEW channel, NEW lanes, NEW open, NEW post, NEW answer,
         Drained(lanes, open, post, answer)
  PROVE  Pipeline(total, channel, 0, lanes, open, post, answer)
<1>1. \A i \in {0 - 1, 0 - 2, 0 - 3} : BeatAt(total, channel, i) = Bubble
  BY Shape DEF BeatAt
<1>2. OpenAt(total, 0 - 3) = << >>
  BY Shape DEF OpenAt
<1>3. \A i \in {0 - 3, 0 - 4, 0 - 5, 0 - 6, 0 - 7} : SumAt(total, channel, i) = Bubble
  BY Shape DEF SumAt
<1>. QED  BY <1>1, <1>2, <1>3 DEF Drained, Pipeline

LEMMA AnsweredIsDrained ==
  ASSUME NEW total \in SumsOfLayer, NEW channel \in Nat, NEW f \in Nat,
         NEW lanes, NEW open, NEW post, NEW answer,
         Pipeline(total, channel, f, lanes, open, post, answer), answer # Bubble
  PROVE  /\ f = INPUT_CHANNELS + 7
         /\ answer = [sum |-> total, settings |-> channel,
                      overflow |-> BiasOverflows(total, channel)]
         /\ lanes = << Bubble, Bubble, Bubble >> /\ open = << >>
         /\ post = << Bubble, Bubble, Bubble, Bubble >>
<1>1. /\ f = INPUT_CHANNELS + 7
      /\ answer = [sum |-> total, settings |-> channel,
                   overflow |-> BiasOverflows(total, channel)]
  BY Shape DEF Pipeline, SumAt
<1>2. \A i \in {f - 1, f - 2, f - 3} : BeatAt(total, channel, i) = Bubble
  BY <1>1, Shape DEF BeatAt
<1>3. OpenAt(total, f - 3) = << >>
  BY <1>1, Shape DEF OpenAt
<1>4. \A i \in {f - 3, f - 4, f - 5, f - 6} : SumAt(total, channel, i) = Bubble
  BY <1>1, Shape DEF SumAt
<1>. QED  BY <1>1, <1>2, <1>3, <1>4 DEF Pipeline

-----------------------------------------------------------------------------
(* The steps of the engine inside the accelerator. *)
EngineStep ==
  \/ Engine!Reset \/ Engine!StayIdle \/ Engine!Start \/ Engine!Starve
  \/ Engine!LoadWeight \/ Engine!LoadActivation
  \/ Engine!Compute \/ Engine!AwaitResult \/ Engine!TakeResult
  \/ Engine!StallOutput \/ Engine!AcceptOutput

LEMMA NextIsEngineStep == Next => EngineStep
BY DEF Next, HardReset, Edge, EngineEdge, Engine!Edge, EngineStep

(* The memories: a counter is where its loading has come to, and every     *)
(* word below it is the element of its address.                            *)
LEMMA Counts ==
  /\ Engine!WEIGHT_COUNT \in Nat \ {0} /\ Engine!ACTIVATION_COUNT \in Nat \ {0}
  /\ Engine!OUTPUT_COUNT \in Nat \ {0}
<1>1. \A a, b \in Nat \ {0} : a * b \in Nat \ {0}
  BY Z3
<1>2. 9 \in Nat \ {0}
  OBVIOUS
<1>. HIDE DEF Engine!WEIGHT_COUNT
<1>3. OUTPUT_CHANNELS * INPUT_CHANNELS \in Nat \ {0}
      /\ INPUT_CHANNELS * IMAGE_HEIGHT \in Nat \ {0}
      /\ OUTPUT_CHANNELS * Engine!OUTPUT_HEIGHT \in Nat \ {0}
  BY <1>1, Shape
<1>. QED  BY <1>1, <1>2, <1>3, Shape
     DEF Engine!WEIGHT_COUNT, Engine!ACTIVATION_COUNT, Engine!OUTPUT_COUNT

LEMMA WeightLoaded ==
  ASSUME LoadInv, Engine!LoadWeight
  PROVE  LoadInv'
<1>. DEFINE n == weight_count
            C == Engine!WEIGHT_COUNT
<1>1. /\ state = "LOAD_WEIGHTS" /\ n \in 0 .. C - 1 /\ C \in Nat \ {0}
      /\ sent.weights = n /\ sent.activations = 0 /\ activation_count = 0
      /\ sent \in [weights : Nat, activations : Nat, outputs : Nat]
  BY Counts DEF Engine!LoadWeight, LoadInv, Engine!Addresses
<1>2. /\ sent' \in [weights : Nat, activations : Nat, outputs : Nat]
      /\ sent'.weights = n + 1 /\ sent'.activations = 0
      /\ activations' = activations /\ activation_count' = 0
  BY <1>1 DEF Engine!LoadWeight
<1>3. weights' = [weights EXCEPT ![n] = Engine!WeightElement(n)]
  BY <1>1 DEF Engine!LoadWeight
<1>4. IsMemory(weights, C)'
  <2>1. IsMemory(weights, C)
    BY DEF LoadInv
  <2>. QED  BY <1>3, <2>1 DEF IsMemory
<1>5. ASSUME NEW k \in Engine!Addresses(C), k < n + 1
      PROVE  weights'[k] = Engine!WeightElement(k)
  <2>1. CASE k = n
    <3>1. IsMemory(weights, C)
      BY DEF LoadInv
    <3>. QED  BY <1>3, <2>1, <3>1 DEF IsMemory
  <2>2. CASE k # n
    <3>1. k < n
      BY <1>1, <1>5, <2>2 DEF Engine!Addresses
    <3>2. weights[k] = Engine!WeightElement(k)
      BY <1>1, <3>1 DEF LoadInv
    <3>3. IsMemory(weights, C)
      BY DEF LoadInv
    <3>. QED  BY <1>3, <2>2, <3>2, <3>3 DEF IsMemory
  <2>. QED  BY <2>1, <2>2
<1>6. CASE n = C - 1
  <2>1. state' = "LOAD_ACTIVATIONS" /\ n + 1 = C
    BY <1>1, <1>6 DEF Engine!LoadWeight
  <2>2. 0 \in Engine!Addresses(Engine!ACTIVATION_COUNT)
    BY Counts DEF Engine!Addresses
  <2>3. \A k \in Engine!Addresses(Engine!ACTIVATION_COUNT) : ~(k < 0)
    BY Counts DEF Engine!Addresses
  <2>. QED  BY <1>2, <1>4, <1>5, <2>1, <2>2, <2>3 DEF LoadInv, IsMemory
<1>7. CASE n # C - 1
  <2>1. state' = "LOAD_WEIGHTS" /\ weight_count' = n + 1
    BY <1>1, <1>7 DEF Engine!LoadWeight
  <2>2. n + 1 \in Engine!Addresses(C)
    BY <1>1, <1>7 DEF Engine!Addresses
  <2>3. \A k \in Engine!Addresses(Engine!ACTIVATION_COUNT) : ~(k < 0)
    BY Counts DEF Engine!Addresses
  <2>. QED  BY <1>2, <1>4, <1>5, <2>1, <2>2, <2>3 DEF LoadInv, IsMemory
<1>. QED  BY <1>6, <1>7

LEMMA ActivationLoaded ==
  ASSUME LoadInv, Engine!LoadActivation
  PROVE  LoadInv'
<1>. DEFINE n == activation_count
            C == Engine!ACTIVATION_COUNT
<1>1. /\ state = "LOAD_ACTIVATIONS" /\ n \in 0 .. C - 1 /\ C \in Nat \ {0}
      /\ sent.weights = Engine!WEIGHT_COUNT /\ sent.activations = n
      /\ sent \in [weights : Nat, activations : Nat, outputs : Nat]
  BY Counts DEF Engine!LoadActivation, LoadInv, Engine!Addresses
<1>2. /\ sent' \in [weights : Nat, activations : Nat, outputs : Nat]
      /\ sent'.weights = Engine!WEIGHT_COUNT /\ sent'.activations = n + 1
      /\ weights' = weights
  BY <1>1 DEF Engine!LoadActivation
<1>3. activations' = [activations EXCEPT ![n] = Engine!ActivationElement(n)]
  BY <1>1 DEF Engine!LoadActivation
<1>4. IsMemory(activations, C)'
  <2>1. IsMemory(activations, C)
    BY DEF LoadInv
  <2>. QED  BY <1>3, <2>1 DEF IsMemory
<1>5. ASSUME NEW k \in Engine!Addresses(C), k < n + 1
      PROVE  activations'[k] = Engine!ActivationElement(k)
  <2>1. CASE k = n
    <3>1. IsMemory(activations, C)
      BY DEF LoadInv
    <3>. QED  BY <1>3, <2>1, <3>1 DEF IsMemory
  <2>2. CASE k # n
    <3>1. k < n
      BY <1>1, <1>5, <2>2 DEF Engine!Addresses
    <3>2. activations[k] = Engine!ActivationElement(k)
      BY <1>1, <3>1 DEF LoadInv
    <3>3. IsMemory(activations, C)
      BY DEF LoadInv
    <3>. QED  BY <1>3, <2>2, <3>2, <3>3 DEF IsMemory
  <2>. QED  BY <2>1, <2>2
<1>6. CASE n = C - 1
  <2>1. state' = "COMPUTE" /\ n + 1 = C
    BY <1>1, <1>6 DEF Engine!LoadActivation
  <2>. QED  BY <1>1, <1>2, <1>4, <1>5, <2>1 DEF LoadInv, IsMemory
<1>7. CASE n # C - 1
  <2>1. state' = "LOAD_ACTIVATIONS" /\ activation_count' = n + 1
    BY <1>1, <1>7 DEF Engine!LoadActivation
  <2>2. n + 1 \in Engine!Addresses(C)
    BY <1>1, <1>7 DEF Engine!Addresses
  <2>. QED  BY <1>1, <1>2, <1>4, <1>5, <2>1, <2>2 DEF LoadInv, IsMemory
<1>. QED  BY <1>6, <1>7

(* A reset and a start forget both memories.                               *)
LEMMA ForgottenLoad ==
  ASSUME state' \in {"IDLE", "LOAD_WEIGHTS"}, weight_count' = 0, activation_count' = 0,
         weights' = [k \in Engine!Addresses(Engine!WEIGHT_COUNT) |-> Stale],
         activations' = [k \in Engine!Addresses(Engine!ACTIVATION_COUNT) |-> Stale],
         sent' = Engine!Nothing
  PROVE  LoadInv'
<1>1. /\ sent' \in [weights : Nat, activations : Nat, outputs : Nat]
      /\ sent'.weights = 0 /\ sent'.activations = 0
  BY DEF Engine!Nothing
<1>2. /\ 0 \in Engine!Addresses(Engine!WEIGHT_COUNT)
      /\ \A k \in Engine!Addresses(Engine!WEIGHT_COUNT) : ~(k < 0)
      /\ \A k \in Engine!Addresses(Engine!ACTIVATION_COUNT) : ~(k < 0)
  BY Counts DEF Engine!Addresses
<1>. QED  BY <1>1, <1>2 DEF LoadInv, IsMemory

LEMMA LoadPreserved ==
  ASSUME LoadInv, state \in States, EngineStep
  PROVE  LoadInv'
<1>1. CASE Engine!Reset
  BY <1>1, ForgottenLoad DEF Engine!Reset
<1>2. CASE Engine!Start
  BY <1>2, ForgottenLoad DEF Engine!Start
<1>3. CASE Engine!LoadWeight
  BY <1>3, WeightLoaded
<1>4. CASE Engine!LoadActivation
  BY <1>4, ActivationLoaded
<1>5. CASE Engine!AcceptOutput
  <2>1. /\ state = "OUTPUT" /\ state' \in {"IDLE", "COMPUTE"}
        /\ UNCHANGED << weights, activations, weight_count, activation_count >>
        /\ sent' = [sent EXCEPT !.outputs = @ + 1]
    BY <1>5 DEF Engine!AcceptOutput, Engine!memories, Engine!counts
  <2>2. sent \in [weights : Nat, activations : Nat, outputs : Nat]
    BY DEF LoadInv
  <2>3. /\ sent' \in [weights : Nat, activations : Nat, outputs : Nat]
        /\ sent'.weights = sent.weights /\ sent'.activations = sent.activations
    BY <2>1, <2>2
  <2>. QED  BY <2>1, <2>3 DEF LoadInv, IsMemory
<1>6. CASE \/ Engine!StayIdle \/ Engine!Starve \/ Engine!StallOutput \/ Engine!AwaitResult
           \/ Engine!Compute \/ Engine!TakeResult
  <2>1. /\ UNCHANGED << weights, activations, weight_count, activation_count, sent >>
        /\ state' = state \/ {state, state'} \subseteq {"COMPUTE", "WAIT_RESULT", "OUTPUT"}
    BY <1>6 DEF Engine!StayIdle, Engine!Starve, Engine!StallOutput, Engine!AwaitResult,
       Engine!Compute, Engine!TakeResult, Engine!memories, Engine!counts
  <2>. QED  BY <2>1 DEF LoadInv, IsMemory
<1>. QED  BY <1>1, <1>2, <1>3, <1>4, <1>5, <1>6 DEF EngineStep

-----------------------------------------------------------------------------
(* The position: its number in raster order is the number of outputs       *)
(* accepted in this run.                                                   *)
LEMMA PositionAdvanced ==
  ASSUME PositionInv, LoadInv, OutputInv, Engine!AcceptOutput
  PROVE  PositionInv'
<1>. DEFINE oc == output_channel
            y  == output_y
            x  == output_x
            H  == Engine!OUTPUT_HEIGHT
            W  == Engine!OUTPUT_WIDTH
<1>1. /\ state = "OUTPUT"
      /\ oc \in 0 .. OUTPUT_CHANNELS - 1 /\ y \in 0 .. H - 1 /\ x \in 0 .. W - 1
      /\ H \in Nat \ {0} /\ W \in Nat \ {0} /\ OUTPUT_CHANNELS \in Nat \ {0}
      /\ sent.outputs = Index(oc, y, x)
  BY Shape DEF Engine!AcceptOutput, PositionInv, Engine!Addresses
<1>2. sent'.outputs = Index(oc, y, x) + 1
  BY <1>1 DEF Engine!AcceptOutput, LoadInv
<1>3. output.last <=> oc = OUTPUT_CHANNELS - 1 /\ y = H - 1 /\ x = W - 1
  <2>1. output.last = (sent.outputs = Engine!OUTPUT_COUNT - 1)
    BY <1>1 DEF OutputInv
  <2>2. Index(oc, y, x) = Engine!OUTPUT_COUNT - 1
          <=> oc = OUTPUT_CHANNELS - 1 /\ y = H - 1 /\ x = W - 1
    BY <1>1, LastIndex DEF Engine!Addresses
  <2>. QED  BY <1>1, <2>1, <2>2
<1>4. CASE output.last
  BY <1>4 DEF Engine!AcceptOutput, PositionInv
<1>5. CASE ~output.last
  <2>1. state' = "COMPUTE" /\ Engine!AdvancePosition
    BY <1>5 DEF Engine!AcceptOutput
  <2>2. /\ Index(oc, y, x + 1) = Index(oc, y, x) + 1
        /\ x = W - 1 => Index(oc, y + 1, 0) = Index(oc, y, x) + 1
        /\ x = W - 1 /\ y = H - 1 => Index(oc + 1, 0, 0) = Index(oc, y, x) + 1
    <3>1. oc \in Nat /\ y \in Nat /\ x \in Nat
      BY <1>1
    <3>. QED  BY <3>1, NextIndex
  <2>3. CASE x # W - 1
    <3>1. output_x' = x + 1 /\ output_y' = y /\ output_channel' = oc
      BY <2>1, <2>3 DEF Engine!AdvancePosition
    <3>2. x + 1 \in 0 .. W - 1
      BY <1>1, <2>3
    <3>. QED  BY <1>1, <1>2, <2>1, <2>2, <3>1, <3>2 DEF PositionInv, Engine!Addresses
  <2>4. CASE x = W - 1 /\ y # H - 1
    <3>1. output_x' = 0 /\ output_y' = y + 1 /\ output_channel' = oc
      BY <2>1, <2>4 DEF Engine!AdvancePosition
    <3>2. 0 \in 0 .. W - 1 /\ y + 1 \in 0 .. H - 1
      BY <1>1, <2>4
    <3>. QED  BY <1>1, <1>2, <2>1, <2>2, <2>4, <3>1, <3>2 DEF PositionInv, Engine!Addresses
  <2>5. CASE x = W - 1 /\ y = H - 1
    <3>1. output_x' = 0 /\ output_y' = 0 /\ output_channel' = oc + 1
      BY <2>1, <2>5 DEF Engine!AdvancePosition
    <3>2. 0 \in 0 .. W - 1 /\ 0 \in 0 .. H - 1 /\ oc + 1 \in 0 .. OUTPUT_CHANNELS - 1
      BY <1>1, <1>3, <1>5, <2>5
    <3>. QED  BY <1>2, <2>1, <2>2, <2>5, <3>1, <3>2 DEF PositionInv, Engine!Addresses
  <2>. QED  BY <2>3, <2>4, <2>5
<1>. QED  BY <1>4, <1>5

LEMMA PositionPreserved ==
  ASSUME PositionInv, LoadInv, OutputInv, state \in States, EngineStep
  PROVE  PositionInv'
<1>1. CASE Engine!Reset \/ Engine!StayIdle
  BY <1>1 DEF Engine!Reset, Engine!StayIdle, PositionInv
<1>2. CASE Engine!Start
  <2>1. /\ state' = "LOAD_WEIGHTS"
        /\ output_channel' = 0 /\ output_y' = 0 /\ output_x' = 0 /\ sent'.outputs = 0
    BY <1>2 DEF Engine!Start, Engine!Nothing
  <2>2. /\ 0 \in Engine!Addresses(OUTPUT_CHANNELS)
        /\ 0 \in Engine!Addresses(Engine!OUTPUT_HEIGHT)
        /\ 0 \in Engine!Addresses(Engine!OUTPUT_WIDTH)
    BY Shape DEF Engine!Addresses
  <2>3. Index(0, 0, 0) = 0
    BY NextIndex
  <2>. QED  BY <2>1, <2>2, <2>3 DEF PositionInv
<1>3. CASE Engine!LoadWeight \/ Engine!LoadActivation
  <2>1. /\ state \in {"LOAD_WEIGHTS", "LOAD_ACTIVATIONS"}
        /\ UNCHANGED << output_channel, output_y, output_x >>
        /\ sent'.outputs = sent.outputs
    BY <1>3 DEF Engine!LoadWeight, Engine!LoadActivation, Engine!position, LoadInv
  <2>. QED  BY <2>1 DEF PositionInv
<1>4. CASE Engine!AcceptOutput
  BY <1>4, PositionAdvanced
<1>5. CASE \/ Engine!Starve \/ Engine!StallOutput \/ Engine!AwaitResult
           \/ Engine!Compute \/ Engine!TakeResult
  <2>1. /\ UNCHANGED << output_channel, output_y, output_x, sent >>
        /\ state # "IDLE"
        /\ state' = state \/ state' \in {"WAIT_RESULT", "OUTPUT"}
    BY <1>5 DEF Engine!Starve, Engine!StallOutput, Engine!AwaitResult,
       Engine!Compute, Engine!TakeResult, Engine!position
  <2>. QED  BY <2>1 DEF PositionInv
<1>. QED  BY <1>1, <1>2, <1>3, <1>4, <1>5 DEF EngineStep

-----------------------------------------------------------------------------
(* The facts of the present position that the pipeline needs. *)
LEMMA ThisSumIsSum ==
  ASSUME PositionInv, state # "IDLE"
  PROVE  /\ ThisSum \in SumsOfLayer /\ output_channel \in Nat
         /\ BiasOverflows(ThisSum, output_channel) \in BOOLEAN
<1>1. /\ output_channel \in 0 .. OUTPUT_CHANNELS - 1
      /\ output_y \in 0 .. IMAGE_HEIGHT - 3 /\ output_x \in 0 .. IMAGE_WIDTH - 3
  BY Shape DEF PositionInv, Engine!Addresses
<1>2. output_channel \in Nat /\ output_y \in Nat /\ output_x \in Nat
  BY <1>1, Shape
<1>. QED  BY <1>1, <1>2, ReferenceIsSum, OverflowAssumption DEF OverflowAssumption, ThisSum

LEMMA PipelineFed ==
  ASSUME PositionInv, state # "IDLE", NEW f \in Nat,
         Pipeline(ThisSum, output_channel, f, lane_stage, accumulator, post_stage, result),
         Engine!Core!CoreEdge(BeatAt(ThisSum, output_channel, f)),
         UNCHANGED << output_channel, output_y, output_x >>
  PROVE  /\ f + 1 \in Nat
         /\ Pipeline(ThisSum', output_channel', f + 1,
                     lane_stage', accumulator', post_stage', result')
<1>1. Pipeline(ThisSum, output_channel, f + 1, lane_stage', accumulator', post_stage', result')
  BY ThisSumIsSum, PipelineStep
<1>. QED  BY <1>1 DEF ThisSum

(* An answer is taken only when it is the present position's.              *)
LEMMA AnswerTaken ==
  ASSUME PositionInv, PipelineInv, state = "WAIT_RESULT", result # Bubble
  PROVE  /\ result = [sum |-> ThisSum, settings |-> output_channel,
                      overflow |-> BiasOverflows(ThisSum, output_channel)]
         /\ lane_stage = << Bubble, Bubble, Bubble >> /\ accumulator = << >>
         /\ post_stage = << Bubble, Bubble, Bubble, Bubble >>
         /\ Engine!core_result = Engine!Answer(sent.outputs)
         /\ Engine!core_result \in {Zero} \cup [sum : SumsOfLayer, settings : Nat]
         /\ Engine!core_result = Zero => result.overflow
         /\ Engine!output_is_last <=> sent.outputs = Engine!OUTPUT_COUNT - 1
<1>1. PICK f \in Nat :
        Pipeline(ThisSum, output_channel, f, lane_stage, accumulator, post_stage, result)
  BY DEF PipelineInv
<1>2. /\ ThisSum \in SumsOfLayer /\ output_channel \in Nat
      /\ BiasOverflows(ThisSum, output_channel) \in BOOLEAN
  BY ThisSumIsSum
<1>3. /\ result = [sum |-> ThisSum, settings |-> output_channel,
                   overflow |-> BiasOverflows(ThisSum, output_channel)]
      /\ lane_stage = << Bubble, Bubble, Bubble >> /\ accumulator = << >>
      /\ post_stage = << Bubble, Bubble, Bubble, Bubble >>
  BY <1>1, <1>2, AnsweredIsDrained
<1>4. /\ output_channel \in Engine!Addresses(OUTPUT_CHANNELS)
      /\ output_y \in Engine!Addresses(Engine!OUTPUT_HEIGHT)
      /\ output_x \in Engine!Addresses(Engine!OUTPUT_WIDTH)
      /\ sent.outputs = Index(output_channel, output_y, output_x)
  BY DEF PositionInv
<1>5. /\ result.sum = ThisSum /\ result.settings = output_channel
      /\ result.overflow = BiasOverflows(ThisSum, output_channel)
  BY <1>3
<1>6. Engine!core_result = IF BiasOverflows(ThisSum, output_channel) THEN Zero
                           ELSE [sum |-> ThisSum, settings |-> output_channel]
  BY <1>5 DEF Engine!core_result
<1>7. Engine!core_result = Engine!Answer(sent.outputs)
  BY <1>4, <1>6, RasterOrder DEF ThisSum
<1>8. [sum |-> ThisSum, settings |-> output_channel] \in [sum : SumsOfLayer, settings : Nat]
  BY <1>2
<1>9. /\ Engine!core_result \in {Zero} \cup [sum : SumsOfLayer, settings : Nat]
      /\ Engine!core_result = Zero => result.overflow
  <2>. DEFINE answer == [sum |-> ThisSum, settings |-> output_channel]
  <2>1. answer # Zero
    BY <1>8, SymbolAssumption DEF SymbolAssumption
  <2>. HIDE DEF answer
  <2>2. CASE BiasOverflows(ThisSum, output_channel)
    BY <1>5, <1>6, <2>2
  <2>3. CASE ~BiasOverflows(ThisSum, output_channel)
    BY <1>6, <1>8, <2>1, <2>3 DEF answer
  <2>. QED  BY <2>2, <2>3
<1>10. Engine!output_is_last <=> sent.outputs = Engine!OUTPUT_COUNT - 1
  BY <1>4, LastIndex DEF Engine!output_is_last
<1>. QED  BY <1>3, <1>7, <1>9, <1>10

LEMMA OutputPreserved ==
  ASSUME EngineInv, EngineStep
  PROVE  OutputInv'
<1>1. /\ state \in States /\ done \in BOOLEAN /\ (done => state = "IDLE")
      /\ state # "OUTPUT" => output = Bubble
  BY DEF EngineInv, OutputInv
<1>2. CASE Engine!Reset
  BY <1>2 DEF Engine!Reset, OutputInv, Engine!NoOutput
<1>3. CASE \/ Engine!StayIdle \/ Engine!Start \/ Engine!Starve \/ Engine!LoadWeight
           \/ Engine!LoadActivation \/ Engine!Compute \/ Engine!AwaitResult
  <2>1. state # "OUTPUT" /\ state' # "OUTPUT" /\ output' = output /\ done' = FALSE
    BY <1>3 DEF Engine!StayIdle, Engine!Start, Engine!Starve, Engine!LoadWeight,
       Engine!LoadActivation, Engine!Compute, Engine!AwaitResult
  <2>. QED  BY <1>1, <2>1 DEF OutputInv
<1>4. CASE Engine!StallOutput
  BY <1>4 DEF Engine!StallOutput, EngineInv, OutputInv
<1>5. CASE Engine!AcceptOutput
  <2>1. /\ output' = Bubble /\ done' \in BOOLEAN
        /\ state' \in {"IDLE", "COMPUTE"} /\ (done' => state' = "IDLE")
    BY <1>5 DEF Engine!AcceptOutput, Engine!NoOutput
  <2>. QED  BY <2>1 DEF OutputInv
<1>6. CASE Engine!TakeResult
  <2>1. /\ state = "WAIT_RESULT" /\ state' = "OUTPUT" /\ result # Bubble
        /\ output' = [data |-> Engine!core_result, last |-> Engine!output_is_last]
        /\ done' = FALSE /\ sent' = sent
    BY <1>6 DEF Engine!TakeResult, Engine!Core!core_valid
  <2>2. /\ Engine!core_result = Engine!Answer(sent.outputs)
        /\ Engine!core_result = Zero => result.overflow
        /\ Engine!output_is_last <=> sent.outputs = Engine!OUTPUT_COUNT - 1
    BY <2>1, AnswerTaken DEF EngineInv
  <2>3. Engine!output_is_last = (sent.outputs = Engine!OUTPUT_COUNT - 1)
    BY <2>2 DEF Engine!output_is_last
  <2>4. output' = [data |-> Engine!Answer(sent'.outputs),
                   last |-> sent'.outputs = Engine!OUTPUT_COUNT - 1]
    BY <2>1, <2>2, <2>3
  <2>5. result.overflow => overflow'
    BY <1>6, <2>1 DEF Engine!TakeResult, Engine!NoteOverflow, Engine!Core!core_overflow
  <2>6. output'.data = Engine!core_result
    BY <2>1
  <2>. QED  BY <2>1, <2>2, <2>4, <2>5, <2>6 DEF OutputInv
<1>. QED  BY <1>2, <1>3, <1>4, <1>5, <1>6 DEF EngineStep

LEMMA PipelineReset ==
  ASSUME Engine!Core!CoreReset
  PROVE  Drained(lane_stage', accumulator', post_stage', result')
BY DEF Engine!Core!CoreReset, Drained

LEMMA PipelinePreserved ==
  ASSUME EngineInv, EngineStep
  PROVE  PipelineInv'
<1>1. LoadInv /\ PositionInv /\ PipelineInv /\ state \in States
  BY DEF EngineInv
<1>2. CASE Engine!Reset
  BY <1>2, PipelineReset DEF Engine!Reset, PipelineInv
<1>3. CASE \/ Engine!StayIdle \/ Engine!Start \/ Engine!Starve \/ Engine!LoadWeight
           \/ Engine!LoadActivation \/ Engine!StallOutput \/ Engine!AcceptOutput
  <2>1. state \notin {"COMPUTE", "WAIT_RESULT"} /\ Engine!Core!CoreEdge(Bubble)
    BY <1>3 DEF Engine!StayIdle, Engine!Start, Engine!Starve, Engine!LoadWeight,
       Engine!LoadActivation, Engine!StallOutput, Engine!AcceptOutput, Engine!FeedBubble
  <2>2. Drained(lane_stage', accumulator', post_stage', result')
    BY <1>1, <2>1, DrainedStep DEF PipelineInv, Drained
  <2>3. /\ state' # "WAIT_RESULT"
        /\ state' \in {"COMPUTE", "OUTPUT"} => input_channel' = 0
    BY <1>1, <1>3 DEF Engine!StayIdle, Engine!Start, Engine!Starve, Engine!LoadWeight,
       Engine!LoadActivation, Engine!StallOutput, Engine!AcceptOutput, Engine!position,
       PipelineInv
  <2>4. Pipeline(ThisSum', output_channel', 0, lane_stage', accumulator', post_stage', result')
    BY <2>2, DrainedIsUnfed
  <2>5. 0 \in Engine!Addresses(INPUT_CHANNELS)
    BY Shape DEF Engine!Addresses
  <2>. QED  BY <2>2, <2>3, <2>4, <2>5 DEF PipelineInv
<1>4. CASE Engine!Compute
  <2>1. /\ state = "COMPUTE" /\ input_channel \in 0 .. INPUT_CHANNELS - 1
        /\ INPUT_CHANNELS \in Nat \ {0} /\ input_channel \in Nat
        /\ Pipeline(ThisSum, output_channel, input_channel,
                    lane_stage, accumulator, post_stage, result)
    BY <1>1, <1>4, Shape DEF Engine!Compute, PipelineInv, Engine!Addresses
  <2>2. /\ Engine!Core!CoreEdge(BeatAt(ThisSum, output_channel, input_channel))
        /\ UNCHANGED << output_channel, output_y, output_x >>
    BY <1>1, <1>4, <2>1, BeatIsReference DEF Engine!Compute, Engine!Addresses
  <2>3. Pipeline(ThisSum', output_channel', input_channel + 1,
                 lane_stage', accumulator', post_stage', result')
    BY <1>1, <2>1, <2>2, PipelineFed
  <2>4. CASE input_channel = INPUT_CHANNELS - 1
    <3>1. state' = "WAIT_RESULT" /\ input_channel' = 0
      BY <1>4, <2>4 DEF Engine!Compute
    <3>2. input_channel + 1 \in Nat /\ input_channel + 1 >= INPUT_CHANNELS
      BY <2>1, <2>4
    <3>. QED  BY <2>3, <3>1, <3>2 DEF PipelineInv
  <2>5. CASE input_channel # INPUT_CHANNELS - 1
    <3>1. state' = "COMPUTE" /\ input_channel' = input_channel + 1
      BY <1>4, <2>5 DEF Engine!Compute
    <3>2. input_channel + 1 \in Engine!Addresses(INPUT_CHANNELS)
      BY <2>1, <2>5 DEF Engine!Addresses
    <3>. QED  BY <2>3, <3>1, <3>2 DEF PipelineInv
  <2>. QED  BY <2>4, <2>5
<1>5. CASE Engine!AwaitResult
  <2>1. /\ state = "WAIT_RESULT" /\ state' = "WAIT_RESULT"
        /\ Engine!Core!CoreEdge(Bubble)
        /\ UNCHANGED << output_channel, output_y, output_x, input_channel >>
    BY <1>5 DEF Engine!AwaitResult, Engine!FeedBubble, Engine!position
  <2>2. PICK f \in Nat :
          /\ f >= INPUT_CHANNELS
          /\ Pipeline(ThisSum, output_channel, f, lane_stage, accumulator, post_stage, result)
    BY <1>1, <2>1 DEF PipelineInv
  <2>3. BeatAt(ThisSum, output_channel, f) = Bubble
    BY <2>2, Shape DEF BeatAt
  <2>4. /\ f + 1 \in Nat
        /\ Pipeline(ThisSum', output_channel', f + 1,
                    lane_stage', accumulator', post_stage', result')
    BY <1>1, <2>1, <2>2, <2>3, PipelineFed
  <2>5. f + 1 >= INPUT_CHANNELS
    BY <2>2, Shape
  <2>. QED  BY <1>1, <2>1, <2>4, <2>5 DEF PipelineInv
<1>6. CASE Engine!TakeResult
  <2>1. /\ state = "WAIT_RESULT" /\ state' = "OUTPUT" /\ result # Bubble
        /\ Engine!Core!CoreEdge(Bubble) /\ input_channel' = input_channel
    BY <1>6 DEF Engine!TakeResult, Engine!Core!core_valid, Engine!FeedBubble, Engine!position
  <2>2. Drained(lane_stage, accumulator, post_stage, Bubble)
    BY <1>1, <2>1, AnswerTaken DEF Drained
  <2>3. Drained(lane_stage', accumulator', post_stage', result')
    BY <2>1, <2>2, DrainedStep
  <2>. QED  BY <1>1, <2>1, <2>3 DEF PipelineInv
<1>. QED  BY <1>2, <1>3, <1>4, <1>5, <1>6 DEF EngineStep

-----------------------------------------------------------------------------
LEMMA InitIsEngineInv == Init => EngineInv
<1>. SUFFICES ASSUME Init PROVE EngineInv
  OBVIOUS
<1>1. Engine!Init
  BY DEF Init
<1>2. LoadInv
  <2>1. /\ sent \in [weights : Nat, activations : Nat, outputs : Nat]
        /\ sent.weights = 0 /\ sent.activations = 0
    BY <1>1 DEF Engine!Init, Engine!Nothing
  <2>2. /\ \A k \in Engine!Addresses(Engine!WEIGHT_COUNT) : ~(k < 0)
        /\ \A k \in Engine!Addresses(Engine!ACTIVATION_COUNT) : ~(k < 0)
    BY Counts DEF Engine!Addresses
  <2>. QED  BY <1>1, <2>1, <2>2 DEF Engine!Init, LoadInv, IsMemory
<1>3. PositionInv /\ OutputInv
  BY <1>1 DEF Engine!Init, PositionInv, OutputInv, Engine!NoOutput
<1>4. Drained(lane_stage, accumulator, post_stage, result)
  BY <1>1 DEF Engine!Init, Engine!Core!CoreInit, Drained
<1>. QED  BY <1>1, <1>2, <1>3, <1>4 DEF Engine!Init, EngineInv, PipelineInv, States

LEMMA NextKeepsEngineInv == EngineInv /\ [Next]_vars => EngineInv'
<1>. SUFFICES ASSUME EngineInv, [Next]_vars PROVE EngineInv'
  OBVIOUS
<1>1. CASE EngineStep
  <2>1. state' \in States
    BY <1>1 DEF EngineInv, EngineStep, Engine!Reset, Engine!StayIdle, Engine!Start,
       Engine!Starve, Engine!LoadWeight, Engine!LoadActivation, Engine!Compute,
       Engine!AwaitResult, Engine!TakeResult, Engine!StallOutput, Engine!AcceptOutput, States
  <2>2. LoadInv' /\ PositionInv'
    BY <1>1, LoadPreserved, PositionPreserved DEF EngineInv
  <2>3. OutputInv' /\ PipelineInv'
    BY <1>1, OutputPreserved, PipelinePreserved
  <2>. QED  BY <2>1, <2>2, <2>3 DEF EngineInv
<1>2. CASE UNCHANGED vars
  <2>1. UNCHANGED << state, weights, activations, weight_count, activation_count,
                     input_channel, output_channel, output_x, output_y, output, done,
                     overflow, lane_stage, accumulator, post_stage, result, sent >>
    BY <1>2 DEF vars, Engine!vars, Engine!memories, Engine!counts, Engine!position,
       Engine!coreVars
  <2>2. LoadInv' /\ PositionInv' /\ OutputInv'
    BY <2>1 DEF EngineInv, LoadInv, PositionInv, OutputInv, IsMemory
  <2>3. PipelineInv'
    BY <2>1 DEF EngineInv, PipelineInv, ThisSum
  <2>. QED  BY <2>1, <2>2, <2>3 DEF EngineInv
<1>. QED  BY <1>1, <1>2, NextIsEngineStep

(* The inductive invariant of the engine: what is loaded, which output is  *)
(* computed and which beats of its sum stand in which stage.               *)
THEOREM EngineInvariant == Spec => []EngineInv
BY InitIsEngineInv, NextKeepsEngineInv, PTL DEF Spec

(* No result of an aborted run or of an earlier position is left in the    *)
(* pipeline when the next one begins.                                      *)
THEOREM PipelineIsClean == Spec => []NothingInFlight
<1>1. EngineInv => NothingInFlight
  <2>. SUFFICES ASSUME EngineInv,
                       state \in {"IDLE", "LOAD_WEIGHTS", "LOAD_ACTIVATIONS", "OUTPUT"}
                PROVE  /\ lane_stage = [s \in 1 .. 3 |-> Bubble]
                       /\ post_stage = [s \in 1 .. 4 |-> Bubble]
                       /\ state # "OUTPUT" => result = Bubble
                       /\ accumulator = << >>
    BY DEF NothingInFlight, Engine!NothingInFlight
  <2>. QED  BY DEF EngineInv, PipelineInv, Drained
<1>. QED  BY <1>1, EngineInvariant, PTL

(* No output is made from a bias overflow without the overflow flag.       *)
THEOREM OverflowIsReported == Spec => []BiasOverflowReported
<1>1. EngineInv => BiasOverflowReported
  BY DEF EngineInv, OutputInv, BiasOverflowReported, Engine!BiasOverflowReported,
     Engine!NoOutput
<1>. QED  BY <1>1, EngineInvariant, PTL

-----------------------------------------------------------------------------
(* The engine as the layer service: a step of the one is a step of the     *)
(* other, or changes nothing its client sees.                              *)
LEMMA PhaseIs ==
  ASSUME state \in States
  PROVE  /\ state = "IDLE" => Engine!phase = "idle"
         /\ state = "LOAD_WEIGHTS" => Engine!phase = "weights"
         /\ state = "LOAD_ACTIVATIONS" => Engine!phase = "activations"
         /\ state \in {"COMPUTE", "WAIT_RESULT", "OUTPUT"} => Engine!phase = "answers"
BY DEF States, Engine!phase

LEMMA PhaseWillBe ==
  ASSUME state' \in States
  PROVE  /\ state' = "IDLE" => Engine!phase' = "idle"
         /\ state' = "LOAD_WEIGHTS" => Engine!phase' = "weights"
         /\ state' = "LOAD_ACTIVATIONS" => Engine!phase' = "activations"
         /\ state' \in {"COMPUTE", "WAIT_RESULT", "OUTPUT"} => Engine!phase' = "answers"
BY DEF States, Engine!phase

LEMMA OfferIsAnOffer ==
  ASSUME EngineInv
  PROVE  /\ state = "OUTPUT" => output # Bubble
         /\ state = "OUTPUT" => output.last = (sent.outputs = Engine!OUTPUT_COUNT - 1)
<1>. SUFFICES ASSUME state = "OUTPUT"
              PROVE  output # Bubble
                     /\ output.last = (sent.outputs = Engine!OUTPUT_COUNT - 1)
  OBVIOUS
<1>1. output = [data |-> Engine!Answer(sent.outputs),
                last |-> sent.outputs = Engine!OUTPUT_COUNT - 1]
  BY DEF EngineInv, OutputInv
<1>2. Engine!Answer(sent.outputs) \in {Zero} \cup [sum : SumsOfLayer, settings : Nat]
  <2>1. /\ output_channel \in Engine!Addresses(OUTPUT_CHANNELS)
        /\ output_y \in Engine!Addresses(Engine!OUTPUT_HEIGHT)
        /\ output_x \in Engine!Addresses(Engine!OUTPUT_WIDTH)
        /\ sent.outputs = Index(output_channel, output_y, output_x)
    BY DEF EngineInv, PositionInv
  <2>2. ThisSum \in SumsOfLayer /\ output_channel \in Nat
    BY ThisSumIsSum DEF EngineInv
  <2>3. Engine!Answer(sent.outputs) =
          IF BiasOverflows(ThisSum, output_channel) THEN Zero
          ELSE [sum |-> ThisSum, settings |-> output_channel]
    BY <2>1, RasterOrder DEF ThisSum
  <2>4. [sum |-> ThisSum, settings |-> output_channel] \in [sum : SumsOfLayer, settings : Nat]
    BY <2>2
  <2>. QED  BY <2>3, <2>4
<1>3. output \in [data : {Zero} \cup [sum : SumsOfLayer, settings : Nat], last : BOOLEAN]
  BY <1>1, <1>2
<1>. QED  BY <1>1, <1>3, SymbolAssumption DEF SymbolAssumption

LEMMA AcceptanceIsServed ==
  ASSUME EngineInv, Engine!AcceptOutput
  PROVE  Engine!Layer!Accept
<1>1. /\ state = "OUTPUT" /\ output # Bubble /\ output' = Bubble
      /\ sent \in [weights : Nat, activations : Nat, outputs : Nat]
      /\ sent' = [sent EXCEPT !.outputs = @ + 1]
      /\ output.last = (sent.outputs = Engine!OUTPUT_COUNT - 1)
  BY OfferIsAnOffer DEF Engine!AcceptOutput, EngineInv, LoadInv, Engine!NoOutput
<1>2. /\ sent'.outputs = sent.outputs + 1
      /\ sent'.weights = sent.weights /\ sent'.activations = sent.activations
  BY <1>1
<1>3. sent.outputs = Engine!OUTPUT_COUNT - 1 <=> sent'.outputs = Engine!OUTPUT_COUNT
  BY <1>1, <1>2, Counts
<1>4. Engine!phase = "answers" /\ ~done /\ done \in BOOLEAN
  BY <1>1, PhaseIs DEF EngineInv, OutputInv
<1>5. CASE output.last
  <2>1. sent'.outputs = Engine!OUTPUT_COUNT
    BY <1>1, <1>3, <1>5
  <2>2. state' = "IDLE" /\ done' = TRUE
    BY <1>5 DEF Engine!AcceptOutput
  <2>3. Engine!phase' = "idle"
    BY <2>2, PhaseWillBe DEF States
  <2>. QED  BY <1>1, <1>2, <1>4, <2>1, <2>2, <2>3 DEF Engine!Layer!Accept, Engine!NoOutput
<1>6. CASE ~output.last
  <2>1. sent'.outputs # Engine!OUTPUT_COUNT
    BY <1>1, <1>3, <1>6
  <2>2. state' = "COMPUTE" /\ done' = FALSE
    BY <1>6 DEF Engine!AcceptOutput
  <2>3. Engine!phase' = "answers"
    BY <2>2, PhaseWillBe DEF States
  <2>. QED  BY <1>1, <1>2, <1>4, <2>1, <2>2, <2>3 DEF Engine!Layer!Accept, Engine!NoOutput
<1>. QED  BY <1>5, <1>6

LEMMA LoadIsServed ==
  ASSUME EngineInv, Engine!LoadWeight \/ Engine!LoadActivation
  PROVE  Engine!Layer!TakeWeight \/ Engine!Layer!TakeActivation
<1>1. /\ sent \in [weights : Nat, activations : Nat, outputs : Nat]
      /\ state # "IDLE" => done = FALSE
  BY DEF EngineInv, LoadInv, OutputInv
<1>. DEFINE taken == [weights |-> sent.weights, activations |-> sent.activations]
<1>2. CASE Engine!LoadWeight
  <2>1. /\ state = "LOAD_WEIGHTS" /\ sent' = [sent EXCEPT !.weights = @ + 1]
        /\ output' = output /\ done' = FALSE
    BY <1>2 DEF Engine!LoadWeight
  <2>7. done' = done
    BY <1>1, <2>1
  <2>8. weight_count \in Int /\ sent.weights = weight_count
    BY <2>1, Counts DEF EngineInv, LoadInv, Engine!Addresses
  <2>2. /\ sent'.weights = sent.weights + 1 /\ sent'.activations = sent.activations
        /\ sent'.outputs = sent.outputs
    BY <1>1, <2>1
  <2>3. taken' = [taken EXCEPT !.weights = @ + 1] /\ taken'.weights = sent.weights + 1
    BY <2>2
  <2>4. state' = IF sent.weights + 1 = Engine!WEIGHT_COUNT
                   THEN "LOAD_ACTIVATIONS" ELSE "LOAD_WEIGHTS"
    BY <1>2, <2>1, <2>8, Counts DEF Engine!LoadWeight
  <2>5. Engine!phase' = IF sent.weights + 1 = Engine!WEIGHT_COUNT
                          THEN "activations" ELSE "weights"
    BY <2>4, PhaseWillBe DEF States
  <2>6. Engine!phase = "weights"
    BY <2>1, PhaseIs DEF EngineInv
  <2>. QED  BY <2>1, <2>2, <2>3, <2>5, <2>6, <2>7 DEF Engine!Layer!TakeWeight
<1>3. CASE Engine!LoadActivation
  <2>1. /\ state = "LOAD_ACTIVATIONS" /\ sent' = [sent EXCEPT !.activations = @ + 1]
        /\ output' = output /\ done' = FALSE
    BY <1>3 DEF Engine!LoadActivation
  <2>7. done' = done
    BY <1>1, <2>1
  <2>8. activation_count \in Int /\ sent.activations = activation_count
    BY <2>1, Counts DEF EngineInv, LoadInv, Engine!Addresses
  <2>2. /\ sent'.activations = sent.activations + 1 /\ sent'.weights = sent.weights
        /\ sent'.outputs = sent.outputs
    BY <1>1, <2>1
  <2>3. taken' = [taken EXCEPT !.activations = @ + 1]
        /\ taken'.activations = sent.activations + 1
    BY <2>2
  <2>4. state' = IF sent.activations + 1 = Engine!ACTIVATION_COUNT
                   THEN "COMPUTE" ELSE "LOAD_ACTIVATIONS"
    BY <1>3, <2>1, <2>8, Counts DEF Engine!LoadActivation
  <2>5. Engine!phase' = IF sent.activations + 1 = Engine!ACTIVATION_COUNT
                          THEN "answers" ELSE "activations"
    BY <2>4, PhaseWillBe DEF States
  <2>6. Engine!phase = "activations"
    BY <2>1, PhaseIs DEF EngineInv
  <2>. QED  BY <2>1, <2>2, <2>3, <2>5, <2>6, <2>7 DEF Engine!Layer!TakeActivation
<1>. QED  BY <1>2, <1>3

LEMMA StepIsServed ==
  ASSUME EngineInv, EngineStep
  PROVE  Engine!Layer!Next \/ UNCHANGED Engine!Layer!vars
<1>1. state \in States /\ (state # "IDLE" => done = FALSE)
  BY DEF EngineInv, OutputInv
<1>2. CASE Engine!Reset
  <2>1. /\ state' = "IDLE" /\ output' = Bubble /\ done' = FALSE
        /\ sent'.weights = 0 /\ sent'.activations = 0 /\ sent'.outputs = 0
    BY <1>2 DEF Engine!Reset, Engine!NoOutput, Engine!Nothing
  <2>2. Engine!phase' = "idle"
    BY <2>1, PhaseWillBe DEF States
  <2>3. Engine!Layer!Abort
    BY <2>1, <2>2 DEF Engine!Layer!Abort, Engine!Layer!None, Engine!NoOutput
  <2>. QED  BY <2>3 DEF Engine!Layer!Next
<1>3. CASE Engine!StayIdle
  <2>1. /\ state = "IDLE" /\ state' = "IDLE" /\ done' = FALSE
        /\ UNCHANGED << output, sent >>
    BY <1>3 DEF Engine!StayIdle
  <2>2. Engine!phase = "idle" /\ Engine!phase' = "idle"
    BY <2>1, PhaseIs, PhaseWillBe DEF States
  <2>3. Engine!Layer!Settle
    BY <2>1, <2>2 DEF Engine!Layer!Settle
  <2>. QED  BY <2>3 DEF Engine!Layer!Next
<1>4. CASE Engine!Start
  <2>1. /\ state = "IDLE" /\ state' = "LOAD_WEIGHTS" /\ done' = FALSE /\ output' = output
        /\ sent'.weights = 0 /\ sent'.activations = 0 /\ sent'.outputs = 0
    BY <1>4 DEF Engine!Start, Engine!Nothing
  <2>2. Engine!phase = "idle" /\ Engine!phase' = "weights"
    BY <2>1, PhaseIs, PhaseWillBe DEF States
  <2>3. Engine!Layer!Begin
    BY <2>1, <2>2 DEF Engine!Layer!Begin, Engine!Layer!None
  <2>. QED  BY <2>3 DEF Engine!Layer!Next
<1>5. CASE Engine!Starve \/ Engine!Compute \/ Engine!AwaitResult \/ Engine!StallOutput
  <2>1. /\ state # "IDLE" /\ done' = FALSE /\ UNCHANGED << output, sent >>
        /\ \/ state' = state
           \/ {state, state'} \subseteq {"COMPUTE", "WAIT_RESULT", "OUTPUT"}
    BY <1>5 DEF Engine!Starve, Engine!Compute, Engine!AwaitResult, Engine!StallOutput
  <2>2. Engine!phase' = Engine!phase
    BY <1>1, <2>1, PhaseIs, PhaseWillBe DEF States
  <2>. QED  BY <1>1, <2>1, <2>2 DEF Engine!Layer!vars
<1>6. CASE Engine!LoadWeight \/ Engine!LoadActivation
  BY <1>6, LoadIsServed DEF Engine!Layer!Next
<1>7. CASE Engine!TakeResult
  <2>1. /\ state = "WAIT_RESULT" /\ state' = "OUTPUT"
        /\ output = Bubble /\ done' = FALSE /\ sent' = sent
    BY <1>7 DEF Engine!TakeResult, EngineInv, OutputInv
  <2>2. output' = [data |-> Engine!Answer(sent'.outputs),
                   last |-> sent'.outputs = Engine!OUTPUT_COUNT - 1]
    <3>1. OutputInv'
      BY OutputPreserved
    <3>. QED  BY <2>1, <3>1 DEF OutputInv
  <2>3. Engine!phase = "answers" /\ Engine!phase' = "answers"
    BY <2>1, PhaseIs, PhaseWillBe DEF States
  <2>4. Engine!Layer!Offer
    BY <1>1, <2>1, <2>2, <2>3 DEF Engine!Layer!Offer, Engine!NoOutput
  <2>. QED  BY <2>4 DEF Engine!Layer!Next
<1>8. CASE Engine!AcceptOutput
  BY <1>8, AcceptanceIsServed DEF Engine!Layer!Next
<1>. QED  BY <1>2, <1>3, <1>4, <1>5, <1>6, <1>7, <1>8 DEF EngineStep

(* Whatever the streams do and whenever the host aborts and starts again,  *)
(* the engine behaves as the layer service, for every image shape: every   *)
(* offered output is the convolution at its raster position.               *)
THEOREM LayerIsServed == Spec => ImplementsLayer
<1>1. Init => Engine!Layer!Init
  <2>. SUFFICES ASSUME Init PROVE Engine!Layer!Init
    OBVIOUS
  <2>1. /\ state = "IDLE" /\ output = Bubble /\ done = FALSE
        /\ sent.weights = 0 /\ sent.activations = 0 /\ sent.outputs = 0
    BY DEF Init, Engine!Init, Engine!NoOutput, Engine!Nothing
  <2>2. Engine!phase = "idle"
    BY <2>1, PhaseIs DEF States
  <2>. QED  BY <2>1, <2>2 DEF Engine!Layer!Init, Engine!Layer!None, Engine!NoOutput
<1>2. EngineInv /\ [Next]_vars => [Engine!Layer!Next]_Engine!Layer!vars
  <2>. SUFFICES ASSUME EngineInv, [Next]_vars
                PROVE  Engine!Layer!Next \/ UNCHANGED Engine!Layer!vars
    OBVIOUS
  <2>1. CASE Next
    BY <2>1, NextIsEngineStep, StepIsServed
  <2>2. CASE UNCHANGED vars
    BY <2>2 DEF vars, Engine!vars, Engine!Layer!vars, Engine!phase
  <2>. QED  BY <2>1, <2>2
<1>. QED  BY <1>1, <1>2, EngineInvariant, PTL DEF Spec, ImplementsLayer,
            Engine!ImplementsLayer, Engine!Layer!Spec

-----------------------------------------------------------------------------
(* The counters of a run, when none of them can reach its limit. *)
LayerFits ==
  /\ {"OUTPUT_COUNT", "INPUT_COUNT", "WEIGHT_LOAD_CYCLES", "COMPUTE_ACTIVE",
      "EXECUTED_MACS"} \subseteq Counters
  /\ CounterMax \in Nat /\ CycleModulus \in Nat
  /\ Engine!OUTPUT_COUNT <= CounterMax /\ Engine!ACTIVATION_COUNT <= CounterMax
  /\ Engine!WEIGHT_COUNT <= CounterMax
  /\ Engine!OUTPUT_COUNT * INPUT_CHANNELS <= CounterMax
  /\ 9 * (Engine!OUTPUT_COUNT * INPUT_CHANNELS) < CycleModulus

(* The beats the present position has fed, and those of the run. *)
BeatsOfPosition ==
  IF state = "COMPUTE" THEN input_channel
  ELSE IF state \in {"WAIT_RESULT", "OUTPUT"} THEN INPUT_CHANNELS ELSE 0

Tally(count, outputs, inputs, words, beats) ==
  /\ count["OUTPUT_COUNT"] = outputs
  /\ count["INPUT_COUNT"] = inputs
  /\ count["WEIGHT_LOAD_CYCLES"] = words
  /\ count["COMPUTE_ACTIVE"] = beats
  /\ count["EXECUTED_MACS"] = 9 * beats

CountInv ==
  /\ done => /\ sent.weights = Engine!WEIGHT_COUNT
             /\ sent.activations = Engine!ACTIVATION_COUNT
             /\ sent.outputs = Engine!OUTPUT_COUNT
  /\ busy /\ pulse = "start" => Tally(counter, 0, 0, 0, 0)
  /\ busy /\ pulse # "start" =>
       Tally(counter, sent.outputs, sent.activations, sent.weights,
             sent.outputs * INPUT_CHANNELS + BeatsOfPosition)

Flag(condition) == IF condition THEN 1 ELSE 0

LEMMA TallyAdvances ==
  ASSUME LayerFits, NEW activity, counter' = Counted(activity),
         NEW outputs \in Nat, NEW inputs \in Nat, NEW words \in Nat, NEW beats \in Nat,
         Tally(counter, outputs, inputs, words, beats),
         "OUTPUT_COUNT" \in activity => outputs < CounterMax,
         "INPUT_COUNT" \in activity => inputs < CounterMax,
         "WEIGHT_LOAD_CYCLES" \in activity => words < CounterMax,
         "COMPUTE_ACTIVE" \in activity => beats < CounterMax,
         9 * (beats + Flag("COMPUTE_ACTIVE" \in activity)) < CycleModulus
  PROVE  Tally(counter', outputs + Flag("OUTPUT_COUNT" \in activity),
               inputs + Flag("INPUT_COUNT" \in activity),
               words + Flag("WEIGHT_LOAD_CYCLES" \in activity),
               beats + Flag("COMPUTE_ACTIVE" \in activity))
<1>1. CounterMax \in Nat /\ CycleModulus \in Nat
  BY DEF LayerFits
<1>2. ASSUME NEW c \in {"OUTPUT_COUNT", "INPUT_COUNT", "WEIGHT_LOAD_CYCLES", "COMPUTE_ACTIVE"},
             NEW n \in Nat, counter[c] = n, c \in activity => n < CounterMax
      PROVE  counter'[c] = n + Flag(c \in activity)
  <2>1. c \in Counters
    BY DEF LayerFits
  <2>2. CASE c \in activity
    <3>1. counter'[c] = Control!Advanced(c, activity)
      BY <2>1, <2>2 DEF Counted, Control!Assigned
    <3>2. Control!Advanced(c, activity) = Control!saturating_increment(counter[c], CounterMax)
      BY DEF Control!Advanced
    <3>3. Control!saturating_increment(n, CounterMax) = n + 1
      BY <1>1, <1>2, <2>2 DEF Control!saturating_increment
    <3>. QED  BY <1>2, <2>2, <3>1, <3>2, <3>3 DEF Flag
  <2>3. CASE c \notin activity
    <3>1. counter'[c] = counter[c]
      BY <2>1, <2>3 DEF Counted, Control!Assigned
    <3>. QED  BY <1>2, <2>3, <3>1 DEF Flag
  <2>. QED  BY <2>2, <2>3
<1>3. counter'["EXECUTED_MACS"] = 9 * (beats + Flag("COMPUTE_ACTIVE" \in activity))
  <2>. DEFINE flag == Flag("COMPUTE_ACTIVE" \in activity)
  <2>1. counter'["EXECUTED_MACS"] = Control!Advanced("EXECUTED_MACS", activity)
    BY DEF Counted, Control!Assigned, LayerFits
  <2>2. flag \in {0, 1}
        /\ (IF "COMPUTE_ACTIVE" \in activity THEN Control!MacsPerCycle ELSE 0) = 9 * flag
    BY DEF Flag, Control!MacsPerCycle
  <2>3. Control!Advanced("EXECUTED_MACS", activity) =
          (counter["EXECUTED_MACS"]
           + IF "COMPUTE_ACTIVE" \in activity THEN Control!MacsPerCycle ELSE 0) % CycleModulus
    BY DEF Control!Advanced
  <2>4. Control!Advanced("EXECUTED_MACS", activity) = (9 * beats + 9 * flag) % CycleModulus
    BY <2>2, <2>3 DEF Tally
  <2>5. 9 * beats + 9 * flag = 9 * (beats + flag) /\ 9 * (beats + flag) \in Nat
    BY <2>2
  <2>. HIDE DEF flag
  <2>6. ASSUME NEW m \in Nat, m < CycleModulus PROVE m % CycleModulus = m
    BY <1>1, <2>6
  <2>7. 9 * (beats + flag) < CycleModulus
    BY DEF flag
  <2>8. (9 * (beats + flag)) % CycleModulus = 9 * (beats + flag)
    BY <2>5, <2>6, <2>7
  <2>. QED  BY <2>1, <2>4, <2>5, <2>8 DEF flag
<1>. QED  BY <1>2, <1>3 DEF Tally

LEMMA ActivityIs ==
  ASSUME LayerFits, NEW weight_valid, NEW activation_valid, NEW output_ready
  PROVE  LET activity == Activity(weight_valid, activation_valid, output_ready) IN
         /\ "OUTPUT_COUNT" \in activity <=> output # Bubble /\ output_ready
         /\ "INPUT_COUNT" \in activity <=> state = "LOAD_ACTIVATIONS" /\ activation_valid
         /\ "WEIGHT_LOAD_CYCLES" \in activity <=> state = "LOAD_WEIGHTS" /\ weight_valid
         /\ "COMPUTE_ACTIVE" \in activity <=> state = "COMPUTE"
BY DEF Activity, LayerFits, Engine!NoOutput

(* How an edge of a run moves its counts. *)
LEMMA RunAdvances ==
  ASSUME EngineInv, state # "IDLE",
         NEW weight_valid, NEW activation_valid, NEW output_ready, NEW start,
         Engine!Edge(start, weight_valid, activation_valid, output_ready)
  PROVE  /\ sent'.outputs = sent.outputs + Flag(output # Bubble /\ output_ready)
         /\ sent'.activations =
              sent.activations + Flag(state = "LOAD_ACTIVATIONS" /\ activation_valid)
         /\ sent'.weights = sent.weights + Flag(state = "LOAD_WEIGHTS" /\ weight_valid)
         /\ sent'.outputs * INPUT_CHANNELS + BeatsOfPosition'
              = sent.outputs * INPUT_CHANNELS + BeatsOfPosition + Flag(state = "COMPUTE")
<1>. DEFINE I == INPUT_CHANNELS
<1>1. /\ sent \in [weights : Nat, activations : Nat, outputs : Nat] /\ I \in Nat \ {0}
      /\ state \in States /\ (state # "OUTPUT" => output = Bubble)
      /\ (state = "OUTPUT" => output # Bubble)
  BY Shape, OfferIsAnOffer DEF EngineInv, LoadInv, OutputInv
<1>2. sent.outputs \in Nat /\ sent.outputs * I \in Nat
  BY <1>1
<1>3. (state = "COMPUTE" => input_channel \in 0 .. I - 1)
      /\ (state = "OUTPUT" => input_channel = 0)
  BY DEF EngineInv, PipelineInv, Engine!Addresses
<1>4. CASE state = "LOAD_WEIGHTS"
  <2>1. /\ state' \in {"LOAD_WEIGHTS", "LOAD_ACTIVATIONS"}
        /\ sent' = IF weight_valid THEN [sent EXCEPT !.weights = @ + 1] ELSE sent
    BY <1>4 DEF Engine!Edge, Engine!StayIdle, Engine!Start, Engine!Starve, Engine!LoadWeight,
       Engine!LoadActivation, Engine!Compute, Engine!AwaitResult, Engine!TakeResult,
       Engine!StallOutput, Engine!AcceptOutput
  <2>2. BeatsOfPosition = 0 /\ BeatsOfPosition' = 0
    BY <1>4, <2>1 DEF BeatsOfPosition
  <2>. QED  BY <1>1, <1>2, <1>4, <2>1, <2>2 DEF Flag
<1>5. CASE state = "LOAD_ACTIVATIONS"
  <2>1. /\ \/ state' = "LOAD_ACTIVATIONS"
           \/ state' = "COMPUTE" /\ input_channel' = 0
        /\ sent' = IF activation_valid THEN [sent EXCEPT !.activations = @ + 1] ELSE sent
    BY <1>5 DEF Engine!Edge, Engine!StayIdle, Engine!Start, Engine!Starve, Engine!LoadWeight,
       Engine!LoadActivation, Engine!Compute, Engine!AwaitResult, Engine!TakeResult,
       Engine!StallOutput, Engine!AcceptOutput
  <2>2. BeatsOfPosition = 0 /\ BeatsOfPosition' = 0
    BY <1>5, <2>1 DEF BeatsOfPosition
  <2>. QED  BY <1>1, <1>2, <1>5, <2>1, <2>2 DEF Flag
<1>6. CASE state = "COMPUTE"
  <2>1. /\ sent' = sent
        /\ IF input_channel = I - 1 THEN state' = "WAIT_RESULT"
           ELSE state' = "COMPUTE" /\ input_channel' = input_channel + 1
    BY <1>6 DEF Engine!Edge, Engine!StayIdle, Engine!Start, Engine!Starve, Engine!LoadWeight,
       Engine!LoadActivation, Engine!Compute, Engine!AwaitResult, Engine!TakeResult,
       Engine!StallOutput, Engine!AcceptOutput
  <2>2. BeatsOfPosition = input_channel /\ BeatsOfPosition' = input_channel + 1
    BY <1>1, <1>3, <1>6, <2>1 DEF BeatsOfPosition
  <2>. QED  BY <1>1, <1>2, <1>3, <1>6, <2>1, <2>2 DEF Flag
<1>7. CASE state = "WAIT_RESULT"
  <2>1. sent' = sent /\ state' \in {"WAIT_RESULT", "OUTPUT"}
    BY <1>7 DEF Engine!Edge, Engine!StayIdle, Engine!Start, Engine!Starve, Engine!LoadWeight,
       Engine!LoadActivation, Engine!Compute, Engine!AwaitResult, Engine!TakeResult,
       Engine!StallOutput, Engine!AcceptOutput
  <2>2. BeatsOfPosition = I /\ BeatsOfPosition' = I
    BY <1>7, <2>1 DEF BeatsOfPosition
  <2>. QED  BY <1>1, <1>2, <1>7, <2>1, <2>2 DEF Flag
<1>8. CASE state = "OUTPUT"
  <2>1. IF output_ready
          THEN /\ sent' = [sent EXCEPT !.outputs = @ + 1]
               /\ state' = "IDLE" \/ (state' = "COMPUTE" /\ input_channel' = 0)
          ELSE sent' = sent /\ state' = "OUTPUT"
    BY <1>3, <1>8 DEF Engine!Edge, Engine!StayIdle, Engine!Start, Engine!Starve,
       Engine!LoadWeight, Engine!LoadActivation, Engine!Compute, Engine!AwaitResult,
       Engine!TakeResult, Engine!StallOutput, Engine!AcceptOutput
  <2>2. CASE output_ready
    <3>1. BeatsOfPosition = I /\ BeatsOfPosition' = 0
      BY <1>8, <2>1, <2>2 DEF BeatsOfPosition
    <3>2. (sent.outputs + 1) * I + 0 = sent.outputs * I + I + 0
      BY <1>1, <1>2
    <3>3. /\ sent'.outputs = sent.outputs + 1
          /\ sent'.weights = sent.weights /\ sent'.activations = sent.activations
      BY <1>1, <2>1, <2>2
    <3>. QED  BY <1>1, <1>8, <2>2, <3>1, <3>2, <3>3 DEF Flag
  <2>3. CASE ~output_ready
    <3>1. BeatsOfPosition = I /\ BeatsOfPosition' = I /\ sent' = sent
      BY <1>8, <2>1, <2>3 DEF BeatsOfPosition
    <3>. QED  BY <1>1, <1>2, <1>8, <2>3, <3>1 DEF Flag
  <2>. QED  BY <2>2, <2>3
<1>. QED  BY <1>1, <1>4, <1>5, <1>6, <1>7, <1>8 DEF States

LEMMA CountsFit ==
  ASSUME LayerFits, EngineInv, state # "IDLE"
  PROVE  /\ sent.outputs \in Nat /\ sent.outputs < CounterMax
         /\ sent.activations \in Nat
         /\ state = "LOAD_ACTIVATIONS" => sent.activations < CounterMax
         /\ sent.weights \in Nat /\ (state = "LOAD_WEIGHTS" => sent.weights < CounterMax)
         /\ sent.outputs * INPUT_CHANNELS + BeatsOfPosition \in Nat
         /\ state = "COMPUTE" =>
              sent.outputs * INPUT_CHANNELS + BeatsOfPosition < CounterMax
         /\ 9 * (sent.outputs * INPUT_CHANNELS + BeatsOfPosition + Flag(state = "COMPUTE"))
              < CycleModulus
<1>. DEFINE I == INPUT_CHANNELS
            O == Engine!OUTPUT_COUNT
            o == sent.outputs
            b == BeatsOfPosition
            flag == Flag(state = "COMPUTE")
<1>1. /\ sent \in [weights : Nat, activations : Nat, outputs : Nat]
      /\ I \in Nat \ {0} /\ O \in Nat \ {0}
      /\ CounterMax \in Nat /\ CycleModulus \in Nat
      /\ O <= CounterMax /\ O * I <= CounterMax /\ 9 * (O * I) < CycleModulus
  BY Shape, Counts DEF EngineInv, LoadInv, LayerFits
<1>2. o \in Nat /\ o < O
  <2>1. /\ output_channel \in Engine!Addresses(OUTPUT_CHANNELS)
        /\ output_y \in Engine!Addresses(Engine!OUTPUT_HEIGHT)
        /\ output_x \in Engine!Addresses(Engine!OUTPUT_WIDTH)
        /\ o = Index(output_channel, output_y, output_x)
    BY DEF EngineInv, PositionInv
  <2>2. o \in Engine!Addresses(O)
    BY <2>1, RasterDigits
  <2>. QED  BY <1>1, <2>2 DEF Engine!Addresses
<1>3. b \in 0 .. I /\ flag \in {0, 1} /\ b + flag <= I /\ (state = "COMPUTE" => b < I)
  <2>1. state = "COMPUTE" => input_channel \in 0 .. I - 1
    BY DEF EngineInv, PipelineInv, Engine!Addresses
  <2>. QED  BY <1>1, <2>1 DEF BeatsOfPosition, Flag
<1>4. state = "LOAD_WEIGHTS" => sent.weights < CounterMax
  BY Counts DEF EngineInv, LoadInv, LayerFits, Engine!Addresses
<1>5. state = "LOAD_ACTIVATIONS" => sent.activations < CounterMax
  BY Counts DEF EngineInv, LoadInv, LayerFits, Engine!Addresses
<1>. HIDE DEF I, O, o, b, flag
<1>6. o * I \in Nat /\ O * I \in Nat /\ o * I + I <= O * I
  <2>1. o * I <= (O - 1) * I /\ (O - 1) * I + I = O * I
    BY <1>1, <1>2, Z3
  <2>2. o * I \in Nat /\ O * I \in Nat /\ (O - 1) * I \in Nat
    BY <1>1, <1>2, Z3
  <2>. QED  BY <1>1, <2>1, <2>2
<1>7. /\ o * I + b \in Nat /\ o * I + b + flag <= O * I
      /\ state = "COMPUTE" => o * I + b < O * I
  BY <1>1, <1>3, <1>6
<1>8. 9 * (o * I + b + flag) < CycleModulus
  <2>. DEFINE p == o * I
              q == O * I
  <2>1. p \in Nat /\ q \in Nat /\ p + b + flag <= q /\ 9 * q < CycleModulus
    BY <1>1, <1>6, <1>7
  <2>. HIDE DEF p, q
  <2>2. 9 * (p + b + flag) < CycleModulus
    BY <1>1, <1>3, <2>1
  <2>. QED  BY <2>2 DEF p
<1>9. o < CounterMax /\ (state = "COMPUTE" => o * I + b < CounterMax)
  BY <1>1, <1>2, <1>3, <1>6, <1>7
<1>. QED  BY <1>1, <1>2, <1>4, <1>5, <1>7, <1>8, <1>9 DEF I, o, b, flag

(* The engine announces done with a whole layer behind it. *)
LEMMA DoneIsWhole ==
  ASSUME EngineInv, EngineStep, done'
  PROVE  /\ sent'.weights = Engine!WEIGHT_COUNT
         /\ sent'.activations = Engine!ACTIVATION_COUNT
         /\ sent'.outputs = Engine!OUTPUT_COUNT
<1>1. Engine!AcceptOutput /\ output.last
  BY DEF EngineStep, Engine!Reset, Engine!StayIdle, Engine!Start,
     Engine!Starve, Engine!LoadWeight, Engine!LoadActivation, Engine!Compute,
     Engine!AwaitResult, Engine!TakeResult, Engine!StallOutput, Engine!AcceptOutput
<1>2. /\ state = "OUTPUT" /\ sent' = [sent EXCEPT !.outputs = @ + 1]
      /\ sent \in [weights : Nat, activations : Nat, outputs : Nat]
      /\ sent.weights = Engine!WEIGHT_COUNT
      /\ sent.activations = Engine!ACTIVATION_COUNT
  BY <1>1 DEF Engine!AcceptOutput, EngineInv, LoadInv
<1>3. sent.outputs = Engine!OUTPUT_COUNT - 1
  BY <1>1, <1>2, OfferIsAnOffer
<1>. QED  BY <1>2, <1>3, Counts

LEMMA RunTallied ==
  ASSUME LayerFits, EngineInv, state # "IDLE", pulse = "none", busy, CountInv,
         NEW weight_valid, NEW activation_valid, NEW output_ready,
         Tallies(Activity(weight_valid, activation_valid, output_ready)),
         pulse' = "none",
         EngineEdge(weight_valid, activation_valid, output_ready)
  PROVE  Tally(counter', sent'.outputs, sent'.activations, sent'.weights,
               sent'.outputs * INPUT_CHANNELS + BeatsOfPosition')
<1>. DEFINE activity == Activity(weight_valid, activation_valid, output_ready)
            beats == sent.outputs * INPUT_CHANNELS + BeatsOfPosition
<1>1. counter' = Counted(activity)
  BY DEF Tallies
<1>2. Tally(counter, sent.outputs, sent.activations, sent.weights, beats)
  BY DEF CountInv
<1>3. /\ "OUTPUT_COUNT" \in activity <=> output # Bubble /\ output_ready
      /\ "INPUT_COUNT" \in activity <=> state = "LOAD_ACTIVATIONS" /\ activation_valid
      /\ "WEIGHT_LOAD_CYCLES" \in activity <=> state = "LOAD_WEIGHTS" /\ weight_valid
      /\ "COMPUTE_ACTIVE" \in activity <=> state = "COMPUTE"
  BY ActivityIs
<1>4. /\ sent.outputs \in Nat /\ sent.activations \in Nat /\ sent.weights \in Nat
      /\ beats \in Nat
      /\ "OUTPUT_COUNT" \in activity => sent.outputs < CounterMax
      /\ "INPUT_COUNT" \in activity => sent.activations < CounterMax
      /\ "WEIGHT_LOAD_CYCLES" \in activity => sent.weights < CounterMax
      /\ "COMPUTE_ACTIVE" \in activity => beats < CounterMax
      /\ 9 * (beats + Flag(state = "COMPUTE")) < CycleModulus
  BY <1>3, CountsFit
<1>5. /\ sent'.outputs = sent.outputs + Flag(output # Bubble /\ output_ready)
      /\ sent'.activations =
           sent.activations + Flag(state = "LOAD_ACTIVATIONS" /\ activation_valid)
      /\ sent'.weights = sent.weights + Flag(state = "LOAD_WEIGHTS" /\ weight_valid)
      /\ sent'.outputs * INPUT_CHANNELS + BeatsOfPosition' = beats + Flag(state = "COMPUTE")
  BY RunAdvances DEF EngineEdge
<1>6. /\ Flag("OUTPUT_COUNT" \in activity) = Flag(output # Bubble /\ output_ready)
      /\ Flag("INPUT_COUNT" \in activity) =
           Flag(state = "LOAD_ACTIVATIONS" /\ activation_valid)
      /\ Flag("WEIGHT_LOAD_CYCLES" \in activity) = Flag(state = "LOAD_WEIGHTS" /\ weight_valid)
      /\ Flag("COMPUTE_ACTIVE" \in activity) = Flag(state = "COMPUTE")
  BY <1>3 DEF Flag
<1>. HIDE DEF activity, beats
<1>7. 9 * (beats + Flag("COMPUTE_ACTIVE" \in activity)) < CycleModulus
  BY <1>4, <1>6
<1>8. Tally(counter', sent.outputs + Flag("OUTPUT_COUNT" \in activity),
            sent.activations + Flag("INPUT_COUNT" \in activity),
            sent.weights + Flag("WEIGHT_LOAD_CYCLES" \in activity),
            beats + Flag("COMPUTE_ACTIVE" \in activity))
  BY <1>1, <1>2, <1>4, <1>7, TallyAdvances
<1>. QED  BY <1>5, <1>6, <1>8

(* The edge after the start command: the engine begins, nothing counts.    *)
LEMMA StartTallied ==
  ASSUME LayerFits, EngineInv, Agreement, pulse = "start", busy, CountInv,
         NEW weight_valid, NEW activation_valid, NEW output_ready,
         Tallies(Activity(weight_valid, activation_valid, output_ready)),
         pulse' = "none",
         EngineEdge(weight_valid, activation_valid, output_ready)
  PROVE  Tally(counter', sent'.outputs, sent'.activations, sent'.weights,
               sent'.outputs * INPUT_CHANNELS + BeatsOfPosition')
<1>. DEFINE activity == Activity(weight_valid, activation_valid, output_ready)
<1>1. counter' = Counted(activity) /\ Tally(counter, 0, 0, 0, 0)
  BY DEF Tallies, CountInv
<1>2. state = "IDLE" /\ output = Bubble
  BY DEF Agreement, StartFindsEngineIdle, EngineInv, OutputInv
<1>3. /\ "OUTPUT_COUNT" \notin activity /\ "INPUT_COUNT" \notin activity
      /\ "WEIGHT_LOAD_CYCLES" \notin activity /\ "COMPUTE_ACTIVE" \notin activity
  BY <1>2, ActivityIs
<1>4. /\ sent'.outputs = 0 /\ sent'.activations = 0 /\ sent'.weights = 0
      /\ state' = "LOAD_WEIGHTS"
  BY <1>2 DEF EngineEdge, Engine!Edge, Engine!StayIdle, Engine!Start, Engine!Starve,
     Engine!LoadWeight, Engine!LoadActivation, Engine!Compute, Engine!AwaitResult,
     Engine!TakeResult, Engine!StallOutput, Engine!AcceptOutput, Engine!Nothing
<1>5. sent'.outputs * INPUT_CHANNELS + BeatsOfPosition' = 0
  <2>1. BeatsOfPosition' = 0
    BY <1>4 DEF BeatsOfPosition
  <2>. QED  BY <1>4, <2>1, Shape
<1>. HIDE DEF activity
<1>6. Flag("COMPUTE_ACTIVE" \in activity) = 0 /\ Flag("OUTPUT_COUNT" \in activity) = 0
      /\ Flag("INPUT_COUNT" \in activity) = 0 /\ Flag("WEIGHT_LOAD_CYCLES" \in activity) = 0
  BY <1>3 DEF Flag
<1>7. 9 * (0 + Flag("COMPUTE_ACTIVE" \in activity)) < CycleModulus
  <2>1. Engine!OUTPUT_COUNT * INPUT_CHANNELS \in Nat
    BY Counts, Shape
  <2>2. CycleModulus \in Nat /\ 9 * (Engine!OUTPUT_COUNT * INPUT_CHANNELS) < CycleModulus
    BY DEF LayerFits
  <2>. QED  BY <1>6, <2>1, <2>2
<1>8. Tally(counter', 0, 0, 0, 0)
  <2>1. Tally(counter', 0 + Flag("OUTPUT_COUNT" \in activity),
              0 + Flag("INPUT_COUNT" \in activity),
              0 + Flag("WEIGHT_LOAD_CYCLES" \in activity),
              0 + Flag("COMPUTE_ACTIVE" \in activity))
    BY <1>1, <1>3, <1>7, TallyAdvances
  <2>. QED  BY <1>6, <2>1
<1>. QED  BY <1>4, <1>5, <1>8

LEMMA EdgeTallied ==
  ASSUME LayerFits, EngineInv, Agreement, CountInv,
         NEW weight_valid, NEW activation_valid, NEW output_ready,
         Edge(weight_valid, activation_valid, output_ready)
  PROVE  CountInv'
<1>1. /\ Starts \/ Resets \/ Continues
      /\ Tallies(Activity(weight_valid, activation_valid, output_ready))
  BY ControlEffect DEF Edge
<1>2. EngineStep
  BY DEF Edge, EngineEdge, Engine!Edge, EngineStep
<1>3. done' => /\ sent'.weights = Engine!WEIGHT_COUNT
               /\ sent'.activations = Engine!ACTIVATION_COUNT
               /\ sent'.outputs = Engine!OUTPUT_COUNT
  BY <1>2, DoneIsWhole
<1>4. CASE Starts
  <2>1. pulse' = "start" /\ counter' = Control!ZeroCounters
    BY <1>1, <1>4 DEF Starts, Tallies
  <2>2. Tally(counter', 0, 0, 0, 0)
    BY <2>1 DEF Tally, Control!ZeroCounters, LayerFits
  <2>. QED  BY <1>3, <2>1, <2>2 DEF CountInv
<1>5. CASE Resets
  BY <1>3, <1>5 DEF Resets, CountInv
<1>6. CASE Continues /\ ~busy'
  BY <1>3, <1>6 DEF CountInv
<1>7. CASE Continues /\ busy'
  <2>1. busy /\ ~done /\ pulse' = "none"
    BY <1>7 DEF Continues
  <2>2. Tally(counter', sent'.outputs, sent'.activations, sent'.weights,
              sent'.outputs * INPUT_CHANNELS + BeatsOfPosition')
    <3>1. CASE pulse = "start"
      BY <1>1, <2>1, <3>1, StartTallied DEF Edge
    <3>2. CASE pulse # "start"
      <4>1. pulse = "none" /\ state # "IDLE"
        BY <2>1, <3>2 DEF Agreement, BusySpansRun
      <4>. QED  BY <1>1, <2>1, <4>1, RunTallied DEF Edge
    <3>. QED  BY <3>1, <3>2
  <2>. QED  BY <1>3, <2>1, <2>2 DEF CountInv
<1>. QED  BY <1>1, <1>4, <1>5, <1>6, <1>7

LEMMA NextTallied ==
  ASSUME LayerFits, EngineInv, Agreement, CountInv, [Next]_vars
  PROVE  CountInv'
<1>1. CASE HardReset
  BY <1>1 DEF HardReset, Control!HardReset, Engine!Reset, CountInv, busy, Control!busy
<1>2. CASE UNCHANGED vars
  BY <1>2 DEF vars, Engine!vars, Engine!position, Control!controlVars, Control!lifecycle,
     CountInv, busy, Control!busy, BeatsOfPosition
<1>3. CASE Next /\ ~HardReset
  BY <1>3, EdgeTallied DEF Next
<1>. QED  BY <1>1, <1>2, <1>3

LEMMA WholeRunTallied ==
  ASSUME LayerFits, EngineInv, Agreement, CountInv,
         NEW weight_valid, NEW activation_valid, NEW output_ready,
         Edge(weight_valid, activation_valid, output_ready),
         busy, ~busy', pulse' # "soft_reset"
  PROVE  Tally(counter', Engine!OUTPUT_COUNT, Engine!ACTIVATION_COUNT, Engine!WEIGHT_COUNT,
               Engine!OUTPUT_COUNT * INPUT_CHANNELS)
<1>. DEFINE activity == Activity(weight_valid, activation_valid, output_ready)
            beats == Engine!OUTPUT_COUNT * INPUT_CHANNELS
<1>1. Starts \/ Resets \/ Continues
  BY ControlEffect DEF Edge
<1>2. counter' = Counted(activity)
  <2>1. Tallies(activity)
    BY ControlEffect DEF Edge
  <2>. QED  BY <2>1 DEF Tallies
<1>3. done /\ state = "IDLE" /\ output = Bubble /\ pulse # "start"
  BY <1>1 DEF Starts, Resets, Continues, Agreement, StartFindsEngineIdle, EngineInv, OutputInv
<1>4. BeatsOfPosition = 0 /\ beats \in Nat /\ beats + 0 = beats
  BY <1>3, Counts, Shape DEF BeatsOfPosition
<1>5. Tally(counter, Engine!OUTPUT_COUNT, Engine!ACTIVATION_COUNT, Engine!WEIGHT_COUNT, beats)
  BY <1>3, <1>4 DEF CountInv
<1>6. /\ "OUTPUT_COUNT" \notin activity /\ "INPUT_COUNT" \notin activity
      /\ "WEIGHT_LOAD_CYCLES" \notin activity /\ "COMPUTE_ACTIVE" \notin activity
  BY <1>3, ActivityIs
<1>. HIDE DEF activity, beats
<1>7. Flag("COMPUTE_ACTIVE" \in activity) = 0 /\ Flag("OUTPUT_COUNT" \in activity) = 0
      /\ Flag("INPUT_COUNT" \in activity) = 0 /\ Flag("WEIGHT_LOAD_CYCLES" \in activity) = 0
  BY <1>6 DEF Flag
<1>8. 9 * (beats + Flag("COMPUTE_ACTIVE" \in activity)) < CycleModulus
  BY <1>4, <1>7 DEF LayerFits, beats
<1>9. Tally(counter', Engine!OUTPUT_COUNT + Flag("OUTPUT_COUNT" \in activity),
            Engine!ACTIVATION_COUNT + Flag("INPUT_COUNT" \in activity),
            Engine!WEIGHT_COUNT + Flag("WEIGHT_LOAD_CYCLES" \in activity),
            beats + Flag("COMPUTE_ACTIVE" \in activity))
  BY <1>2, <1>4, <1>5, <1>6, <1>8, Counts, TallyAdvances
<1>10. /\ Engine!OUTPUT_COUNT + 0 = Engine!OUTPUT_COUNT
       /\ Engine!ACTIVATION_COUNT + 0 = Engine!ACTIVATION_COUNT
       /\ Engine!WEIGHT_COUNT + 0 = Engine!WEIGHT_COUNT
  BY Counts
<1>. QED  BY <1>4, <1>7, <1>9, <1>10 DEF beats

(* A run that ends by itself leaves the counters of a whole layer, when    *)
(* the layer's counts are within the counters' reach.                      *)
THEOREM WholeLayerIsCounted ==
  ASSUME LayerFits
  PROVE  Spec => WholeLayerCounted
<1>1. Init => CountInv
  BY DEF Init, Engine!Init, Control!ControlInit, CountInv, busy, Control!busy
<1>2. EngineInv /\ Agreement /\ CountInv /\ [Next]_vars => CountInv'
  BY NextTallied
<1>3. Spec => []CountInv
  BY <1>1, <1>2, EngineInvariant, ViewsAgree, PTL DEF Spec
<1>4. EngineInv /\ Agreement /\ CountInv /\ [Next]_vars =>
        [busy /\ ~Control!busy' /\ pulse' # "soft_reset" /\ ~HardReset
         => /\ counter'["OUTPUT_COUNT"] = Engine!OUTPUT_COUNT
            /\ counter'["INPUT_COUNT"] = Engine!ACTIVATION_COUNT
            /\ counter'["WEIGHT_LOAD_CYCLES"] = Engine!WEIGHT_COUNT
            /\ counter'["COMPUTE_ACTIVE"] = Engine!OUTPUT_COUNT * INPUT_CHANNELS
            /\ counter'["EXECUTED_MACS"] = 9 * INPUT_CHANNELS * Engine!OUTPUT_COUNT]_vars
  <2>0. SUFFICES ASSUME EngineInv, Agreement, CountInv, Next,
                        busy, ~busy', pulse' # "soft_reset", ~HardReset
                 PROVE  /\ counter'["OUTPUT_COUNT"] = Engine!OUTPUT_COUNT
                        /\ counter'["INPUT_COUNT"] = Engine!ACTIVATION_COUNT
                        /\ counter'["WEIGHT_LOAD_CYCLES"] = Engine!WEIGHT_COUNT
                        /\ counter'["COMPUTE_ACTIVE"] = Engine!OUTPUT_COUNT * INPUT_CHANNELS
                        /\ counter'["EXECUTED_MACS"]
                             = 9 * INPUT_CHANNELS * Engine!OUTPUT_COUNT
    BY DEF busy
  <2>1. Tally(counter', Engine!OUTPUT_COUNT, Engine!ACTIVATION_COUNT, Engine!WEIGHT_COUNT,
              Engine!OUTPUT_COUNT * INPUT_CHANNELS)
    BY <2>0, WholeRunTallied DEF Next
  <2>2. 9 * (Engine!OUTPUT_COUNT * INPUT_CHANNELS) = 9 * INPUT_CHANNELS * Engine!OUTPUT_COUNT
    BY Counts, Shape, Z3
  <2>. QED  BY <2>1, <2>2 DEF Tally
<1>. QED  BY <1>3, <1>4, EngineInvariant, ViewsAgree, PTL DEF Spec, WholeLayerCounted
=============================================================================
