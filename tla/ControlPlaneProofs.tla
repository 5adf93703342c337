------------------------- MODULE ControlPlaneProofs -------------------------
(***************************************************************************)
(* The control plane keeps its types, a run keeps its legal configuration, *)
(* its pulses are apart, it never ends silently and is never done with too *)
(* few outputs, whatever the host and the engine do; and a polling host    *)
(* makes the right number of three separate reads.                         *)
(*                                                                         *)
(* The commits differ in what they assign before the activity of the edge  *)
(* overrides it; the lemmas about the record of registers say what each    *)
(* assignment does to the busy bit, the counters and the interrupts.  The  *)
(* reads say something together because nothing but a start, a soft reset  *)
(* or a hard reset moves the status or the counters once a run is over.    *)
(***************************************************************************)
EXTENDS ReadChannel, SequenceTheorems, TLAPS

ErrorCodes ==
  {"NONE", "INVALID_CONFIG", "START_WHILE_BUSY", "BUSY_WRITE", "EARLY_COMPLETION"}

RegisterFile ==
  [status : SUBSET {"busy", "done"}, error_code : ErrorCodes,
   irq_status : SUBSET {"completion", "error"},
   error_count : 0 .. LifetimeMax, layer_invocations : 0 .. LifetimeMax,
   counter : [Counters -> Nat]]

(* The write register holds a write exactly while a half has arrived, and  *)
(* a pulse is up only while its response has not been taken.               *)
WriteHeld ==
  /\ pending # {} => write \in HostWrites
  /\ pulse # "none" => response # NoResponse

(* The configuration of a run is legal. *)
BusyConfigIsValid == busy => config_valid

Inv == TypeOK /\ WriteHeld /\ BusyConfigIsValid

-----------------------------------------------------------------------------
(* Saturating counters stay in their range. *)
LEMMA SaturatingInRange ==
  ASSUME NEW max \in Nat, NEW value \in 0 .. max
  PROVE  saturating_increment(value, max) \in 0 .. max
BY DEF saturating_increment

LEMMA RegistersInFile ==
  ASSUME TypeOK
  PROVE  Registers \in RegisterFile /\ Registers.status = status
BY DEF TypeOK, Registers, RegisterFile, ErrorCodes

LEMMA RecordError ==
  ASSUME TypeOK, NEW r \in RegisterFile, NEW code \in ErrorCodes
  PROVE  record_error(r, code) \in RegisterFile /\ record_error(r, code).status = r.status
<1>1. saturating_increment(error_count, LifetimeMax) \in 0 .. LifetimeMax
  BY SaturatingInRange, ControlAssumption DEF TypeOK, ControlAssumption
<1>2. r.irq_status \cup {"error"} \in SUBSET {"completion", "error"}
  BY DEF RegisterFile
<1>. QED  BY <1>1, <1>2 DEF record_error, RegisterFile

LEMMA ClearErrorKeepsRun ==
  ASSUME NEW r \in RegisterFile
  PROVE  ClearError(r) \in RegisterFile /\ ClearError(r).status = r.status
BY DEF ClearError, RegisterFile, ErrorCodes

LEMMA ClearRunIdles ==
  ASSUME NEW r \in RegisterFile
  PROVE  ClearRun(r) \in RegisterFile /\ ClearRun(r).status = {}
<1>1. ZeroCounters \in [Counters -> Nat]
  BY DEF ZeroCounters
<1>. QED  BY <1>1 DEF ClearRun, RegisterFile, ErrorCodes

LEMMA BeginRunIsBusy ==
  ASSUME TypeOK, NEW r \in RegisterFile
  PROVE  BeginRun(r) \in RegisterFile /\ BeginRun(r).status = {"busy"}
<1>1. saturating_increment(layer_invocations, LifetimeMax) \in 0 .. LifetimeMax
  BY SaturatingInRange, ControlAssumption DEF TypeOK, ControlAssumption
<1>2. ClearRun(r) \in RegisterFile
  BY ClearRunIdles
<1>. QED  BY <1>1, <1>2 DEF BeginRun, RegisterFile

(* The activity counts: each counter stays a number. *)
LEMMA CountKeepsRun ==
  ASSUME TypeOK, NEW r \in RegisterFile, NEW activity
  PROVE  Count(r, activity) \in RegisterFile /\ Count(r, activity).status = r.status
<1>1. ASSUME NEW c \in Counters
      PROVE  Advanced(c, activity) \in Nat
  <2>1. counter[c] \in Nat
    BY DEF TypeOK
  <2>2. CASE c = "CYCLE_COUNT"
    BY <2>1, <2>2, ControlAssumption DEF Advanced, ControlAssumption
  <2>3. CASE c = "EXECUTED_MACS"
    <3>1. (counter[c] + IF "COMPUTE_ACTIVE" \in activity THEN MacsPerCycle ELSE 0) \in Nat
      BY <2>1 DEF MacsPerCycle
    <3>. QED  BY <2>3, <3>1, ControlAssumption DEF Advanced, ControlAssumption
  <2>4. CASE c \notin {"CYCLE_COUNT", "EXECUTED_MACS"}
    BY <2>1, <2>4 DEF Advanced, saturating_increment
  <2>. QED  BY <2>2, <2>3, <2>4
<1>2. [c \in Counters |-> IF c \in Assigned(activity) THEN Advanced(c, activity)
                          ELSE r.counter[c]] \in [Counters -> Nat]
  BY <1>1 DEF RegisterFile
<1>. QED  BY <1>2 DEF Count, RegisterFile

(* Completion ends the run, early or not. *)
LEMMA CompleteEndsRun ==
  ASSUME TypeOK, NEW r \in RegisterFile, NEW activity
  PROVE  Complete(r, activity) \in RegisterFile /\ "busy" \notin Complete(r, activity).status
<1>1. CASE outputs_at_done(activity) < config["OUTPUT_LENGTH"]
  <2>. DEFINE ended == [r EXCEPT !.status = @ \ {"busy"}]
  <2>1. ended \in RegisterFile /\ ended.status = r.status \ {"busy"}
    BY DEF RegisterFile
  <2>2. record_error(ended, "EARLY_COMPLETION") \in RegisterFile
        /\ record_error(ended, "EARLY_COMPLETION").status = ended.status
    BY <2>1, RecordError DEF ErrorCodes
  <2>. QED  BY <1>1, <2>1, <2>2 DEF Complete
<1>2. CASE ~(outputs_at_done(activity) < config["OUTPUT_LENGTH"])
  <2>. DEFINE ended == [r EXCEPT !.status = (@ \ {"busy"}) \cup {"done"},
                                 !.irq_status = @ \cup {"completion"}]
  <2>1. ended \in RegisterFile /\ ended.status = (r.status \ {"busy"}) \cup {"done"}
    BY DEF RegisterFile
  <2>. QED  BY <1>2, <2>1 DEF Complete
<1>. QED  BY <1>1, <1>2

(* What the activity of an edge makes of the busy bit a commit leaves.     *)
LEMMA ActivityEndsRun ==
  ASSUME TypeOK, NEW r \in RegisterFile, NEW activity
  PROVE  /\ AfterActivity(r, activity) \in RegisterFile
         /\ ~busy \/ ~engine_done => AfterActivity(r, activity).status = r.status
         /\ busy /\ engine_done => "busy" \notin AfterActivity(r, activity).status
<1>1. Count(r, activity) \in RegisterFile /\ Count(r, activity).status = r.status
  BY CountKeepsRun
<1>2. Complete(Count(r, activity), activity) \in RegisterFile
      /\ "busy" \notin Complete(Count(r, activity), activity).status
  BY <1>1, CompleteEndsRun
<1>. QED  BY <1>1, <1>2 DEF AfterActivity

(* So an assignment that does not set the busy bit cannot start a run.     *)
LEMMA AssignKeepsTypes ==
  ASSUME TypeOK, NEW r \in RegisterFile, NEW activity, Assign(AfterActivity(r, activity))
  PROVE  /\ status' \in SUBSET {"busy", "done"}
         /\ error_code' \in ErrorCodes
         /\ irq_status' \in SUBSET {"completion", "error"}
         /\ error_count' \in 0 .. LifetimeMax
         /\ layer_invocations' \in 0 .. LifetimeMax
         /\ counter' \in [Counters -> Nat]
         /\ "busy" \in status' => "busy" \in r.status
         /\ ~busy => status' = r.status
<1>1. AfterActivity(r, activity) \in RegisterFile
  BY ActivityEndsRun
<1>2. "busy" \in AfterActivity(r, activity).status => "busy" \in r.status
  BY ActivityEndsRun
<1>3. ~busy => AfterActivity(r, activity).status = r.status
  BY ActivityEndsRun
<1>. QED  BY <1>1, <1>2, <1>3 DEF Assign, RegisterFile

LEMMA BeforeStartInFile ==
  ASSUME TypeOK
  PROVE  BeforeStart \in RegisterFile /\ BeforeStart.status = status
BY RegistersInFile, ClearErrorKeepsRun DEF BeforeStart

-----------------------------------------------------------------------------
LEMMA InitInv == Init => Inv
<1>. SUFFICES ASSUME ControlInit, engine_done = FALSE PROVE Inv
  BY DEF Init
<1>1. TypeOK
  <2>1. engine_done \in BOOLEAN
    OBVIOUS
  <2>2. config \in [ConfigRegisters -> Nat] /\ counter \in [Counters -> Nat]
    BY DEF ControlInit, ZeroCounters
  <2>3. error_count \in 0 .. LifetimeMax /\ layer_invocations \in 0 .. LifetimeMax
    BY ControlAssumption DEF ControlInit, ControlAssumption
  <2>. QED  BY <2>1, <2>2, <2>3 DEF ControlInit, TypeOK
<1>. QED  BY <1>1 DEF ControlInit, Inv, WriteHeld, BusyConfigIsValid, busy

(* Every commit: the write channel is emptied and answered, the registers  *)
(* are assigned, and what remains to show is that a run that is busy       *)
(* afterwards has a legal configuration.                                   *)
LEMMA CommitInv ==
  ASSUME Inv, NEW r \in RegisterFile, NEW activity, Assign(AfterActivity(r, activity)),
         NEW reply \in {"OKAY", "SLVERR", "DECERR"}, EndWrite(reply),
         config' \in [ConfigRegisters -> Nat],
         irq_enable' \in SUBSET {"completion", "error"},
         pulse' \in {"none", "start", "soft_reset"},
         engine_done' \in BOOLEAN,
         "busy" \in status' => config_valid'
  PROVE  Inv'
<1>1. TypeOK'
  BY AssignKeepsTypes DEF Inv, TypeOK, EndWrite, ErrorCodes
<1>2. WriteHeld'
  BY ControlAssumption DEF EndWrite, WriteHeld, ControlAssumption
<1>3. BusyConfigIsValid'
  BY DEF BusyConfigIsValid, busy
<1>. QED  BY <1>1, <1>2, <1>3 DEF Inv

LEMMA NoCommitInv ==
  ASSUME Inv, NEW activity, NoCommit(activity), engine_done' \in BOOLEAN
  PROVE  Inv'
<1>1. Registers \in RegisterFile /\ Registers.status = status
  BY RegistersInFile DEF Inv
<1>2. TypeOK'
  <2>1. /\ write' \in HostWrites \cup {NoWrite} /\ pending' \subseteq Halves
        /\ response' \in {NoResponse, "OKAY", "SLVERR", "DECERR"}
    BY DEF Inv, TypeOK, NoCommit, ReceiveWrite, TakeResponse, HoldResponse, writeVars
  <2>. QED  BY <2>1, <1>1, AssignKeepsTypes DEF Inv, TypeOK, NoCommit, ErrorCodes
<1>3. WriteHeld'
  BY DEF Inv, WriteHeld, NoCommit, ReceiveWrite, TakeResponse, HoldResponse, writeVars
<1>4. "busy" \in status' => busy
  BY <1>1, AssignKeepsTypes DEF Inv, NoCommit, busy
<1>5. config_valid' = config_valid
  BY DEF NoCommit, config_valid
<1>. QED  BY <1>2, <1>3, <1>4, <1>5 DEF Inv, BusyConfigIsValid, busy

LEMMA CommandInv ==
  ASSUME Inv, NEW activity, engine_done' \in BOOLEAN,
         \/ SoftReset(activity) \/ NoStart(activity) \/ RefuseStart(activity)
         \/ AcceptStart(activity)
  PROVE  Inv'
<1>. USE DEF Inv
<1>1. BeforeStart \in RegisterFile /\ BeforeStart.status = status
  BY BeforeStartInFile
<1>2. config \in [ConfigRegisters -> Nat] /\ irq_enable \in SUBSET {"completion", "error"}
  BY DEF TypeOK
<1>3. config' = config => config_valid' = config_valid
  BY DEF config_valid
<1>4. CASE SoftReset(activity)
  <2>1. ClearRun(Registers) \in RegisterFile /\ ClearRun(Registers).status = {}
    BY RegistersInFile, ClearRunIdles
  <2>2. "busy" \notin status'
    BY <1>4, <2>1, AssignKeepsTypes DEF SoftReset
  <2>. QED  BY <1>2, <1>4, <2>1, <2>2, CommitInv DEF SoftReset
<1>5. CASE NoStart(activity)
  <2>1. "busy" \in status' => config_valid'
    BY <1>1, <1>3, <1>5, AssignKeepsTypes DEF NoStart, BusyConfigIsValid, busy
  <2>. QED  BY <1>1, <1>2, <1>5, <2>1, CommitInv DEF NoStart
<1>6. CASE RefuseStart(activity)
  <2>1. PICK code \in {"START_WHILE_BUSY", "INVALID_CONFIG"} :
          Assign(AfterActivity(record_error(BeforeStart, code), activity))
    BY <1>6 DEF RefuseStart
  <2>2. record_error(BeforeStart, code) \in RegisterFile
        /\ record_error(BeforeStart, code).status = status
    BY <1>1, RecordError DEF ErrorCodes
  <2>3. "busy" \in status' => config_valid'
    BY <1>3, <1>6, <2>1, <2>2, AssignKeepsTypes DEF RefuseStart, BusyConfigIsValid, busy
  <2>. QED  BY <1>2, <1>6, <2>1, <2>2, <2>3, CommitInv DEF RefuseStart
<1>7. CASE AcceptStart(activity)
  <2>1. BeginRun(BeforeStart) \in RegisterFile
    BY <1>1, BeginRunIsBusy
  <2>2. config_valid'
    BY <1>3, <1>7 DEF AcceptStart
  <2>. QED  BY <1>2, <1>7, <2>1, <2>2, CommitInv DEF AcceptStart
<1>. QED  BY <1>4, <1>5, <1>6, <1>7

LEMMA RegisterWriteInv ==
  ASSUME Inv, NEW activity, engine_done' \in BOOLEAN,
         \/ ClearInterrupts(activity) \/ EnableInterrupts(activity) \/ Configure(activity)
         \/ RefuseConfigure(activity) \/ RefuseUnmapped(activity)
  PROVE  Inv'
<1>. USE DEF Inv
<1>1. Registers \in RegisterFile /\ Registers.status = status
  BY RegistersInFile
<1>2. config \in [ConfigRegisters -> Nat] /\ irq_enable \in SUBSET {"completion", "error"}
  BY DEF TypeOK
<1>3. config' = config => config_valid' = config_valid
  BY DEF config_valid
<1>4. CASE ClearInterrupts(activity)
  <2>. DEFINE cleared == [Registers EXCEPT !.irq_status = @ \ IrqBits(write.word)]
  <2>1. cleared \in RegisterFile /\ cleared.status = status
    BY <1>1 DEF RegisterFile
  <2>2. "busy" \in status' => config_valid'
    BY <1>3, <1>4, <2>1, AssignKeepsTypes DEF ClearInterrupts, BusyConfigIsValid, busy
  <2>. QED  BY <1>2, <1>4, <2>1, <2>2, CommitInv DEF ClearInterrupts
<1>5. CASE EnableInterrupts(activity)
  <2>1. "busy" \in status' => config_valid'
    BY <1>1, <1>3, <1>5, AssignKeepsTypes DEF EnableInterrupts, BusyConfigIsValid, busy
  <2>2. irq_enable' \in SUBSET {"completion", "error"}
    BY <1>2, <1>5 DEF EnableInterrupts, IrqBits
  <2>. QED  BY <1>1, <1>2, <1>5, <2>1, <2>2, CommitInv DEF EnableInterrupts
<1>6. CASE Configure(activity)
  <2>1. write \in HostWrites
    BY <1>6 DEF Configure, Committing, WriteHeld, Halves
  <2>2. write.word \in Nat
    BY <2>1, ControlAssumption DEF ControlAssumption
  <2>3. config' \in [ConfigRegisters -> Nat]
    BY <1>2, <1>6, <2>2 DEF Configure, apply_strobes
  <2>4. "busy" \notin status'
    BY <1>1, <1>6, AssignKeepsTypes DEF Configure, busy
  <2>. QED  BY <1>1, <1>2, <1>6, <2>3, <2>4, CommitInv DEF Configure
<1>7. CASE RefuseConfigure(activity)
  <2>1. record_error(Registers, "BUSY_WRITE") \in RegisterFile
        /\ record_error(Registers, "BUSY_WRITE").status = status
    BY <1>1, RecordError DEF ErrorCodes
  <2>2. "busy" \in status' => config_valid'
    BY <1>3, <1>7, <2>1, AssignKeepsTypes DEF RefuseConfigure, BusyConfigIsValid, busy
  <2>. QED  BY <1>2, <1>7, <2>1, <2>2, CommitInv DEF RefuseConfigure
<1>8. CASE RefuseUnmapped(activity)
  <2>1. "busy" \in status' => config_valid'
    BY <1>1, <1>3, <1>8, AssignKeepsTypes DEF RefuseUnmapped, BusyConfigIsValid, busy
  <2>. QED  BY <1>1, <1>2, <1>8, <2>1, CommitInv DEF RefuseUnmapped
<1>. QED  BY <1>4, <1>5, <1>6, <1>7, <1>8

LEMMA HardResetInv ==
  ASSUME HardReset, engine_done' = FALSE
  PROVE  Inv'
<1>1. TypeOK'
  <2>1. engine_done' \in BOOLEAN
    OBVIOUS
  <2>2. config' \in [ConfigRegisters -> Nat] /\ counter' \in [Counters -> Nat]
    BY DEF HardReset, ZeroCounters
  <2>3. error_count' \in 0 .. LifetimeMax /\ layer_invocations' \in 0 .. LifetimeMax
    BY ControlAssumption DEF HardReset, ControlAssumption
  <2>. QED  BY <2>1, <2>2, <2>3 DEF HardReset, TypeOK
<1>. QED  BY <1>1 DEF HardReset, Inv, WriteHeld, BusyConfigIsValid, busy

LEMMA NextInv == Inv /\ [ControlNext]_vars => Inv'
<1>. SUFFICES ASSUME Inv, [ControlNext]_vars PROVE Inv'
  OBVIOUS
<1>1. CASE \E activity \in Activities : ControlEdge(activity) /\ engine_done' \in BOOLEAN
  BY <1>1, NoCommitInv, CommandInv, RegisterWriteInv DEF ControlEdge, Commit
<1>2. CASE HardReset /\ engine_done' = FALSE
  BY <1>2, HardResetInv
<1>3. CASE UNCHANGED vars
  BY <1>3 DEF vars, controlVars, writeVars, lifecycle, Inv, TypeOK, WriteHeld,
              BusyConfigIsValid, busy, config_valid
<1>. QED  BY <1>1, <1>2, <1>3 DEF ControlNext

(* The inductive invariant of the control plane. *)
THEOREM ControlInvariant == Spec => []Inv
BY InitInv, NextInv, PTL DEF Spec

(* The types of the registers, for every choice of registers and widths.   *)
THEOREM TypeCorrect == Spec => []TypeOK
<1>1. Inv => TypeOK
  BY DEF Inv
<1>. QED  BY <1>1, ControlInvariant, PTL

(* From the edge that starts it to the edge that ends it a run has one     *)
(* legal configuration: a start finds it legal, and the only commit that   *)
(* writes a configuration register is refused while busy.                  *)
THEOREM RunsAreConfigured == Spec => RunKeepsConfig
<1>1. Inv /\ [ControlNext]_vars
        => [busy \/ "busy" \in status' =>
              HardReset \/ (config_valid /\ UNCHANGED config)]_vars
  <2>1. SUFFICES ASSUME Inv, ControlNext, busy \/ "busy" \in status', ~HardReset
                 PROVE  config_valid /\ UNCHANGED config
    BY DEF vars
  <2>2. PICK activity \in Activities : ControlEdge(activity)
    BY <2>1 DEF ControlNext
  <2>3. ~Configure(activity)
    <3>1. Registers \in RegisterFile /\ Registers.status = status
      BY <2>1, RegistersInFile DEF Inv
    <3>2. Configure(activity) => ~busy /\ "busy" \notin status'
      BY <2>1, <3>1, AssignKeepsTypes DEF Inv, Configure, busy
    <3>. QED  BY <2>1, <3>2
  <2>4. UNCHANGED config
    BY <2>2, <2>3
       DEF ControlEdge, NoCommit, Commit, SoftReset, NoStart, RefuseStart, AcceptStart,
           ClearInterrupts, EnableInterrupts, RefuseConfigure, RefuseUnmapped
  <2>5. busy' => config_valid'
    BY <2>1, NextInv DEF Inv, BusyConfigIsValid
  <2>6. config_valid' = config_valid
    BY <2>4 DEF config_valid
  <2>. QED  BY <2>1, <2>4, <2>5, <2>6 DEF Inv, BusyConfigIsValid, busy
<1>. QED  BY <1>1, ControlInvariant, PTL DEF Spec, RunKeepsConfig

(* Pulses last one edge and a new one needs the last response taken first. *)
THEOREM PulsesApart == Spec => PulsesAreApart
<1>1. Inv /\ [ControlNext]_vars
        => [pulse # "none" => pulse' = "none" /\ response # NoResponse]_vars
  <2>. SUFFICES ASSUME Inv, ControlNext, pulse # "none"
                PROVE  pulse' = "none" /\ response # NoResponse
    BY DEF vars
  <2>1. response # NoResponse
    BY DEF Inv, WriteHeld
  <2>2. ASSUME NEW activity, ControlEdge(activity)
        PROVE  pulse' = "none"
    BY <2>1, <2>2 DEF ControlEdge, Commit, NoCommit, SoftReset, NoStart, RefuseStart,
       AcceptStart, ClearInterrupts, EnableInterrupts, Configure, RefuseConfigure,
       RefuseUnmapped, Committing
  <2>. QED  BY <2>1, <2>2 DEF ControlNext, HardReset
<1>. QED  BY <1>1, ControlInvariant, PTL DEF Spec, PulsesAreApart

-----------------------------------------------------------------------------
DoneIsIdle == ~({"busy", "done"} \subseteq status)

(* The words asked for since the host began again, taken or still waiting. *)
Word(i) == IF i <= Len(heard) THEN heard[i] ELSE answer

SaysDone(word) == (word \div 2) % 2 = 1

ReadTypes ==
  /\ heard \in Seq(Nat)
  /\ answer \in Nat \cup {NoRead}
  /\ asked \in 0 .. 3
  /\ Len(heard) = IF answer = NoRead THEN asked ELSE asked - 1
  /\ disturbed \in BOOLEAN

(* Once done was read and as long as no run was started or aborted, the    *)
(* run is over and the words are those of its counter.                     *)
WordsHold ==
  ~disturbed /\ asked >= 1 /\ SaysDone(Word(1)) =>
    /\ "done" \in status
    /\ asked >= 2 => Word(2) = counter["CYCLE_COUNT"] % WordModulus
    /\ asked >= 3 => Word(3) = counter["CYCLE_COUNT"] \div WordModulus

ReadInv == TypeOK /\ WriteHeld /\ DoneIsIdle /\ ReadTypes /\ WordsHold
-----------------------------------------------------------------------------
(* A write of its bit of IRQ_STATUS is committed on this edge. *)
CompletionCleared ==
  /\ write # NoWrite /\ write.address = "IRQ_STATUS"
  /\ "completion" \in IrqBits(write.word)

(* What a commit that raises no pulse leaves of the registers of before.   *)
KeepsRun(r) ==
  /\ r.status = status /\ r.counter = counter
  /\ "completion" \in irq_status => "completion" \in r.irq_status \/ CompletionCleared

(* What a commit that raises a pulse leaves of them. *)
BeginsAnew(r) ==
  \/ r.status = {} /\ pulse' = "soft_reset"
  \/ r.status = {"busy"} /\ pulse' = "start" /\ ~busy

(* Every edge but a hard reset assigns a register file that has the status *)
(* and the counters of before, or raises a pulse; the completion interrupt *)
(* of that file is the one of before unless it was written away.           *)
LEMMA EdgeAssigns ==
  ASSUME TypeOK, WriteHeld, NEW activity, ControlEdge(activity)
  PROVE  \E r \in RegisterFile :
           /\ Assign(AfterActivity(r, activity))
           /\ \/ KeepsRun(r) /\ pulse' = "none"
              \/ BeginsAnew(r)
<1>1. Registers \in RegisterFile /\ KeepsRun(Registers)
  BY RegistersInFile DEF Registers, KeepsRun
<1>2. BeforeStart \in RegisterFile /\ KeepsRun(BeforeStart)
  <2>1. BeforeStart \in RegisterFile /\ BeforeStart.status = status
    BY BeforeStartInFile
  <2>. QED  BY <1>1, <2>1 DEF BeforeStart, ClearError, RegisterFile, KeepsRun
<1>3. ASSUME NEW r \in RegisterFile, KeepsRun(r), NEW code \in ErrorCodes
      PROVE  record_error(r, code) \in RegisterFile /\ KeepsRun(record_error(r, code))
  <2>1. record_error(r, code) \in RegisterFile /\ record_error(r, code).status = r.status
    BY RecordError
  <2>2. /\ record_error(r, code).counter = r.counter
        /\ record_error(r, code).irq_status = r.irq_status \cup {"error"}
    BY DEF record_error, RegisterFile
  <2>. QED  BY <1>3, <2>1, <2>2 DEF KeepsRun
<1>4. CASE NoCommit(activity)
  BY <1>1, <1>4 DEF NoCommit
<1>5. CASE SoftReset(activity)
  BY <1>1, <1>5, ClearRunIdles DEF SoftReset, BeginsAnew
<1>6. CASE NoStart(activity)
  BY <1>2, <1>6 DEF NoStart
<1>7. CASE RefuseStart(activity)
  <2>. DEFINE code == IF busy THEN "START_WHILE_BUSY" ELSE "INVALID_CONFIG"
  <2>1. code \in ErrorCodes
    BY DEF ErrorCodes
  <2>2. Assign(AfterActivity(record_error(BeforeStart, code), activity)) /\ pulse' = "none"
    BY <1>7 DEF RefuseStart
  <2>3. /\ record_error(BeforeStart, code) \in RegisterFile
        /\ KeepsRun(record_error(BeforeStart, code))
    BY <1>2, <1>3, <2>1
  <2>. HIDE DEF code
  <2>. QED  BY <2>2, <2>3
<1>8. CASE AcceptStart(activity)
  BY <1>2, <1>8, BeginRunIsBusy DEF AcceptStart, BeginsAnew
<1>9. CASE ClearInterrupts(activity)
  <2>. DEFINE r == [Registers EXCEPT !.irq_status = @ \ IrqBits(write.word)]
  <2>1. /\ r \in RegisterFile /\ r.status = status /\ r.counter = counter
        /\ r.irq_status = irq_status \ IrqBits(write.word)
    BY <1>1 DEF RegisterFile, KeepsRun, Registers
  <2>2. Assign(AfterActivity(r, activity)) /\ pulse' = "none"
    BY <1>9 DEF ClearInterrupts
  <2>3. write # NoWrite /\ write.address = "IRQ_STATUS"
    BY <1>9, ControlAssumption
    DEF ClearInterrupts, Committing, WriteHeld, Halves, ControlAssumption
  <2>. HIDE DEF r
  <2>4. KeepsRun(r)
    BY <2>1, <2>3 DEF KeepsRun, CompletionCleared
  <2>. QED  BY <2>1, <2>2, <2>4
<1>10. CASE EnableInterrupts(activity) \/ Configure(activity) \/ RefuseUnmapped(activity)
  BY <1>1, <1>10 DEF EnableInterrupts, Configure, RefuseUnmapped
<1>11. CASE RefuseConfigure(activity)
  <2>1. "BUSY_WRITE" \in ErrorCodes
    BY DEF ErrorCodes
  <2>2. Assign(AfterActivity(record_error(Registers, "BUSY_WRITE"), activity)) /\ pulse' = "none"
    BY <1>11 DEF RefuseConfigure
  <2>. QED  BY <1>1, <1>3, <2>1, <2>2
<1>. QED
  BY <1>4, <1>5, <1>6, <1>7, <1>8, <1>9, <1>10, <1>11 DEF ControlEdge, Commit

(* What the activity of an edge makes of the registers a commit leaves:    *)
(* it takes no pending interrupt away, and it ends a run either with       *)
(* enough outputs or with an error.                                        *)
LEMMA ActivityAnnounces ==
  ASSUME TypeOK, NEW r \in RegisterFile, NEW activity
  PROVE  LET after == AfterActivity(r, activity)
         IN  /\ r.irq_status \subseteq after.irq_status
             /\ ~(busy /\ engine_done) => after.status = r.status
             /\ busy /\ engine_done =>
                  \/ /\ after.status = (r.status \ {"busy"}) \cup {"done"}
                     /\ "completion" \in after.irq_status
                     /\ ~(outputs_at_done(activity) < config["OUTPUT_LENGTH"])
                  \/ /\ after.status = r.status \ {"busy"}
                     /\ after.error_code = "EARLY_COMPLETION"
                     /\ "error" \in after.irq_status
             /\ busy => after.counter = Count(r, activity).counter
<1>. DEFINE counted == Count(r, activity)
<1>1. /\ counted \in RegisterFile /\ counted.status = r.status
      /\ counted.irq_status = r.irq_status
  <2>1. counted \in RegisterFile /\ counted.status = r.status
    BY CountKeepsRun
  <2>. QED  BY <2>1 DEF Count, RegisterFile
<1>. HIDE DEF counted
<1>2. CASE ~busy
  BY <1>2 DEF AfterActivity
<1>3. CASE busy /\ ~engine_done
  BY <1>1, <1>3 DEF AfterActivity, counted
<1>4. CASE busy /\ engine_done /\ outputs_at_done(activity) < config["OUTPUT_LENGTH"]
  <2>. DEFINE ended == [counted EXCEPT !.status = @ \ {"busy"}]
  <2>1. AfterActivity(r, activity) = record_error(ended, "EARLY_COMPLETION")
    BY <1>4 DEF AfterActivity, Complete, counted
  <2>2. /\ ended \in RegisterFile /\ ended.status = r.status \ {"busy"}
        /\ ended.irq_status = r.irq_status /\ ended.counter = counted.counter
    BY <1>1 DEF RegisterFile
  <2>. HIDE DEF ended
  <2>3. LET after == record_error(ended, "EARLY_COMPLETION")
        IN  /\ after.status = ended.status /\ after.error_code = "EARLY_COMPLETION"
            /\ after.irq_status = ended.irq_status \cup {"error"}
            /\ after.counter = ended.counter
    BY <2>2 DEF record_error, RegisterFile
  <2>. QED  BY <1>4, <2>1, <2>2, <2>3 DEF counted
<1>5. CASE busy /\ engine_done /\ ~(outputs_at_done(activity) < config["OUTPUT_LENGTH"])
  <2>1. AfterActivity(r, activity)
          = [counted EXCEPT !.status = (@ \ {"busy"}) \cup {"done"},
                            !.irq_status = @ \cup {"completion"}]
    BY <1>5 DEF AfterActivity, Complete, counted
  <2>2. LET after == AfterActivity(r, activity)
        IN  /\ after.status = (r.status \ {"busy"}) \cup {"done"}
            /\ after.irq_status = r.irq_status \cup {"completion"}
            /\ after.counter = counted.counter
    BY <1>1, <2>1 DEF RegisterFile
  <2>. QED  BY <1>5, <2>2 DEF counted
<1>. QED  BY <1>2, <1>3, <1>4, <1>5

(* A run that is over has its status and its counters until a pulse.       *)
LEMMA OverStaysOver ==
  ASSUME TypeOK, WriteHeld, NEW activity, ControlEdge(activity), ~busy, pulse' = "none"
  PROVE  status' = status /\ counter' = counter
<1>1. PICK r \in RegisterFile :
           /\ Assign(AfterActivity(r, activity))
           /\ r.status = status /\ r.counter = counter
  BY EdgeAssigns DEF KeepsRun, BeginsAnew
<1>2. AfterActivity(r, activity) = r
  BY DEF AfterActivity
<1>. QED  BY <1>1, <1>2 DEF Assign

(* done and busy are never up together. *)
LEMMA DoneStaysIdle ==
  ASSUME TypeOK, WriteHeld, DoneIsIdle, NEW activity, ControlEdge(activity)
  PROVE  DoneIsIdle'
<1>1. PICK r \in RegisterFile :
           /\ Assign(AfterActivity(r, activity))
           /\ r.status = status \/ r.status \in {{}, {"busy"}}
  BY EdgeAssigns DEF KeepsRun, BeginsAnew
<1>2. status' = AfterActivity(r, activity).status
  BY <1>1 DEF Assign
<1>3. status' = r.status \/ "busy" \notin status'
  BY <1>2, ActivityEndsRun
<1>. QED  BY <1>1, <1>3 DEF DoneIsIdle

-----------------------------------------------------------------------------
(* The words of STATUS and of the cycle counter. *)
LEMMA WordsRead ==
  ASSUME TypeOK
  PROVE  /\ ReadWord("STATUS") \in Nat
         /\ SaysDone(ReadWord("STATUS")) <=> "done" \in status
         /\ ReadWord("CYCLE_COUNT_LOW") = counter["CYCLE_COUNT"] % WordModulus
         /\ ReadWord("CYCLE_COUNT_LOW") \in Nat
         /\ ReadWord("CYCLE_COUNT_HIGH") = counter["CYCLE_COUNT"] \div WordModulus
         /\ ReadWord("CYCLE_COUNT_HIGH") \in Nat
<1>1. /\ ConfigRegisters \cap {"STATUS", "CYCLE_COUNT_LOW", "CYCLE_COUNT_HIGH"} = {}
      /\ Counters \cap {"STATUS", "CYCLE_COUNT_LOW", "CYCLE_COUNT_HIGH"} = {}
  BY ControlAssumption DEF ControlAssumption, RegisterNames, CounterNames
<1>2. counter["CYCLE_COUNT"] \in Nat /\ WordModulus \in Nat \ {0}
  BY ReadAssumption DEF ReadAssumption, TypeOK
<1>3. ReadWord("STATUS")
        = Flag(busy) + 2 * Flag("done" \in status) + 4 * Flag(error_code # "NONE")
  BY <1>1 DEF ReadWord
<1>4. /\ Flag(busy) \in {0, 1} /\ Flag(error_code # "NONE") \in {0, 1}
      /\ Flag("done" \in status) = IF "done" \in status THEN 1 ELSE 0
  BY DEF Flag
<1>5. ReadWord("STATUS") \in Nat /\ (SaysDone(ReadWord("STATUS")) <=> "done" \in status)
  BY <1>3, <1>4 DEF SaysDone
<1>6. ReadWord("CYCLE_COUNT_LOW") = counter["CYCLE_COUNT"] % WordModulus
  BY <1>1 DEF ReadWord
<1>7. ReadWord("CYCLE_COUNT_HIGH") = counter["CYCLE_COUNT"] \div WordModulus
  BY <1>1 DEF ReadWord
<1>. QED  BY <1>2, <1>5, <1>6, <1>7

(* After power-up nothing has been read. *)
LEMMA ReadInitInv == ReadInit => ReadInv
<1> SUFFICES ASSUME ReadInit PROVE ReadInv
  OBVIOUS
<1>1. TypeOK /\ WriteHeld
  BY InitInv DEF ReadInit, Inv
<1>2. DoneIsIdle
  BY DEF ReadInit, Init, ControlInit, DoneIsIdle
<1>3. ReadTypes /\ asked = 0
  <2>1. heard = << >> /\ answer = NoRead /\ asked = 0 /\ disturbed \in BOOLEAN
    BY DEF ReadInit
  <2>. QED  BY <2>1, EmptySeq DEF ReadTypes
<1>. QED  BY <1>1, <1>2, <1>3 DEF ReadInv, WordsHold

(* Words that were read stay what they are worth on any edge of the rest.  *)
LEMMA WordsStay ==
  ASSUME TypeOK, WriteHeld, DoneIsIdle, WordsHold, NEW activity, ControlEdge(activity),
         ~disturbed, pulse' = "none", asked >= 1, SaysDone(Word(1))
  PROVE  /\ "done" \in status /\ status' = status /\ counter' = counter
         /\ asked >= 2 => Word(2) = counter["CYCLE_COUNT"] % WordModulus
         /\ asked >= 3 => Word(3) = counter["CYCLE_COUNT"] \div WordModulus
<1>1. /\ "done" \in status
      /\ asked >= 2 => Word(2) = counter["CYCLE_COUNT"] % WordModulus
      /\ asked >= 3 => Word(3) = counter["CYCLE_COUNT"] \div WordModulus
  BY DEF WordsHold
<1>2. ~busy
  BY <1>1 DEF DoneIsIdle, busy
<1>. QED  BY <1>1, <1>2, OverStaysOver

(* An address handed over is answered from the registers of that edge.     *)
LEMMA AcceptKeeps ==
  ASSUME ReadInv, NEW activity, ControlEdge(activity), AcceptRead
  PROVE  ReadTypes' /\ WordsHold'
<1> DEFINE next == IF asked = 3 THEN 1 ELSE asked + 1
<1>t. TypeOK /\ WriteHeld /\ DoneIsIdle /\ ReadTypes /\ WordsHold
  BY DEF ReadInv
<1>1. /\ answer = NoRead /\ asked' = next /\ answer' = ReadWord(Polls[next])
      /\ heard' = (IF next = 1 THEN << >> ELSE heard)
      /\ disturbed' = ((next # 1 /\ disturbed) \/ pulse' # "none")
  BY DEF AcceptRead, Polls
<1>2. Len(heard) = asked /\ heard \in Seq(Nat) /\ asked \in 0 .. 3
  BY <1>1, <1>t DEF ReadTypes
<1>3. CASE next = 1
  <2>1. /\ answer' = ReadWord("STATUS") /\ heard' = << >> /\ asked' = 1
        /\ disturbed' = (pulse' # "none")
    BY <1>1, <1>3 DEF Polls
  <2>2. answer' \in Nat /\ answer' # NoRead /\ (SaysDone(answer') <=> "done" \in status)
    BY <2>1, <1>t, WordsRead, ReadAssumption DEF ReadAssumption
  <2>3. ReadTypes'
    BY <2>1, <2>2 DEF ReadTypes
  <2>4. Word(1)' = answer'
    BY <2>1 DEF Word
  <2>5. ASSUME ~disturbed', SaysDone(answer') PROVE "done" \in status'
    <3>1. "done" \in status /\ ~busy /\ pulse' = "none"
      BY <2>1, <2>2, <2>5, <1>t DEF DoneIsIdle, busy
    <3>. QED  BY <3>1, <1>t, OverStaysOver
  <2>. QED  BY <2>1, <2>3, <2>4, <2>5 DEF WordsHold
<1>4. CASE next \in {2, 3}
  <2>1. /\ heard' = heard /\ asked' = asked + 1 /\ asked \in {1, 2}
        /\ disturbed' = (disturbed \/ pulse' # "none")
    BY <1>1, <1>2, <1>4
  <2>2. answer' = IF asked = 1 THEN counter["CYCLE_COUNT"] % WordModulus
                               ELSE counter["CYCLE_COUNT"] \div WordModulus
    BY <1>1, <1>4, <2>1, <1>t, WordsRead DEF Polls
  <2>3. answer' \in Nat /\ answer' # NoRead
    BY <1>1, <1>4, <2>1, <1>t, WordsRead, ReadAssumption DEF Polls, ReadAssumption
  <2>4. ReadTypes'
    <3>1. disturbed' \in BOOLEAN
      BY <2>1
    <3>. QED  BY <1>2, <2>1, <2>3, <3>1 DEF ReadTypes
  <2>5. /\ Word(1) = heard[1] /\ Word(1)' = heard[1]
        /\ asked = 1 => Word(2)' = answer'
        /\ asked = 2 => Word(2) = heard[2] /\ Word(2)' = heard[2] /\ Word(3)' = answer'
    BY <1>2, <2>1 DEF Word
  <2>6. ASSUME ~disturbed', SaysDone(Word(1)')
        PROVE  /\ "done" \in status'
               /\ asked' >= 2 => Word(2)' = counter'["CYCLE_COUNT"] % WordModulus
               /\ asked' >= 3 => Word(3)' = counter'["CYCLE_COUNT"] \div WordModulus
    <3>1. ~disturbed /\ pulse' = "none" /\ asked >= 1 /\ SaysDone(Word(1))
      <4>1. ~disturbed /\ pulse' = "none"
        BY <2>1, <2>6
      <4>2. asked >= 1
        BY <2>1
      <4>3. SaysDone(Word(1))
        BY <2>5, <2>6 DEF SaysDone
      <4>. QED  BY <4>1, <4>2, <4>3
    <3>2. /\ "done" \in status /\ status' = status /\ counter' = counter
          /\ asked >= 2 => Word(2) = counter["CYCLE_COUNT"] % WordModulus
      BY <3>1, <1>t, WordsStay
    <3>3. CASE asked = 1
      BY <3>2, <3>3, <2>1, <2>2, <2>5
    <3>4. CASE asked = 2
      BY <3>2, <3>4, <2>1, <2>2, <2>5
    <3>. QED  BY <3>3, <3>4, <2>1
  <2>. QED  BY <2>4, <2>6 DEF WordsHold
<1>. QED  BY <1>2, <1>3, <1>4

(* A word that is taken, or still waits, keeps its place and its value.    *)
LEMMA TakeKeeps ==
  ASSUME ReadInv, NEW activity, ControlEdge(activity), TakeRead \/ NoReadTransfer
  PROVE  ReadTypes' /\ WordsHold'
<1>t. TypeOK /\ WriteHeld /\ DoneIsIdle /\ ReadTypes /\ WordsHold
  BY DEF ReadInv
<1>1. asked' = asked /\ disturbed' = (disturbed \/ pulse' # "none")
  BY DEF TakeRead, NoReadTransfer
<1>2. ReadTypes' /\ \A i \in 1 .. asked : Word(i)' = Word(i)
  <2>1. CASE TakeRead
    <3>1. /\ heard \in Seq(Nat) /\ answer \in Nat /\ asked \in 1 .. 3 /\ Len(heard) = asked - 1
          /\ heard' = Append(heard, answer) /\ answer' = NoRead
      BY <2>1, <1>t DEF TakeRead, ReadTypes
    <3>2. /\ heard' \in Seq(Nat) /\ Len(heard') = asked
          /\ \A i \in 1 .. asked : heard'[i] = IF i = asked THEN answer ELSE heard[i]
      BY <3>1, AppendProperties
    <3>3. disturbed' \in BOOLEAN
      BY <1>1
    <3>. QED  BY <1>1, <3>1, <3>2, <3>3 DEF ReadTypes, Word
  <2>2. CASE NoReadTransfer
    <3>1. disturbed' \in BOOLEAN
      BY <1>1
    <3>. QED  BY <2>2, <3>1, <1>t DEF NoReadTransfer, ReadTypes, Word
  <2>. QED  BY <2>1, <2>2
<1>3. WordsHold'
  <2>1. SUFFICES ASSUME ~disturbed', asked' >= 1, SaysDone(Word(1)')
                 PROVE  /\ "done" \in status'
                        /\ asked' >= 2 => Word(2)' = counter'["CYCLE_COUNT"] % WordModulus
                        /\ asked' >= 3 => Word(3)' = counter'["CYCLE_COUNT"] \div WordModulus
    BY DEF WordsHold
  <2>2. asked \in 0 .. 3
    BY <1>t DEF ReadTypes
  <2>3. ~disturbed /\ pulse' = "none" /\ asked >= 1 /\ SaysDone(Word(1))
    <3>1. ~disturbed /\ pulse' = "none"
      BY <1>1, <2>1
    <3>2. asked >= 1
      BY <1>1, <2>1
    <3>3. Word(1)' = Word(1)
      BY <3>2, <1>2, <2>2
    <3>4. SaysDone(Word(1))
      BY <2>1, <3>3 DEF SaysDone
    <3>. QED  BY <3>1, <3>2, <3>4
  <2>4. /\ "done" \in status /\ status' = status /\ counter' = counter
        /\ asked >= 2 => Word(2) = counter["CYCLE_COUNT"] % WordModulus
        /\ asked >= 3 => Word(3) = counter["CYCLE_COUNT"] \div WordModulus
    BY <2>3, <1>t, WordsStay
  <2>5. /\ asked >= 2 => Word(2)' = Word(2)
        /\ asked >= 3 => Word(3)' = Word(3)
    BY <1>2, <2>2
  <2>. QED  BY <1>1, <2>4, <2>5
<1>. QED  BY <1>2, <1>3

(* A number is what its two words say. *)
LEMMA TwoWords ==
  ASSUME NEW c \in Nat, NEW w \in Nat, w # 0
  PROVE  (c % w) + w * (c \div w) = c
  BY Z3

(* The inductive invariant of the polling host beside the control plane.   *)
THEOREM ReadInvariant == ReadSpec => [](Inv /\ ReadInv)
<1>1. ReadInit => Inv /\ ReadInv
  BY InitInv, ReadInitInv DEF ReadInit
<1>2. Inv /\ ReadInv /\ [ReadNext]_allVars => Inv' /\ ReadInv'
  <2> SUFFICES ASSUME Inv, ReadInv, [ReadNext]_allVars
               PROVE  Inv' /\ ReadInv'
    OBVIOUS
  <2>t. TypeOK /\ WriteHeld /\ DoneIsIdle /\ ReadTypes
    BY DEF ReadInv
  <2>1. [ControlNext]_vars
    BY DEF ReadNext, ControlNext, allVars
  <2>2. Inv' /\ TypeOK' /\ WriteHeld'
    BY <2>1, NextInv DEF Inv
  <2>3. CASE \E activity \in Activities :
               ControlEdge(activity) /\ engine_done' \in BOOLEAN /\ ReadEdge
    <3>1. PICK activity \in Activities : ControlEdge(activity) /\ ReadEdge
      BY <2>3
    <3>2. DoneIsIdle'
      BY <2>t, <3>1, DoneStaysIdle
    <3>3. ReadTypes' /\ WordsHold'
      BY <3>1, AcceptKeeps, TakeKeeps DEF ReadEdge
    <3>. QED  BY <2>2, <3>2, <3>3 DEF ReadInv
  <2>4. CASE HardReset /\ engine_done' = FALSE /\ ResetRead
    <3>1. DoneIsIdle'
      BY <2>4 DEF HardReset, DoneIsIdle
    <3>2. ReadTypes' /\ asked' = 0
      BY <2>4 DEF ResetRead, ReadTypes
    <3>. QED  BY <2>2, <3>1, <3>2 DEF ReadInv, WordsHold
  <2>5. CASE UNCHANGED allVars
    BY <2>2, <2>5 DEF ReadInv, allVars, readVars, vars, controlVars, lifecycle,
       DoneIsIdle, ReadTypes, WordsHold, Word
  <2>. QED  BY <2>3, <2>4, <2>5 DEF ReadNext
<1>. QED  BY <1>1, <1>2, PTL DEF ReadSpec

(* A host that has read done in STATUS gets from the two words of the      *)
(* counter, read one after the other, the cycles of the run that ended,    *)
(* unless it has started or aborted a run meanwhile.                       *)
THEOREM PolledCountRight == ReadSpec => []PolledCountIsFinal
<1>1. ReadInv => PolledCountIsFinal
  <2>0. SUFFICES ASSUME ReadInv, Len(heard) = 3, ~disturbed, DoneHeard
               PROVE  CyclesHeard = counter["CYCLE_COUNT"] /\ ~busy
    BY DEF PolledCountIsFinal, Polls
  <2>1. asked = 3 /\ Word(1) = heard[1] /\ Word(2) = heard[2] /\ Word(3) = heard[3]
    <3>1. /\ heard \in Seq(Nat) /\ asked \in 0 .. 3
          /\ Len(heard) = IF answer = NoRead THEN asked ELSE asked - 1
      BY <2>0 DEF ReadInv, ReadTypes
    <3>2. Word(1) = heard[1] /\ Word(2) = heard[2] /\ Word(3) = heard[3]
      BY <2>0 DEF Word
    <3>3. asked = 3
      <4>1. Len(heard) = 3
        BY <2>0
      <4>2. CASE answer = NoRead
        <5>1. Len(heard) = asked
          BY <3>1, <4>2
        <5>. QED  BY <4>1, <5>1
      <4>3. CASE answer # NoRead
        <5>1. asked - 1 = 3 /\ asked \in 0 .. 3
          BY <3>1, <4>1, <4>3
        <5>. QED  BY <5>1
      <4>. QED  BY <4>2, <4>3
    <3>. QED  BY <3>2, <3>3
  <2>2. SaysDone(Word(1))
    BY <2>0, <2>1 DEF DoneHeard, SaysDone
  <2>3. /\ "done" \in status
        /\ heard[2] = counter["CYCLE_COUNT"] % WordModulus
        /\ heard[3] = counter["CYCLE_COUNT"] \div WordModulus
    BY <2>0, <2>1, <2>2 DEF ReadInv, WordsHold
  <2>4. counter["CYCLE_COUNT"] \in Nat /\ WordModulus \in Nat \ {0}
    BY <2>0, ReadAssumption DEF ReadAssumption, ReadInv, TypeOK
  <2>5. (counter["CYCLE_COUNT"] % WordModulus)
          + WordModulus * (counter["CYCLE_COUNT"] \div WordModulus) = counter["CYCLE_COUNT"]
    BY <2>4, TwoWords
  <2>6. ~busy
    BY <2>0, <2>3 DEF ReadInv, DoneIsIdle, busy
  <2>. QED  BY <2>3, <2>4, <2>5, <2>6 DEF CyclesHeard
<1>. QED  BY <1>1, ReadInvariant, PTL

-----------------------------------------------------------------------------
(* A run never ends silently: the edge that leaves busy announces a reset, *)
(* or raises done and its interrupt, or EARLY_COMPLETION and its           *)
(* interrupt, even when the host clears interrupts or errors on that edge. *)
THEOREM RunsEndAnnounced == Spec => RunEndsAnnounced
<1>1. Inv /\ [ControlNext]_vars
        => [busy /\ "busy" \notin status' =>
              \/ pulse' = "soft_reset" \/ HardReset
              \/ "done" \in status' /\ "completion" \in irq_status'
              \/ error_code' = "EARLY_COMPLETION" /\ "error" \in irq_status']_vars
  <2>1. SUFFICES ASSUME Inv, ControlNext, busy, "busy" \notin status',
                        pulse' # "soft_reset", ~HardReset
                 PROVE  \/ "done" \in status' /\ "completion" \in irq_status'
                        \/ error_code' = "EARLY_COMPLETION" /\ "error" \in irq_status'
    BY DEF vars
  <2>2. PICK activity : ControlEdge(activity)
    BY <2>1 DEF ControlNext
  <2>3. PICK r \in RegisterFile : Assign(AfterActivity(r, activity)) /\ r.status = status
    BY <2>1, <2>2, EdgeAssigns DEF Inv, KeepsRun, BeginsAnew
  <2>. DEFINE after == AfterActivity(r, activity)
  <2>4. /\ status' = after.status /\ irq_status' = after.irq_status
        /\ error_code' = after.error_code
    BY <2>3 DEF Assign
  <2>5. /\ ~(busy /\ engine_done) => after.status = r.status
        /\ busy /\ engine_done =>
             \/ /\ after.status = (r.status \ {"busy"}) \cup {"done"}
                /\ "completion" \in after.irq_status
             \/ /\ after.error_code = "EARLY_COMPLETION"
                /\ "error" \in after.irq_status
    BY <2>1, <2>3, ActivityAnnounces DEF Inv
  <2>. HIDE DEF after
  <2>6. engine_done
    BY <2>1, <2>3, <2>4, <2>5 DEF busy
  <2>. QED  BY <2>1, <2>4, <2>5, <2>6
<1>. QED  BY <1>1, ControlInvariant, PTL DEF Spec, RunEndsAnnounced

(* The output an edge counts as the run ends is in the sum that decides,   *)
(* which is never above the counter it leaves.                             *)
LEMMA SumIsCounted ==
  ASSUME TypeOK, NEW r \in RegisterFile, r.counter = counter, NEW activity
  PROVE  /\ outputs_at_done(activity) \in Nat
         /\ outputs_at_done(activity) <= Count(r, activity).counter["OUTPUT_COUNT"]
         /\ Count(r, activity).counter["OUTPUT_COUNT"] \in Nat
<1>. DEFINE n == counter["OUTPUT_COUNT"]
<1>1. /\ "OUTPUT_COUNT" \in Counters /\ CounterMax \in Nat /\ n \in Nat
  BY ControlAssumption DEF ControlAssumption, TypeOK
<1>2. Count(r, activity).counter["OUTPUT_COUNT"]
        = IF "OUTPUT_COUNT" \in activity THEN saturating_increment(n, CounterMax) ELSE n
  BY <1>1 DEF Count, RegisterFile, Assigned, Advanced
<1>3. CASE "OUTPUT_COUNT" \in activity
  <2>1. outputs_at_done(activity) = (n + 1) % (CounterMax + 1)
    BY <1>3 DEF outputs_at_done
  <2>2. Count(r, activity).counter["OUTPUT_COUNT"] = IF n = CounterMax THEN n ELSE n + 1
    BY <1>2, <1>3 DEF saturating_increment
  <2>. HIDE DEF n
  <2>3. CASE n = CounterMax
    BY <1>1, <2>1, <2>2, <2>3
  <2>4. CASE n # CounterMax
    <3>1. (n + 1) % (CounterMax + 1) \in 0 .. n + 1
      BY <1>1
    <3>. QED  BY <1>1, <2>1, <2>2, <2>4, <3>1
  <2>. QED  BY <2>3, <2>4
<1>4. CASE "OUTPUT_COUNT" \notin activity
  <2>1. outputs_at_done(activity) = (n + 0) % (CounterMax + 1)
    BY <1>4 DEF outputs_at_done
  <2>2. (n + 0) % (CounterMax + 1) \in 0 .. n
    BY <1>1
  <2>. QED  BY <1>1, <1>2, <1>4, <2>1, <2>2
<1>. QED  BY <1>3, <1>4

(* Successful completion is announced only with the configured number of   *)
(* outputs counted, whatever the widths of the counter and of the sum.     *)
THEOREM DoneWithEnoughOutputs == Spec => DoneMeansEnoughOutputs
<1>1. Inv /\ [ControlNext]_vars
        => [/\ "done" \in status' /\ "done" \notin status
            /\ pulse' # "soft_reset"
            => counter'["OUTPUT_COUNT"] >= config["OUTPUT_LENGTH"]]_vars
  <2>1. SUFFICES ASSUME Inv, ControlNext, "done" \in status', "done" \notin status,
                        pulse' # "soft_reset"
                 PROVE  counter'["OUTPUT_COUNT"] >= config["OUTPUT_LENGTH"]
    BY DEF vars
  <2>2. PICK activity : ControlEdge(activity)
    BY <2>1 DEF ControlNext, HardReset
  <2>3. PICK r \in RegisterFile :
          /\ Assign(AfterActivity(r, activity))
          /\ \/ r.status = status /\ r.counter = counter
             \/ r.status = {"busy"} /\ ~busy
    BY <2>1, <2>2, EdgeAssigns DEF Inv, KeepsRun, BeginsAnew
  <2>. DEFINE after == AfterActivity(r, activity)
  <2>4. status' = after.status /\ counter' = after.counter
    BY <2>3 DEF Assign
  <2>5. /\ ~(busy /\ engine_done) => after.status = r.status
        /\ busy /\ engine_done =>
             \/ ~(outputs_at_done(activity) < config["OUTPUT_LENGTH"])
             \/ after.status = r.status \ {"busy"}
        /\ busy => after.counter = Count(r, activity).counter
    BY <2>1, <2>3, ActivityAnnounces DEF Inv
  <2>. HIDE DEF after
  <2>6. /\ busy /\ r.counter = counter
        /\ ~(outputs_at_done(activity) < config["OUTPUT_LENGTH"])
    BY <2>1, <2>3, <2>4, <2>5
  <2>7. config["OUTPUT_LENGTH"] \in Nat
    BY <2>1, ControlAssumption DEF Inv, TypeOK, ControlAssumption
  <2>. QED  BY <2>1, <2>4, <2>5, <2>6, <2>7, SumIsCounted DEF Inv
<1>. QED  BY <1>1, ControlInvariant, PTL DEF Spec, DoneMeansEnoughOutputs

(* A pending completion interrupt goes away only by a start, a reset or a  *)
(* write of its bit, never because another write or an error came by.      *)
THEOREM CompletionSticks == Spec => CompletionInterruptSticks
<1>1. Inv /\ [ControlNext]_vars
        => [/\ "completion" \in irq_status /\ "completion" \notin irq_status'
            => \/ pulse' # "none"
               \/ /\ write # NoWrite /\ write.address = "IRQ_STATUS"
                  /\ "completion" \in IrqBits(write.word)
               \/ HardReset]_vars
  <2>1. SUFFICES ASSUME Inv, ControlNext, "completion" \in irq_status,
                        "completion" \notin irq_status', pulse' = "none", ~HardReset
                 PROVE  CompletionCleared
    BY DEF vars, CompletionCleared
  <2>2. PICK activity : ControlEdge(activity)
    BY <2>1 DEF ControlNext
  <2>3. PICK r \in RegisterFile : Assign(AfterActivity(r, activity)) /\ KeepsRun(r)
    BY <2>1, <2>2, EdgeAssigns DEF Inv, BeginsAnew
  <2>4. r.irq_status \subseteq AfterActivity(r, activity).irq_status
    BY <2>1, <2>3, ActivityAnnounces DEF Inv
  <2>5. irq_status' = AfterActivity(r, activity).irq_status
    BY <2>3 DEF Assign
  <2>. QED  BY <2>1, <2>3, <2>4, <2>5 DEF KeepsRun
<1>. QED  BY <1>1, ControlInvariant, PTL DEF Spec, CompletionInterruptSticks
=============================================================================
