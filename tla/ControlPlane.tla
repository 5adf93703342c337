---------------------------- MODULE ControlPlane ----------------------------
(***************************************************************************)
(* The AXI4-Lite control plane of rtl/control/tensorwright_control.sv: the *)
(* write channel, the lifecycle registers and the per-run counters.  One   *)
(* step is one rising clock edge.  An edge may commit a host write and     *)
(* count an active cycle of the engine; both read the registers as they    *)
(* were before the edge, and where both assign a register the activity,    *)
(* which comes later in the code, wins.                                    *)
(***************************************************************************)
EXTENDS Naturals, FiniteSets

CONSTANTS
  HostWrites,   \* the writes the host issues: address, word and low strobe
  ConfigRegisters, \* the configuration registers kept apart
  Counters,     \* the per-run counters kept
  CounterMax,   \* where a per-run counter stays and
  LifetimeMax,  \* where a lifetime counter stays (both 0xffffffff in the RTL)
  CycleModulus, \* where the cycle and MAC counters wrap (2^64 in the RTL)
  NoWrite, NoResponse

RegisterNames ==
  {"INPUT_HEIGHT", "INPUT_WIDTH", "INPUT_CHANNELS", "OUTPUT_CHANNELS",
   "KERNEL_CONFIG", "OUTPUT_HEIGHT", "OUTPUT_WIDTH", "FLAGS",
   "INPUT_LENGTH", "WEIGHT_LENGTH", "OUTPUT_LENGTH"}

CounterNames ==
  {"CYCLE_COUNT", "EXECUTED_MACS", "COMPUTE_ACTIVE", "INPUT_STALLS",
   "OUTPUT_STALLS", "WEIGHT_LOAD_CYCLES", "OUTPUT_COUNT", "INPUT_COUNT"}

Addresses == ConfigRegisters \cup {"CONTROL", "IRQ_STATUS", "IRQ_ENABLE", "UNMAPPED"}

ASSUME ControlAssumption ==
  /\ HostWrites \subseteq [address : Addresses, word : Nat, strobe : BOOLEAN]
  /\ NoWrite \notin HostWrites
  /\ "OUTPUT_LENGTH" \in ConfigRegisters /\ ConfigRegisters \subseteq RegisterNames
  /\ "OUTPUT_COUNT" \in Counters /\ Counters \subseteq CounterNames
  /\ NoResponse \notin {"OKAY", "SLVERR", "DECERR"}
  /\ CounterMax \in Nat /\ LifetimeMax \in Nat /\ CycleModulus \in Nat \ {0}

VARIABLES
  write,        \* awaddr_q, wdata_q and wstrb_q, or NoWrite
  pending,      \* which halves have arrived: aw_pending and w_pending
  response,     \* s_axil_bresp_o while s_axil_bvalid_o, or NoResponse
  config,       \* the configuration registers
  status,       \* busy, done: the bits of STATUS
  error_code,   \* NONE while the error bit of STATUS is low
  irq_status, irq_enable,
  counter,      \* the per-run counters
  error_count, layer_invocations,
  pulse,        \* start_o and soft_reset_o, at most one of them
  engine_done   \* engine_done_i, a register of the engine

writeVars == << write, pending, response >>
lifecycle == << status, error_code, irq_status, error_count, layer_invocations >>
controlVars == << writeVars, config, lifecycle, irq_enable, counter, pulse >>

busy == "busy" \in status

(* The bits of a word of the bus. *)
Bit(word, i) == (word \div (2 ^ i)) % 2 = 1

IrqBits(word) ==
  {b \in {"completion", "error"} : Bit(word, IF b = "completion" THEN 0 ELSE 1)}

saturating_increment(value, max) == IF value = max THEN value ELSE value + 1

(* Words are below one byte, so only the strobe of the low byte matters. *)
apply_strobes(old, new, strobe) == IF strobe THEN new ELSE old

Kernel3x3 == 1

(* Which value of a configuration register is legal for a start.  A word   *)
(* of KERNEL_CONFIG is either the supported encoding or not.               *)
Legal(register, value) ==
  CASE register = "KERNEL_CONFIG" -> value = Kernel3x3
    [] register = "FLAGS"         -> value \in {0, 1}
    [] OTHER                      -> value # 0

config_valid == \A r \in ConfigRegisters : Legal(r, config[r])

ZeroCounters == [c \in Counters |-> 0]

ControlInit ==
  /\ write = NoWrite
  /\ pending = {}
  /\ response = NoResponse
  /\ config = [r \in ConfigRegisters |-> 0]
  /\ status = {}
  /\ error_code = "NONE"
  /\ irq_status = {}
  /\ irq_enable = {}
  /\ counter = ZeroCounters
  /\ error_count = 0
  /\ layer_invocations = 0
  /\ pulse = "none"
-----------------------------------------------------------------------------
(* The registers that a commit and the activity of one edge both assign.   *)
Registers ==
  [status |-> status, error_code |-> error_code, irq_status |-> irq_status,
   error_count |-> error_count, layer_invocations |-> layer_invocations,
   counter |-> counter]

Assign(r) ==
  /\ status' = r.status
  /\ error_code' = r.error_code
  /\ irq_status' = r.irq_status
  /\ error_count' = r.error_count
  /\ layer_invocations' = r.layer_invocations
  /\ counter' = r.counter

RecordErrorOnly(r, code) ==
  [r EXCEPT !.error_code = code, !.irq_status = {"error"},
            !.error_count = saturating_increment(error_count, LifetimeMax)]

(* The new count is computed from the register, so two errors of one edge  *)
(* are counted as one.                                                     *)
record_error(r, code) ==
  [r EXCEPT !.error_code = code, !.irq_status = @ \cup {"error"},
            !.error_count = saturating_increment(error_count, LifetimeMax)]

ClearError(r) ==
  [r EXCEPT !.error_code = "NONE", !.irq_status = @ \ {"error"}]

ClearRun(r) ==
  [r EXCEPT !.status = {}, !.error_code = "NONE", !.irq_status = {},
            !.counter = ZeroCounters]

BeginRun(r) ==
  [ClearRun(r) EXCEPT !.status = {"busy"},
                      !.layer_invocations = saturating_increment(layer_invocations, LifetimeMax)]

(* What the engine and the streams do on one edge: the activity counters   *)
(* whose condition holds.  A stream transfers or stalls, never both.       *)
Activities ==
  {a \in SUBSET (Counters \ {"CYCLE_COUNT", "EXECUTED_MACS"}) :
     /\ ~({"INPUT_STALLS", "INPUT_COUNT"} \subseteq a)
     /\ ~({"OUTPUT_STALLS", "OUTPUT_COUNT"} \subseteq a)}

MacsPerCycle == 9

(* The counters an edge assigns while busy, and what it assigns to them.   *)
Assigned(activity) == activity \cup {"CYCLE_COUNT", "EXECUTED_MACS"}

Advanced(c, activity) ==
  CASE c = "CYCLE_COUNT"   -> (counter[c] + 1) % CycleModulus
    [] c = "EXECUTED_MACS" ->
         (counter[c] + IF "COMPUTE_ACTIVE" \in activity THEN MacsPerCycle ELSE 0)
           % CycleModulus
    [] OTHER               -> saturating_increment(counter[c], CounterMax)

Count(r, activity) ==
  [r EXCEPT !.counter =
    [c \in Counters |-> IF c \in Assigned(activity) THEN Advanced(c, activity) ELSE @[c]]]

CountOneMore(activity) == (counter["OUTPUT_COUNT"] + 1) % (CounterMax + 1)

(* The 32-bit sum that decides whether the engine finished early. *)
outputs_at_done(activity) ==
  (counter["OUTPUT_COUNT"] + IF "OUTPUT_COUNT" \in activity THEN 1 ELSE 0)
    % (CounterMax + 1)

EarlyStaysBusy(r, activity) ==
  IF outputs_at_done(activity) < config["OUTPUT_LENGTH"]
    THEN record_error(r, "EARLY_COMPLETION")
    ELSE [r EXCEPT !.status = (@ \ {"busy"}) \cup {"done"},
                   !.irq_status = @ \cup {"completion"}]

Complete(r, activity) ==
  IF outputs_at_done(activity) < config["OUTPUT_LENGTH"]
    THEN record_error([r EXCEPT !.status = @ \ {"busy"}], "EARLY_COMPLETION")
    ELSE [r EXCEPT !.status = (@ \ {"busy"}) \cup {"done"},
                   !.irq_status = @ \cup {"completion"}]

CountWhileIdle(r, activity) ==
  IF busy /\ engine_done THEN Complete(Count(r, activity), activity)
  ELSE Count(r, activity)

(* The activity block: it tests busy and reads every counter as they were  *)
(* before the edge, and overrides what the commit assigned.                *)
AfterActivity(r, activity) ==
  IF ~busy THEN r
  ELSE IF engine_done THEN Complete(Count(r, activity), activity)
  ELSE Count(r, activity)
-----------------------------------------------------------------------------
(* The write channel. *)
Halves == {"address", "data"}

Committing(address) ==
  /\ pending = Halves
  /\ response = NoResponse
  /\ write.address = address

EndWrite(answer) ==
  /\ pending' = {}
  /\ write' = NoWrite
  /\ response' = answer

ReceiveOnlyFirst ==
  /\ response = NoResponse
  /\ pending = {}
  /\ \E arrived \in SUBSET Halves :
       /\ pending' = arrived
       /\ IF arrived # {} THEN write' \in HostWrites ELSE UNCHANGED write
  /\ UNCHANGED response

(* The host presents either half of a write, or both, or nothing yet. *)
ReceiveWrite ==
  /\ response = NoResponse
  /\ pending # Halves
  /\ \E arrived \in SUBSET (Halves \ pending) :
       /\ pending' = pending \cup arrived
       /\ IF pending = {} /\ arrived # {}
            THEN write' \in HostWrites
            ELSE UNCHANGED write
  /\ UNCHANGED response

TakeResponse ==
  /\ response # NoResponse
  /\ response' = NoResponse
  /\ UNCHANGED << write, pending >>

HoldResponse ==
  /\ response # NoResponse
  /\ UNCHANGED writeVars

(* An edge on which no write is committed. *)
NoCommit(activity) ==
  /\ ReceiveWrite \/ TakeResponse \/ HoldResponse
  /\ Assign(AfterActivity(Registers, activity))
  /\ pulse' = "none"
  /\ UNCHANGED << config, irq_enable >>

ControlBit(i) == write.strobe /\ Bit(write.word, i)

SoftReset(activity) ==
  /\ Committing("CONTROL")
  /\ ControlBit(1)
  /\ Assign(AfterActivity(ClearRun(Registers), activity))
  /\ pulse' = "soft_reset"
  /\ EndWrite("OKAY")
  /\ UNCHANGED << config, irq_enable >>

(* The error the start command meets is cleared first when bit 2 is set. *)
BeforeStart == IF ControlBit(2) THEN ClearError(Registers) ELSE Registers

NoStart(activity) ==
  /\ Committing("CONTROL")
  /\ ~ControlBit(1) /\ ~ControlBit(0)
  /\ Assign(AfterActivity(BeforeStart, activity))
  /\ pulse' = "none"
  /\ EndWrite("OKAY")
  /\ UNCHANGED << config, irq_enable >>

RefuseStart(activity) ==
  /\ Committing("CONTROL")
  /\ ~ControlBit(1) /\ ControlBit(0)
  /\ busy \/ ~config_valid
  /\ LET code == IF busy THEN "START_WHILE_BUSY" ELSE "INVALID_CONFIG"
     IN  Assign(AfterActivity(record_error(BeforeStart, code), activity))
  /\ pulse' = "none"
  /\ EndWrite("OKAY")
  /\ UNCHANGED << config, irq_enable >>

AcceptStart(activity) ==
  /\ Committing("CONTROL")
  /\ ~ControlBit(1) /\ ControlBit(0)
  /\ ~busy /\ config_valid
  /\ Assign(AfterActivity(BeginRun(BeforeStart), activity))
  /\ pulse' = "start"
  /\ EndWrite("OKAY")
  /\ UNCHANGED << config, irq_enable >>

ClearInterruptsLast(activity) ==
  /\ Committing("IRQ_STATUS")
  /\ Assign([AfterActivity(Registers, activity) EXCEPT !.irq_status = @ \ IrqBits(write.word)])
  /\ pulse' = "none"
  /\ EndWrite("OKAY")
  /\ UNCHANGED << config, irq_enable >>

(* Write-one-to-clear; the strobes are not looked at. *)
ClearInterrupts(activity) ==
  /\ Committing("IRQ_STATUS")
  /\ Assign(AfterActivity([Registers EXCEPT !.irq_status = @ \ IrqBits(write.word)], activity))
  /\ pulse' = "none"
  /\ EndWrite("OKAY")
  /\ UNCHANGED << config, irq_enable >>

EnableInterrupts(activity) ==
  /\ Committing("IRQ_ENABLE")
  /\ irq_enable' = IF write.strobe THEN IrqBits(write.word) ELSE irq_enable
  /\ Assign(AfterActivity(Registers, activity))
  /\ pulse' = "none"
  /\ EndWrite("OKAY")
  /\ UNCHANGED config

ConfigureAnyTime(activity) ==
  /\ \E r \in ConfigRegisters :
       /\ Committing(r)
       /\ config' = [config EXCEPT ![r] = apply_strobes(@, write.word, write.strobe)]
  /\ Assign(AfterActivity(Registers, activity))
  /\ pulse' = "none"
  /\ EndWrite("OKAY")
  /\ UNCHANGED irq_enable

Configure(activity) ==
  /\ \E r \in ConfigRegisters :
       /\ Committing(r)
       /\ config' = [config EXCEPT ![r] = apply_strobes(@, write.word, write.strobe)]
  /\ ~busy
  /\ Assign(AfterActivity(Registers, activity))
  /\ pulse' = "none"
  /\ EndWrite("OKAY")
  /\ UNCHANGED irq_enable

RefuseConfigure(activity) ==
  /\ \E r \in ConfigRegisters : Committing(r)
  /\ busy
  /\ Assign(AfterActivity(record_error(Registers, "BUSY_WRITE"), activity))
  /\ pulse' = "none"
  /\ EndWrite("SLVERR")
  /\ UNCHANGED << config, irq_enable >>

RefuseUnmapped(activity) ==
  /\ Committing("UNMAPPED")
  /\ Assign(AfterActivity(Registers, activity))
  /\ pulse' = "none"
  /\ EndWrite("DECERR")
  /\ UNCHANGED << config, irq_enable >>

Commit(activity) ==
  \/ SoftReset(activity)
  \/ NoStart(activity)
  \/ RefuseStart(activity)
  \/ AcceptStart(activity)
  \/ ClearInterrupts(activity)
  \/ EnableInterrupts(activity)
  \/ Configure(activity)
  \/ RefuseConfigure(activity)
  \/ RefuseUnmapped(activity)

ControlEdge(activity) == NoCommit(activity) \/ Commit(activity)

(* An edge with rst_ni low. *)
HardReset ==
  /\ write' = NoWrite
  /\ pending' = {}
  /\ response' = NoResponse
  /\ config' = [r \in ConfigRegisters |-> 0]
  /\ status' = {} /\ error_code' = "NONE"
  /\ irq_status' = {} /\ irq_enable' = {}
  /\ counter' = ZeroCounters
  /\ error_count' = 0 /\ layer_invocations' = 0
  /\ pulse' = "none"

ControlNext ==
  \/ \E activity \in Activities : ControlEdge(activity) /\ engine_done' \in BOOLEAN
  \/ HardReset /\ engine_done' = FALSE

vars == << controlVars, engine_done >>

Init ==
  /\ ControlInit
  /\ engine_done = FALSE

Spec == Init /\ [][ControlNext]_vars

(* The clock runs, and the host finishes the write it began.               *)
Fairness ==
  /\ WF_vars(\E activity \in Activities : Commit(activity) /\ engine_done' \in BOOLEAN)
  /\ WF_vars(ReceiveWrite /\ pending' = Halves /\ ControlNext)

FairSpec == Spec /\ Fairness
-----------------------------------------------------------------------------
TypeOK ==
  /\ write \in HostWrites \cup {NoWrite}
  /\ pending \subseteq Halves
  /\ response \in {NoResponse, "OKAY", "SLVERR", "DECERR"}
  /\ config \in [ConfigRegisters -> Nat]
  /\ status \subseteq {"busy", "done"}
  /\ error_code \in {"NONE", "INVALID_CONFIG", "START_WHILE_BUSY", "BUSY_WRITE",
                     "EARLY_COMPLETION"}
  /\ irq_status \subseteq {"completion", "error"}
  /\ irq_enable \subseteq {"completion", "error"}
  /\ counter \in [Counters -> Nat]
  /\ error_count \in 0 .. LifetimeMax
  /\ layer_invocations \in 0 .. LifetimeMax
  /\ pulse \in {"none", "start", "soft_reset"}
  /\ engine_done \in BOOLEAN

(* A run executes under one legal configuration: the edge that starts it   *)
(* finds a legal one and leaves it alone, and no edge up to and including  *)
(* the one that ends the run changes a register of it, whatever the host   *)
(* writes meanwhile.  Only a hard reset, which ends the run, clears it.    *)
RunKeepsConfig ==
  [][busy \/ "busy" \in status' =>
       HardReset \/ (config_valid /\ UNCHANGED config)]_vars

(* A start or reset pulse lasts one edge and the next one is at least two  *)
(* edges away: a write can only commit after the response of the one       *)
(* before it was taken.                                                    *)
PulsesAreApart == [][pulse # "none" => pulse' = "none" /\ response # NoResponse]_vars

(* A run never ends silently: the edge that leaves busy announces a reset, *)
(* or raises done and its interrupt, or EARLY_COMPLETION and its           *)
(* interrupt, even when the host clears interrupts or errors on that edge. *)
RunEndsAnnounced ==
  [][busy /\ "busy" \notin status' =>
       \/ pulse' = "soft_reset" \/ HardReset
       \/ "done" \in status' /\ "completion" \in irq_status'
       \/ error_code' = "EARLY_COMPLETION" /\ "error" \in irq_status']_vars

(* Successful completion is announced only with the configured number of   *)
(* outputs counted.                                                        *)
DoneMeansEnoughOutputs ==
  [][/\ "done" \in status' /\ "done" \notin status
     /\ pulse' # "soft_reset"
     => counter'["OUTPUT_COUNT"] >= config["OUTPUT_LENGTH"]]_vars

(* A pending completion interrupt goes away only by a start, a reset or a  *)
(* write of its bit, never because another write or an error came by.      *)
CompletionInterruptSticks ==
  [][/\ "completion" \in irq_status /\ "completion" \notin irq_status'
     => \/ pulse' # "none"
        \/ /\ write # NoWrite /\ write.address = "IRQ_STATUS"
           /\ "completion" \in IrqBits(write.word)
        \/ HardReset]_vars

(* Every write the host begins is committed (which empties both pending    *)
(* halves and raises the response) or wiped by a hard reset; the two       *)
(* halves never wait for each other.                                       *)
EveryWriteCommits == pending # {} ~> pending = {}

(* What register_map.md says of a soft reset. *)
SoftResetClears ==
  [][pulse' = "soft_reset" =>
       status' = {} /\ error_code' = "NONE" /\ irq_status' = {} /\ counter' = ZeroCounters]_vars

=============================================================================
