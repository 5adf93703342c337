---------------------------- MODULE ReadChannel ----------------------------
(***************************************************************************)
(* The read channel of rtl/control/tensorwright_control.sv beside the rest *)
(* of the control plane, and a host that polls: it reads STATUS and then   *)
(* the two words of the cycle counter, over and over, in three separate    *)
(* transactions, while its writes and the engine go on.  The next address  *)
(* is taken once the answer to the one before has been handed over.        *)
(***************************************************************************)
EXTENDS ControlPlane, Sequences

CONSTANTS
  WordModulus,  \* values of one word of the bus (2^32 in the RTL)
  NoRead

ASSUME ReadAssumption ==
  /\ "CYCLE_COUNT" \in Counters
  /\ WordModulus \in Nat \ {0}
  /\ NoRead \notin Nat

VARIABLES
  answer,       \* s_axil_rdata_o while s_axil_rvalid_o, or NoRead
  asked,        \* host: how many addresses of Polls it has handed over and
  heard,        \*   the words it has been given since it began again
  disturbed     \* history: a run was started or aborted since STATUS was read

readVars == << answer, asked, heard, disturbed >>

Polls == << "STATUS", "CYCLE_COUNT_LOW", "CYCLE_COUNT_HIGH" >>

Flag(condition) == IF condition THEN 1 ELSE 0

(* The bits {error, completion} of the interrupt registers as a word.      *)
IrqWord(bits) == Flag("completion" \in bits) + 2 * Flag("error" \in bits)

Wide == {"CYCLE_COUNT", "EXECUTED_MACS"} \cap Counters

ErrorNumber ==
  [NONE |-> 0, INVALID_CONFIG |-> 1, START_WHILE_BUSY |-> 2, BUSY_WRITE |-> 3,
   EARLY_COMPLETION |-> 4]

(* The multiplexer of the registers, as they are before the edge. *)
ReadWord(address) ==
  CASE address = "STATUS" ->
         Flag(busy) + 2 * Flag("done" \in status) + 4 * Flag(error_code # "NONE")
    [] address = "IRQ_STATUS"        -> IrqWord(irq_status)
    [] address = "IRQ_ENABLE"        -> IrqWord(irq_enable)
    [] address = "ERROR_CODE"        -> ErrorNumber[error_code]
    [] address = "ERROR_COUNT"       -> error_count
    [] address = "LAYER_INVOCATIONS" -> layer_invocations
    [] address \in ConfigRegisters   -> config[address]
    [] address \in Counters \ Wide   -> counter[address]
    [] address = "CYCLE_COUNT_LOW"   -> counter["CYCLE_COUNT"] % WordModulus
    [] address = "CYCLE_COUNT_HIGH"  -> counter["CYCLE_COUNT"] \div WordModulus
    [] address = "EXECUTED_MACS_LOW"  /\ "EXECUTED_MACS" \in Wide ->
         counter["EXECUTED_MACS"] % WordModulus
    [] address = "EXECUTED_MACS_HIGH" /\ "EXECUTED_MACS" \in Wide ->
         counter["EXECUTED_MACS"] \div WordModulus
    [] OTHER                         -> 0

(* The host offers the next address, and begins again after the last one   *)
(* when it has been given every answer.                                    *)
AcceptRead ==
  /\ answer = NoRead
  /\ asked < Len(Polls) \/ Len(heard) = Len(Polls)
  /\ LET next == IF asked = Len(Polls) THEN 1 ELSE asked + 1
     IN  /\ asked' = next
         /\ answer' = ReadWord(Polls[next])
         /\ heard' = IF next = 1 THEN << >> ELSE heard
         /\ disturbed' = ((next # 1 /\ disturbed) \/ pulse' # "none")

TakeRead ==
  /\ answer # NoRead
  /\ heard' = Append(heard, answer)
  /\ answer' = NoRead
  /\ disturbed' = (disturbed \/ pulse' # "none")
  /\ UNCHANGED asked

(* No address is offered, or the answer is not taken yet. *)
NoReadTransfer ==
  /\ disturbed' = (disturbed \/ pulse' # "none")
  /\ UNCHANGED << answer, asked, heard >>

ReadEdge == AcceptRead \/ TakeRead \/ NoReadTransfer

ResetRead ==
  /\ answer' = NoRead
  /\ asked' = 0
  /\ heard' = << >>
  /\ disturbed' = TRUE

ReadInit ==
  /\ Init
  /\ answer = NoRead
  /\ asked = 0
  /\ heard = << >>
  /\ disturbed = FALSE

ReadNext ==
  \/ \E activity \in Activities :
       ControlEdge(activity) /\ engine_done' \in BOOLEAN /\ ReadEdge
  \/ HardReset /\ engine_done' = FALSE /\ ResetRead

allVars == << vars, readVars >>

ReadSpec == ReadInit /\ [][ReadNext]_allVars
-----------------------------------------------------------------------------
(* Bit 1 of a STATUS word. *)
DoneHeard == (heard[1] \div 2) % 2 = 1

CyclesHeard == heard[2] + WordModulus * heard[3]

(* A host that has read done in STATUS gets from the two words of the      *)
(* counter, read one after the other, the cycles of the run that ended,    *)
(* unless it has started or aborted a run meanwhile.  (While a run is      *)
(* active the two words are of different edges and may belong to no value  *)
(* the counter ever had.)                                                  *)
PolledCountIsFinal ==
  Len(heard) = Len(Polls) /\ ~disturbed /\ DoneHeard
    => CyclesHeard = counter["CYCLE_COUNT"] /\ ~busy
=============================================================================
