--------------------------- MODULE MCControlPlane ---------------------------
(* Two hosts.  One sends every command of CONTROL that differs in effect,  *)
(* a legal and an illegal kernel, two output lengths, and writes with the  *)
(* low strobe off, and reads nothing: nothing it could write depends on    *)
(* what it reads.  The other configures, starts and aborts runs, and polls *)
(* meanwhile; only for it does the cycle counter take part, with two words *)
(* of two values each.                                                     *)
EXTENDS ReadChannel

CONSTANT Unpolled   \* in place of an answer, for the host that reads nothing

W(address, word) == [address |-> address, word |-> word, strobe |-> TRUE]
Unstrobed(address, word) == [address |-> address, word |-> word, strobe |-> FALSE]

MCHostWrites ==
  {W("CONTROL", 1), W("CONTROL", 3), W("CONTROL", 4), W("CONTROL", 5),
   Unstrobed("CONTROL", 3),
   W("IRQ_STATUS", 1), Unstrobed("IRQ_STATUS", 2), W("IRQ_ENABLE", 3),
   W("KERNEL_CONFIG", Kernel3x3), W("KERNEL_CONFIG", 2),
   W("OUTPUT_LENGTH", 1), W("OUTPUT_LENGTH", 2), Unstrobed("OUTPUT_LENGTH", 0),
   W("UNMAPPED", 0)}

PollingWrites ==
  {W("CONTROL", 1), W("CONTROL", 3), W("KERNEL_CONFIG", Kernel3x3), W("OUTPUT_LENGTH", 1)}

MCConfigRegisters == {"KERNEL_CONFIG", "OUTPUT_LENGTH"}

Polled == INSTANCE ReadChannel
            WITH HostWrites <- PollingWrites, CycleModulus <- WordModulus * WordModulus,
                 CounterMax <- 1, LifetimeMax <- 0

Unread == answer = Unpolled

MCInit ==
  \/ Init /\ Unread /\ asked = 0 /\ heard = << >> /\ disturbed = FALSE
  \/ Polled!ReadInit

MCNext ==
  \/ Unread /\ ControlNext /\ UNCHANGED readVars
  \/ ~Unread /\ Polled!ReadNext

(* ControlPlane!Fairness for the first host.  The writes of the second one  *)
(* are some of the first one's and reads do not touch the write channel,   *)
(* so liveness is asked of the first alone.                                *)
MCFairness ==
  /\ WF_allVars(/\ Unread
               /\ \E activity \in Activities : Commit(activity) /\ engine_done' \in BOOLEAN
               /\ UNCHANGED readVars)
  /\ WF_allVars(Unread /\ ReceiveWrite /\ pending' = Halves /\ ControlNext /\ UNCHANGED readVars)
  /\ []<>Unread

MCSpec == MCInit /\ [][MCNext]_allVars /\ MCFairness
=============================================================================
