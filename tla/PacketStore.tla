---------------------------- MODULE PacketStore ----------------------------
(***************************************************************************)
(* What the weight buffer promises to whoever reads it: one packet of at   *)
(* most Capacity elements, readable from its first element on, that grows  *)
(* until its last element or its last free place and is then closed until  *)
(* it is cleared.                                                          *)
(***************************************************************************)
EXTENDS Naturals, Sequences

CONSTANTS Capacity, Elements

VARIABLES
  content,   \* the elements a reader finds
  closed     \* the packet is complete

vars == << content, closed >>

Init == content = << >> /\ closed = FALSE

Accept(e) ==
  /\ ~closed
  /\ content' = Append(content, e)
  /\ closed' \in {TRUE} \cup IF Len(content) + 1 < Capacity THEN {FALSE} ELSE {}

Clear == content' = << >> /\ closed' = FALSE

Next == Clear \/ \E e \in Elements : Accept(e)

Spec == Init /\ [][Next]_vars
=============================================================================
