---------------------------- MODULE PacketQueue ----------------------------
(***************************************************************************)
(* What a stream buffer promises its two neighbours: the beats accepted on *)
(* the slave side leave on the master side exactly once, in order and with *)
(* their packet boundary, at most Depth of them are held at any time, and  *)
(* a reset drops all of them together.  A beat is opaque here.             *)
(***************************************************************************)
EXTENDS Naturals, Sequences

CONSTANTS
  Depth,   \* how many beats the buffer can hold
  Beat     \* the set of beats (payload and tlast)

VARIABLE queue

Init == queue = << >>

(* A full buffer refuses a beat even on an edge that also delivers one. *)
CanAccept == Len(queue) < Depth

Enqueue(b) ==
  /\ CanAccept
  /\ queue' = Append(queue, b)

Dequeue ==
  /\ queue # << >>
  /\ queue' = Tail(queue)

Exchange(b) ==
  /\ CanAccept
  /\ queue # << >>
  /\ queue' = Append(Tail(queue), b)

Flush == queue' = << >>

Next ==
  \/ \E b \in Beat : Enqueue(b) \/ Exchange(b)
  \/ Dequeue
  \/ Flush

Spec == Init /\ [][Next]_queue
=============================================================================
