----------------------------- MODULE StreamFifo -----------------------------
(***************************************************************************)
(* The synchronous FIFO of rtl/memory/tensorwright_stream_fifo.sv, which   *)
(* the activation buffer instantiates unchanged.  One step is one rising   *)
(* clock edge.  The wires of the edge are existentially chosen: a beat the *)
(* producer offers (or none) and the consumer's ready; the four edges      *)
(* below are the four values of {write_transfer, read_transfer}.           *)
(***************************************************************************)
EXTENDS Naturals

CONSTANTS
  Depth,      \* DEPTH, the number of slots
  Data,       \* the values of tdata
  NoBeat      \* no beat: the content of a slot no transfer has written

ASSUME DepthAssumption == Depth \in Nat \ {0}

Beat == [data : Data, last : BOOLEAN]

ASSUME NoBeatAssumption == NoBeat \notin Beat

VARIABLES
  memory,         \* data_memory and last_memory, slot by slot
  write_pointer,
  read_pointer,
  count,          \* count_o
  stalled         \* stalled_data_q and stalled_last_q while stalled_q is set:
                  \* the beat the last edge left unaccepted, or NoBeat

vars == << memory, write_pointer, read_pointer, count, stalled >>

Slots == 0 .. Depth - 1

(* The faulty variants below are not used by the specification: replacing  *)
(* the definition that follows each of them by it breaks a property.       *)
(* The combinational outputs. *)
s_tready == count < Depth

HideLastBeat == count > 1
m_tvalid == count # 0
m_beat   == memory[read_pointer]

(* The pointers wrap at LAST_POINTER, not at a power of two. *)
Advance(pointer) == IF pointer = Depth - 1 THEN 0 ELSE pointer + 1

Init ==
  /\ memory = [s \in Slots |-> NoBeat]
  /\ write_pointer = 0
  /\ read_pointer = 0
  /\ count = 0
  /\ stalled = NoBeat

StoreBehindPointer(b) ==
  /\ memory' = [memory EXCEPT ![Advance(write_pointer)] = b]
  /\ write_pointer' = Advance(write_pointer)

Store(b) ==
  /\ memory' = [memory EXCEPT ![write_pointer] = b]
  /\ write_pointer' = Advance(write_pointer)

KeepWriteSide == UNCHANGED << memory, write_pointer >>

(* The assertion registers of an edge on which the consumer is not ready.  *)
StallOutput == stalled' = IF m_tvalid THEN m_beat ELSE NoBeat

AcceptOutput == stalled' = NoBeat

(* 2'b10: the producer's beat is stored; the consumer takes nothing, so a  *)
(* beat that was offered to it is stalled.                                 *)
WriteOnly(b) ==
  /\ s_tready
  /\ Store(b)
  /\ UNCHANGED read_pointer
  /\ count' = count + 1
  /\ StallOutput

(* 2'b01 *)
ReadOnly ==
  /\ m_tvalid
  /\ KeepWriteSide
  /\ read_pointer' = Advance(read_pointer)
  /\ count' = count - 1
  /\ AcceptOutput

(* 2'b11 *)
WriteAndRead(b) ==
  /\ s_tready
  /\ m_tvalid
  /\ Store(b)
  /\ read_pointer' = Advance(read_pointer)
  /\ UNCHANGED count
  /\ AcceptOutput

(* 2'b00 *)
NoTransfer ==
  /\ KeepWriteSide
  /\ UNCHANGED << read_pointer, count >>
  /\ StallOutput

(* An edge with rst_ni low: the memories keep their content. *)
Reset ==
  /\ write_pointer' = 0
  /\ read_pointer' = 0
  /\ count' = 0
  /\ stalled' = NoBeat
  /\ UNCHANGED memory

Next ==
  \/ \E b \in Beat : WriteOnly(b) \/ WriteAndRead(b)
  \/ ReadOnly
  \/ NoTransfer
  \/ Reset

Spec == Init /\ [][Next]_vars
-----------------------------------------------------------------------------
TypeOK ==
  /\ memory \in [Slots -> Beat \cup {NoBeat}]
  /\ write_pointer \in Slots
  /\ read_pointer \in Slots
  /\ count \in 0 .. Depth
  /\ stalled \in Beat \cup {NoBeat}

(* The slot that holds the i-th beat waiting, counted from 0. *)
Slot(i) ==
  IF read_pointer + i < Depth THEN read_pointer + i ELSE read_pointer + i - Depth

(* The write pointer is always count slots ahead of the read pointer: the  *)
(* two pointers and the counter, updated by separate statements, agree.    *)
PointersAgree == write_pointer = Slot(IF count = Depth THEN 0 ELSE count)

(* A beat once offered and not accepted is still offered, unchanged: the   *)
(* module's own assertions, and the producer's half of the stream contract *)
(* (a stalled tvalid, tdata and tlast stay stable).                        *)
StalledOutputStable ==
  stalled # NoBeat => m_tvalid /\ m_beat = stalled

(* The beats waiting, oldest first. *)
Contents == [i \in 1 .. count |-> memory[Slot(i - 1)]]

Queue == INSTANCE PacketQueue WITH queue <- Contents

(* The FIFO behaves as a bounded queue of beats: nothing is lost,          *)
(* duplicated, reordered or replayed from before a reset.                  *)
ImplementsQueue == Queue!Spec

(* With a consumer that keeps coming back, the beat at the head leaves     *)
(* (or is dropped by a reset): no beat waits for ever behind a buffer that *)
(* has forgotten to offer it.                                              *)
HeadEventuallyLeaves ==
  \A s \in Slots :
    (count # 0 /\ read_pointer = s) ~> (count = 0 \/ read_pointer # s)
=============================================================================
