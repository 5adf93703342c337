--------------------------- MODULE DatapathProofs ---------------------------
(***************************************************************************)
(* The parts of the data path.  The FIFO is a bounded packet queue and the *)
(* weight memory a store of the present packet, for all depths and         *)
(* payloads: pointers and counter agree, every occupied slot was written   *)
(* since the last reset, and a stalled output keeps its beat.  The window  *)
(* generator hands out the right windows for every image size.             *)
(*                                                                         *)
(* The pipelined core adds up and hands out sums like the abstract queue,  *)
(* for any operands, any settings and any spacing of the beats.  What      *)
(* makes it so is that every beat in the stages finds, when it comes to    *)
(* the accumulator, what the beat before it leaves there: the inductive    *)
(* invariant says that the beat of each stage clears exactly when no sum   *)
(* is open behind it.                                                      *)
(***************************************************************************)
EXTENDS StreamingMemories, WindowGenerator, ArithmeticCore, SequenceTheorems, TLAPS

USE DepthAssumption, NoBeatAssumption DEF DepthAssumption, NoBeatAssumption

(* Every variable of the FIFO keeps its width under every clock edge. *)
THEOREM TypeCorrect == Spec => []TypeOK
<1>1. Init => TypeOK
  BY DEF Init, TypeOK, Slots
<1>2. TypeOK /\ [Next]_vars => TypeOK'
  <2> SUFFICES ASSUME TypeOK, [Next]_vars
               PROVE  TypeOK'
    OBVIOUS
  <2> USE DEF TypeOK, Slots, StallOutput, AcceptOutput, m_tvalid, m_beat
  <2>1. ASSUME NEW b \in Beat, WriteOnly(b)
        PROVE  TypeOK'
    BY <2>1 DEF WriteOnly, s_tready, Store, Advance
  <2>2. ASSUME NEW b \in Beat, WriteAndRead(b)
        PROVE  TypeOK'
    BY <2>2 DEF WriteAndRead, Store, Advance
  <2>3. CASE ReadOnly
    BY <2>3 DEF ReadOnly, KeepWriteSide, Advance
  <2>4. CASE NoTransfer
    BY <2>4 DEF NoTransfer, KeepWriteSide
  <2>5. CASE Reset
    BY <2>5 DEF Reset
  <2>6. CASE UNCHANGED vars
    BY <2>6 DEF vars
  <2>7. QED
    BY <2>1, <2>2, <2>3, <2>4, <2>5, <2>6 DEF Next
<1>3. QED
  BY <1>1, <1>2, PTL DEF Spec
-----------------------------------------------------------------------------
(* Advancing the read pointer shifts the numbering of the slots by one. *)
LEMMA SlotAfterRead ==
  ASSUME TypeOK, read_pointer' = Advance(read_pointer),
         NEW i \in 0 .. Depth - 2
  PROVE  Slot(i)' = Slot(i + 1)
  BY DEF TypeOK, Slots, Slot, Advance

(* The slot where the next beat goes is the first one behind those waiting, *)
(* so it is none of them.                                                   *)
LEMMA WriteSlot ==
  ASSUME TypeOK, PointersAgree, count < Depth
  PROVE  /\ write_pointer = Slot(count)
         /\ \A i \in 0 .. count - 1 : Slot(i) # write_pointer /\ Slot(i) \in Slots
  BY DEF TypeOK, PointersAgree, Slot, Slots

(* Every slot between the pointers holds a beat a transfer wrote: the FIFO *)
(* never offers a slot whose content is still unknown.                     *)
OccupiedSlotsWritten == \A i \in 0 .. count - 1 : memory[Slot(i)] \in Beat

(* The inductive invariant: the pointers and the counter agree, what lies  *)
(* between them was written, and the assertion registers describe an       *)
(* output that is still offered.                                           *)
FifoInv ==
  /\ TypeOK
  /\ PointersAgree
  /\ OccupiedSlotsWritten
  /\ StalledOutputStable

(* No clock edge breaks the agreement of pointers, counter and memory, and *)
(* an offered beat that is not accepted stays offered unchanged.           *)
THEOREM FifoInvariant == Spec => []FifoInv
<1>1. Init => FifoInv
  BY DEF Init, FifoInv, TypeOK, Slots, PointersAgree, OccupiedSlotsWritten,
         Slot, StalledOutputStable
<1>2. FifoInv /\ TypeOK' /\ [Next]_vars => FifoInv'
  <2> SUFFICES ASSUME FifoInv, TypeOK', [Next]_vars
               PROVE  PointersAgree' /\ OccupiedSlotsWritten' /\ StalledOutputStable'
    BY DEF FifoInv
  <2>t. TypeOK /\ PointersAgree /\ OccupiedSlotsWritten /\ StalledOutputStable
    BY DEF FifoInv
  <2> USE DEF StalledOutputStable, StallOutput, AcceptOutput, m_tvalid, m_beat
  <2>1. ASSUME NEW b \in Beat, WriteOnly(b)
        PROVE  PointersAgree' /\ OccupiedSlotsWritten' /\ StalledOutputStable'
    <3> USE <2>1, <2>t DEF WriteOnly, s_tready, Store
    <3>1. PointersAgree'
      BY DEF PointersAgree, TypeOK, Slots, Slot, Advance
    <3>2. /\ write_pointer = Slot(count)
          /\ \A i \in 0 .. count - 1 : Slot(i) # write_pointer /\ Slot(i) \in Slots
      BY WriteSlot
    <3>3. /\ memory'[write_pointer] = b
          /\ \A i \in 0 .. count - 1 : memory'[Slot(i)] = memory[Slot(i)]
      BY <3>2 DEF TypeOK
    <3>4. OccupiedSlotsWritten'
      BY <3>2, <3>3 DEF OccupiedSlotsWritten, TypeOK, Slot
    <3>5. StalledOutputStable'
      BY <3>3 DEF TypeOK, Slots, Slot
    <3>6. QED
      BY <3>1, <3>4, <3>5
  <2>2. ASSUME NEW b \in Beat, WriteAndRead(b)
        PROVE  PointersAgree' /\ OccupiedSlotsWritten' /\ StalledOutputStable'
    <3> USE <2>2, <2>t DEF WriteAndRead, s_tready, Store
    <3>1. PointersAgree'
      BY DEF PointersAgree, TypeOK, Slots, Slot, Advance
    <3>2. /\ write_pointer = Slot(count)
          /\ \A i \in 0 .. count - 1 : Slot(i) # write_pointer /\ Slot(i) \in Slots
      BY WriteSlot
    <3>3. /\ memory'[write_pointer] = b
          /\ \A i \in 0 .. count - 1 : memory'[Slot(i)] = memory[Slot(i)]
      BY <3>2 DEF TypeOK
    <3>4. \A i \in 0 .. count - 1 : Slot(i)' = Slot(i + 1)
      BY SlotAfterRead DEF TypeOK
    <3>5. OccupiedSlotsWritten'
      <4> SUFFICES ASSUME NEW i \in 0 .. count - 1
                   PROVE  memory'[Slot(i)'] \in Beat
        BY DEF OccupiedSlotsWritten
      <4>1. CASE i = count - 1
        BY <4>1, <3>2, <3>3, <3>4 DEF TypeOK
      <4>2. CASE i # count - 1
        BY <4>2, <3>3, <3>4 DEF OccupiedSlotsWritten, TypeOK
      <4>3. QED
        BY <4>1, <4>2
    <3>6. QED
      BY <3>1, <3>5
  <2>3. CASE ReadOnly
    <3> USE <2>3, <2>t DEF ReadOnly, KeepWriteSide
    <3>1. PointersAgree'
      BY DEF PointersAgree, TypeOK, Slots, Slot, Advance
    <3>2. \A i \in 0 .. count - 2 : Slot(i)' = Slot(i + 1)
      BY SlotAfterRead DEF TypeOK
    <3>3. OccupiedSlotsWritten'
      BY <3>2 DEF OccupiedSlotsWritten, TypeOK
    <3>4. QED
      BY <3>1, <3>3
  <2>4. CASE NoTransfer
    BY <2>4, <2>t DEF NoTransfer, KeepWriteSide, PointersAgree, OccupiedSlotsWritten,
                      Slot
  <2>5. CASE Reset
    BY <2>5 DEF Reset, PointersAgree, OccupiedSlotsWritten, Slot
  <2>6. CASE UNCHANGED vars
    BY <2>6, <2>t DEF vars, PointersAgree, OccupiedSlotsWritten, Slot
  <2>7. QED
    BY <2>1, <2>2, <2>3, <2>4, <2>5, <2>6 DEF Next
<1>3. QED
  BY <1>1, <1>2, TypeCorrect, PTL DEF Spec

(* The module's stream assertions hold on every run. *)
THEOREM OutputStable == Spec => []StalledOutputStable
  BY FifoInvariant, PTL DEF FifoInv

(* Occupancy never leaves the pointers behind. *)
THEOREM PointersAlwaysAgree == Spec => []PointersAgree
  BY FifoInvariant, PTL DEF FifoInv

(* The FIFO never offers a slot nobody wrote. *)
THEOREM OffersOnlyWrittenSlots == Spec => []OccupiedSlotsWritten
  BY FifoInvariant, PTL DEF FifoInv
-----------------------------------------------------------------------------
(* The beats waiting form a sequence as long as the counter says. *)
LEMMA ContentsIsSequence ==
  ASSUME TypeOK, OccupiedSlotsWritten
  PROVE  /\ Contents \in Seq(Beat)
         /\ Len(Contents) = count
         /\ \A i \in 1 .. count : Contents[i] = memory[Slot(i - 1)]
<1>1. count \in Nat
  BY DEF TypeOK
<1>2. \A i \in 1 .. count : memory[Slot(i - 1)] \in Beat
  BY <1>1 DEF OccupiedSlotsWritten
<1>3. Contents \in [1 .. count -> Beat]
  BY <1>2 DEF Contents
<1>4. Contents \in Seq(Beat)
  BY <1>1, <1>3, SeqDef
<1>5. Len(Contents) = count
  BY <1>1, <1>3, <1>4, LenProperties
<1>6. QED
  BY <1>4, <1>5 DEF Contents

(* The FIFO implements the bounded queue: every edge is an enqueue, a      *)
(* dequeue, both at once, a flush, or leaves the waiting beats alone.      *)
THEOREM Refinement == Spec => ImplementsQueue
<1>1. Init => Queue!Init
  BY DEF Init, Queue!Init, Contents
<1> DEFINE Waiting ==
             /\ Contents \in Seq(Beat)
             /\ Len(Contents) = count
             /\ \A i \in 1 .. count : Contents[i] = memory[Slot(i - 1)]
             /\ count \in 0 .. Depth
<1>c. FifoInv => Waiting
  BY ContentsIsSequence DEF FifoInv, TypeOK
<1>d. FifoInv' => Waiting'
  BY <1>c, PTL
<1>2. FifoInv /\ FifoInv' /\ [Next]_vars => [Queue!Next]_Contents
  <2> SUFFICES ASSUME FifoInv, FifoInv', [Next]_vars
               PROVE  Queue!Next \/ Contents' = Contents
    OBVIOUS
  <2>t. TypeOK /\ PointersAgree /\ OccupiedSlotsWritten
    BY DEF FifoInv
  <2>c. /\ Contents \in Seq(Beat)
        /\ Len(Contents) = count
        /\ \A i \in 1 .. count : Contents[i] = memory[Slot(i - 1)]
        /\ count \in 0 .. Depth
    BY <1>c
  <2>d. /\ Contents' \in Seq(Beat)
        /\ Len(Contents') = count'
        /\ \A i \in 1 .. count' : Contents'[i] = memory'[Slot(i - 1)']
    BY <1>d
  <2>1. ASSUME NEW b \in Beat, WriteOnly(b)
        PROVE  Queue!Enqueue(b)
    <3> USE <2>1 DEF WriteOnly, s_tready, Store
    <3>1. /\ write_pointer = Slot(count)
          /\ \A i \in 0 .. count - 1 : Slot(i) # write_pointer /\ Slot(i) \in Slots
      BY <2>t, WriteSlot
    <3>2. /\ memory'[Slot(count)] = b
          /\ \A i \in 1 .. count : memory'[Slot(i - 1)] = memory[Slot(i - 1)]
      BY <2>t, <3>1 DEF TypeOK
    <3>r. \A i \in Nat : Slot(i)' = Slot(i)
      BY DEF Slot
    <3>3. /\ Append(Contents, b) \in Seq(Beat)
          /\ Len(Append(Contents, b)) = count + 1
          /\ \A i \in 1 .. count : Append(Contents, b)[i] = Contents[i]
          /\ Append(Contents, b)[count + 1] = b
      BY <2>c, AppendProperties
    <3>4. \A i \in 1 .. count + 1 : Contents'[i] = Append(Contents, b)[i]
      <4> SUFFICES ASSUME NEW i \in 1 .. count + 1
                   PROVE  Contents'[i] = Append(Contents, b)[i]
        OBVIOUS
      <4>1. Contents'[i] = memory'[Slot(i - 1)]
        <5>1. i \in 1 .. count' /\ i - 1 \in Nat
          BY <2>c
        <5>2. Contents'[i] = memory'[Slot(i - 1)']
          BY <2>d, <5>1
        <5>3. Slot(i - 1)' = Slot(i - 1)
          BY <3>r, <5>1
        <5>4. QED
          BY <5>2, <5>3
      <4>2. CASE i = count + 1
        BY <4>1, <4>2, <2>c, <3>2, <3>3
      <4>3. CASE i # count + 1
        BY <4>1, <4>3, <2>c, <3>2, <3>3
      <4>4. QED
        BY <4>2, <4>3
    <3>5. Contents' = Append(Contents, b)
      BY <2>d, <3>3, <3>4, SeqEqual
    <3>6. QED
      BY <2>c, <3>5 DEF Queue!Enqueue, Queue!CanAccept
  <2>2. ASSUME NEW b \in Beat, WriteAndRead(b)
        PROVE  Queue!Exchange(b)
    <3> USE <2>2 DEF WriteAndRead, s_tready, m_tvalid, Store
    <3> DEFINE rest == Tail(Contents)
    <3>0. Contents # << >>
      BY <2>c, EmptySeq
    <3>1. /\ write_pointer = Slot(count)
          /\ \A i \in 0 .. count - 1 : Slot(i) # write_pointer /\ Slot(i) \in Slots
      BY <2>t, WriteSlot
    <3>2. \A i \in 0 .. count - 1 : Slot(i)' = Slot(i + 1)
      BY <2>t, SlotAfterRead DEF TypeOK
    <3>3. /\ memory'[Slot(count - 1)'] = b
          /\ \A i \in 1 .. count - 1 : memory'[Slot(i - 1)'] = memory[Slot(i)]
      BY <2>c, <2>t, <3>1, <3>2 DEF TypeOK
    <3>4. /\ rest \in Seq(Beat)
          /\ Len(rest) = count - 1
          /\ \A i \in 1 .. count - 1 : rest[i] = Contents[i + 1]
          /\ \A i \in 1 .. count - 1 : Contents[i + 1] = memory[Slot(i)]
      BY <2>c, <3>0, HeadTailProperties
    <3>5. /\ Append(rest, b) \in Seq(Beat)
          /\ Len(Append(rest, b)) = count
          /\ \A i \in 1 .. count - 1 : Append(rest, b)[i] = rest[i]
          /\ Append(rest, b)[count] = b
      BY <2>c, <3>4, AppendProperties
    <3>6. \A i \in 1 .. count : Contents'[i] = Append(rest, b)[i]
      <4> SUFFICES ASSUME NEW i \in 1 .. count
                   PROVE  Contents'[i] = Append(rest, b)[i]
        OBVIOUS
      <4>1. CASE i = count
        BY <4>1, <2>c, <2>d, <3>3, <3>5
      <4>2. CASE i # count
        <5>1. i \in 1 .. count - 1 /\ i \in 1 .. count'
          BY <4>2, <2>c
        <5>2. Contents'[i] = memory[Slot(i)]
          BY <5>1, <2>d, <3>3
        <5>3. Append(rest, b)[i] = memory[Slot(i)]
          BY <5>1, <3>4, <3>5
        <5>4. QED
          BY <5>2, <5>3
      <4>3. QED
        BY <4>1, <4>2
    <3>7. Contents' = Append(rest, b)
      BY <2>c, <2>d, <3>5, <3>6, SeqEqual
    <3>8. QED
      BY <2>c, <3>0, <3>7 DEF Queue!Exchange, Queue!CanAccept
  <2>3. ASSUME ReadOnly
        PROVE  Queue!Dequeue
    <3> USE <2>3 DEF ReadOnly, m_tvalid, KeepWriteSide
    <3>0. Contents # << >>
      BY <2>c, EmptySeq
    <3>1. \A i \in 1 .. count - 1 : memory'[Slot(i - 1)'] = memory[Slot(i)]
      BY <2>c, <2>t, SlotAfterRead
    <3>2. /\ Tail(Contents) \in Seq(Beat)
          /\ Len(Tail(Contents)) = count - 1
          /\ \A i \in 1 .. count - 1 : Tail(Contents)[i] = Contents[i + 1]
      BY <2>c, <3>0, HeadTailProperties
    <3>3. \A i \in 1 .. count - 1 : Contents'[i] = Tail(Contents)[i]
      BY <2>c, <2>d, <3>1, <3>2
    <3>4. Contents' = Tail(Contents)
      BY <2>c, <2>d, <3>2, <3>3, SeqEqual
    <3>5. QED
      BY <3>0, <3>4 DEF Queue!Dequeue
  <2>4. CASE NoTransfer
    BY <2>4 DEF NoTransfer, KeepWriteSide, Contents, Slot
  <2>5. CASE Reset
    BY <2>5 DEF Reset, Queue!Flush, Queue!Next, Contents
  <2>6. CASE UNCHANGED vars
    BY <2>6 DEF vars, Contents, Slot
  <2>7. QED
    BY <2>1, <2>2, <2>3, <2>4, <2>5, <2>6 DEF Next, Queue!Next
<1>3. QED
  BY <1>1, <1>2, FifoInvariant, PTL DEF Spec, ImplementsQueue, Queue!Spec
-----------------------------------------------------------------------------
(* Beside the weight buffer, on one clock and one reset, the FIFO is still *)
(* this FIFO: every edge of the two is one of its edges.                   *)
THEOREM FifoOfTheMemories == StreamingSpec => Spec
<1>1. StreamingInit => Init
  BY DEF StreamingInit
<1>2. [StreamingNext]_memoryVars => [Next]_vars
  BY DEF StreamingNext, FifoEdge, Next, memoryVars, vars
<1>3. QED
  BY <1>1, <1>2, PTL DEF StreamingSpec, Spec

(* So the memories implement the bounded packet queue as well.             *)
THEOREM MemoriesImplementQueue == StreamingSpec => ImplementsQueue
  BY FifoOfTheMemories, Refinement, PTL

-----------------------------------------------------------------------------
(* What is behind the counter was written, and the counter stays within    *)
(* the memory, so it is its own index of ADDRESS_WIDTH bits.               *)
WeightInv ==
  /\ weight_memory \in [0 .. WeightDepth - 1 -> WeightData \cup {Unknown}]
  /\ weight_count \in 0 .. WeightDepth
  /\ \A a \in 0 .. weight_count - 1 : weight_memory[a] \in WeightData

Stored == [i \in 1 .. weight_count |-> weight_memory[i - 1]]

(* So the index of a word to be written is the counter itself. *)
LEMMA WriteAtCount ==
  ASSUME WeightInv, NEW data, NEW last, Weights!Write(data, last)
  PROVE  /\ weight_count \in 0 .. WeightDepth - 1 /\ weight_count' = weight_count + 1
         /\ weight_memory' = [weight_memory EXCEPT ![weight_count] = data]
         /\ ~loaded /\ loaded' = (loaded \/ last \/ weight_count = WeightDepth - 1)
<1>1. /\ weight_count \in 0 .. WeightDepth /\ weight_count < WeightDepth
      /\ WeightDepth \in Nat /\ AddressSpace \in Nat /\ AddressSpace >= WeightDepth
  BY WeightAssumption DEF WeightAssumption, WeightInv, Weights!Write, Weights!s_tready
<1>2. weight_count % AddressSpace = weight_count
  BY <1>1
<1>3. ~loaded /\ loaded' = (loaded \/ last \/ weight_count = WeightDepth - 1)
  BY Zenon DEF Weights!Write, Weights!s_tready
<1>4. /\ weight_memory' = [weight_memory EXCEPT ![weight_count] = data]
      /\ weight_count' = weight_count + 1
  BY <1>2 DEF Weights!Write, Weights!write_index
<1>5. weight_count \in 0 .. WeightDepth - 1
  BY <1>1
<1>. QED  BY <1>3, <1>4, <1>5

(* No clock edge overruns the weight memory or uncovers an unwritten word. *)
THEOREM WeightInvariant == StreamingSpec => []WeightInv
<1>. USE WeightAssumption DEF WeightAssumption
<1>1. StreamingInit => WeightInv
  BY DEF StreamingInit, WeightInv, Weights!Init, Weights!Addresses
<1>2. WeightInv /\ [StreamingNext]_memoryVars => WeightInv'
  <2>1. SUFFICES ASSUME WeightInv, [StreamingNext]_memoryVars PROVE WeightInv'
    OBVIOUS
  <2>2. CASE UNCHANGED weightVars
    BY <2>1, <2>2 DEF WeightInv, weightVars
  <2>3. CASE Weights!Clear
    BY <2>1, <2>3 DEF WeightInv, Weights!Clear
  <2>4. ASSUME NEW data \in WeightData, NEW last \in BOOLEAN, Weights!Write(data, last)
        PROVE  WeightInv'
    <3>1. /\ weight_count \in 0 .. WeightDepth - 1 /\ weight_count' = weight_count + 1
          /\ weight_memory' = [weight_memory EXCEPT ![weight_count] = data]
      BY <2>1, <2>4, WriteAtCount
    <3>. QED  BY <2>1, <3>1 DEF WeightInv
  <2>. QED
    BY <2>1, <2>2, <2>3, <2>4 DEF StreamingNext, WeightEdge, Weights!Next, memoryVars
<1>. QED  BY <1>1, <1>2, PTL DEF StreamingSpec

(* What a reader finds is the words behind the counter, in order.          *)
Read == [i \in {a + 1 : a \in Weights!Readable} |-> Weights!read_data(i - 1)]

ReadsStored ==
  Read = Stored /\ Stored \in Seq(WeightData) /\ Len(Stored) = weight_count

LEMMA StoredIsRead == WeightInv => ReadsStored
<1>0. SUFFICES ASSUME WeightInv PROVE ReadsStored
  OBVIOUS
<1>1. {a + 1 : a \in Weights!Readable} = 1 .. weight_count
  <2>1. weight_count \in 0 .. WeightDepth /\ WeightDepth \in Nat
    BY <1>0, WeightAssumption DEF WeightInv, WeightAssumption
  <2>2. Weights!Readable = {a \in 0 .. WeightDepth - 1 : a < weight_count}
    BY DEF Weights!Readable, Weights!Addresses, Weights!read_valid
  <2>3. \A a : a \in Weights!Readable <=> a \in 0 .. weight_count - 1
    BY <2>1, <2>2
  <2>4. \A i \in 1 .. weight_count : i - 1 \in 0 .. weight_count - 1 /\ i = (i - 1) + 1
    BY <2>1
  <2>5. \A a \in 0 .. weight_count - 1 : a + 1 \in 1 .. weight_count
    BY <2>1
  <2>. QED  BY <2>3, <2>4, <2>5
<1>2. Stored \in [1 .. weight_count -> WeightData] /\ weight_count \in Nat
  BY <1>0 DEF WeightInv, Stored
<1>3. Stored \in Seq(WeightData) /\ Len(Stored) = weight_count
  BY <1>2, SeqDef, LenProperties
<1>. QED  BY <1>1, <1>3 DEF ReadsStored, Read, Stored, Weights!read_data

(* A reader of the weights finds the present packet, all of it and only    *)
(* it, whatever the memory held before; a complete packet takes no further *)
(* element until it is cleared, and a full store is complete.              *)
THEOREM MemoriesImplementStore == StreamingSpec => ImplementsPacketStore
<1>. USE WeightAssumption DEF WeightAssumption
<1>a. WeightInv' => ReadsStored'
  BY StoredIsRead, PTL
<1>1. StreamingInit => Weights!Store!Init
  <2>1. SUFFICES ASSUME StreamingInit PROVE Read = << >> /\ loaded = FALSE
    BY DEF Weights!Store!Init, Read
  <2>2. Weights!Readable = {}
    BY <2>1 DEF StreamingInit, Weights!Init, Weights!Readable, Weights!Addresses, Weights!read_valid
  <2>. QED  BY <2>1, <2>2 DEF StreamingInit, Weights!Init, Read
<1>2. WeightInv /\ WeightInv' /\ [StreamingNext]_memoryVars
        => [Weights!Store!Next]_(Weights!Store!vars)
  <2>1. SUFFICES ASSUME WeightInv, WeightInv', [StreamingNext]_memoryVars
                 PROVE  [Weights!Store!Next]_(Weights!Store!vars)
    OBVIOUS
  <2>2. CASE UNCHANGED weightVars
    <3>1. Read' = Read /\ loaded' = loaded
      BY <2>2 DEF weightVars, Read, Weights!Readable, Weights!Addresses, Weights!read_valid,
                  Weights!read_data
    <3>. QED  BY <3>1 DEF Weights!Store!vars, Read
  <2>3. CASE Weights!Clear
    <3>1. Read' = Stored' /\ weight_count' = 0 /\ loaded' = FALSE
      BY <1>a, <2>1, <2>3 DEF Weights!Clear, ReadsStored
    <3>2. Stored' = << >>
      BY <3>1 DEF Stored
    <3>. QED  BY <3>1, <3>2 DEF Weights!Store!Next, Weights!Store!Clear, Read
  <2>4. ASSUME NEW data \in WeightData, NEW last \in BOOLEAN, Weights!Write(data, last)
        PROVE  Weights!Store!Accept(data)
    <3>1. /\ weight_count \in 0 .. WeightDepth - 1 /\ weight_count' = weight_count + 1
          /\ weight_memory' = [weight_memory EXCEPT ![weight_count] = data]
          /\ ~loaded /\ loaded' = (loaded \/ last \/ weight_count = WeightDepth - 1)
      BY <2>1, <2>4, WriteAtCount
    <3>2. /\ Stored \in Seq(WeightData) /\ Len(Stored) = weight_count
          /\ Stored' \in Seq(WeightData) /\ Len(Stored') = weight_count'
      BY <1>a, <2>1, StoredIsRead DEF ReadsStored
    <3>3. Stored' = Append(Stored, data)
      <4>1. /\ Append(Stored, data) \in Seq(WeightData)
            /\ Len(Append(Stored, data)) = weight_count + 1
            /\ \A i \in 1 .. weight_count : Append(Stored, data)[i] = Stored[i]
            /\ Append(Stored, data)[weight_count + 1] = data
        BY <3>2, AppendProperties
      <4>2. \A i \in 1 .. weight_count + 1 : Stored'[i] = Append(Stored, data)[i]
        BY <2>1, <3>1, <4>1 DEF Stored, WeightInv
      <4>. QED  BY <3>1, <3>2, <4>1, <4>2, SeqEqual
    <3>4. loaded' \in {TRUE} \cup IF Len(Stored) + 1 < WeightDepth THEN {FALSE} ELSE {}
      <4>1. CASE weight_count = WeightDepth - 1
        BY <3>1, <4>1
      <4>2. CASE weight_count # WeightDepth - 1
        <5>1. Len(Stored) + 1 < WeightDepth
          BY <3>1, <3>2, <4>2
        <5>2. loaded' \in BOOLEAN
          BY <3>1
        <5>. QED  BY <5>1, <5>2
      <4>. QED  BY <4>1, <4>2
    <3>5. Read = Stored /\ Read' = Stored'
      BY <1>a, <2>1, StoredIsRead DEF ReadsStored
    <3>. QED  BY <3>1, <3>3, <3>4, <3>5 DEF Weights!Store!Accept, Read
  <2>. QED
    BY <2>1, <2>2, <2>3, <2>4
    DEF StreamingNext, WeightEdge, Weights!Next, Weights!Store!Next, memoryVars
<1>. QED
  BY <1>1, <1>2, WeightInvariant, PTL
  DEF StreamingSpec, ImplementsPacketStore, Weights!ImplementsPacketStore, Weights!Store!Spec
-----------------------------------------------------------------------------
USE ImageAssumption DEF ImageAssumption

SourceFollows == source.row = row /\ source.column = column

(* The taps hold the last two pixels of the three rows, as far as the row  *)
(* and the frame have them.                                                *)
TapsHoldFrame ==
  /\ column >= 1 => /\ bottom.middle = At(row, column - 1)
                    /\ row >= 1 => middle.middle = At(row - 1, column - 1)
                    /\ row >= 2 => top.middle = At(row - 2, column - 1)
  /\ column >= 2 => /\ bottom.left = At(row, column - 2)
                    /\ row >= 1 => middle.left = At(row - 1, column - 2)
                    /\ row >= 2 => top.left = At(row - 2, column - 2)

GeneratorInv ==
  GeneratorTypeOK /\ SourceFollows /\ LinesHoldFrame /\ TapsHoldFrame /\ WindowsInOrder

-----------------------------------------------------------------------------
(* The raster order stays inside the frame. *)
LEMMA FollowingIsPixel ==
  ASSUME NEW pixel \in Pixel
  PROVE  Following(pixel) \in Pixel
BY DEF Following, Pixel, Rows, Columns

LEMMA NextCornerIsPixel ==
  ASSUME NEW pixel \in Pixel
  PROVE  NextCorner(pixel) \in Pixel /\ NextCorner(pixel).row >= 2
         /\ NextCorner(pixel).column >= 2
BY DEF NextCorner, Pixel, Rows, Columns

(* A pixel that completes no window has the same next corner as the pixel  *)
(* that follows it, and a pixel that completes one is its own.             *)
LEMMA CornerSkips ==
  ASSUME NEW pixel \in Pixel, ~(pixel.row >= 2 /\ pixel.column >= 2)
  PROVE  NextCorner(pixel) = NextCorner(Following(pixel))
<1>1. CASE pixel.row < 2
  BY <1>1 DEF NextCorner, Following, Pixel, Rows, Columns
<1>2. CASE pixel.row >= 2 /\ pixel.column < 2
  BY <1>2 DEF NextCorner, Following, Pixel, Rows, Columns
<1>. QED  BY <1>1, <1>2 DEF Pixel, Rows, Columns

LEMMA CornerStays ==
  ASSUME NEW pixel \in Pixel, pixel.row >= 2, pixel.column >= 2
  PROVE  NextCorner(pixel) = pixel
BY DEF NextCorner, Pixel, Rows, Columns

(* A window of a frame is not the absence of a window. *)
LEMMA WindowAtIsWindow ==
  ASSUME NEW pixel \in Pixel, pixel.row >= 2, pixel.column >= 2
  PROVE  WindowAt(pixel) \in Window /\ WindowAt(pixel) # NoWindow
<1>1. ASSUME NEW r \in {pixel.row - 2, pixel.row - 1, pixel.row}
      PROVE  StripAt(pixel.frame, r, pixel.column) \in Strip
  BY DEF StripAt, Strip, Content, Pixel, Rows, Columns
<1>2. WindowAt(pixel) \in Window
  BY <1>1 DEF WindowAt, Window
<1>. QED  BY <1>2, NoWindowAssumption DEF NoWindowAssumption

(* On an edge that completes a window, what is assembled is that window.   *)
LEMMA AssembledIsWindow ==
  ASSUME GeneratorInv, produces_window
  PROVE  Assembled(source) = WindowAt(source)
<1>1. /\ row \in Nat /\ column \in Nat /\ row >= 2 /\ column >= 2 /\ column \in Columns
      /\ source.row = row /\ source.column = column
  BY DEF GeneratorInv, GeneratorTypeOK, SourceFollows, produces_window, Rows, Columns
<1>2. /\ previous_row[column] = At(row - 1, column)
      /\ two_rows_back[column] = At(row - 2, column)
  BY <1>1 DEF GeneratorInv, LinesHoldFrame
<1>3. /\ bottom.middle = At(row, column - 1) /\ bottom.left = At(row, column - 2)
      /\ middle.middle = At(row - 1, column - 1) /\ middle.left = At(row - 1, column - 2)
      /\ top.middle = At(row - 2, column - 1) /\ top.left = At(row - 2, column - 2)
  BY <1>1 DEF GeneratorInv, TapsHoldFrame
<1>4. source = At(row, column)
  BY DEF GeneratorInv, GeneratorTypeOK, SourceFollows, At, Pixel
<1>5. /\ << top.left, top.middle, two_rows_back[column] >> = StripAt(source.frame, row - 2, column)
      /\ << middle.left, middle.middle, previous_row[column] >>
           = StripAt(source.frame, row - 1, column)
      /\ << bottom.left, bottom.middle, source >> = StripAt(source.frame, row, column)
  BY <1>2, <1>3, <1>4 DEF StripAt, At
<1>6. (last_row /\ last_column) = (row = IMAGE_HEIGHT - 1 /\ column = IMAGE_WIDTH - 1)
  BY DEF last_row, last_column
<1>. QED  BY <1>1, <1>5, <1>6, Zenon DEF Assembled, WindowAt

-----------------------------------------------------------------------------
LEMMA GeneratorInitInv == GeneratorInit => GeneratorInv
<1>. SUFFICES ASSUME GeneratorInit PROVE GeneratorInv
  OBVIOUS
<1>1. source \in Pixel /\ SourceFollows
  BY DEF GeneratorInit, SourceFollows, Pixel, Rows, Columns
<1>2. GeneratorTypeOK
  BY <1>1, NextCornerIsPixel
     DEF GeneratorInit, GeneratorTypeOK, Pixel, Rows, Columns, EmptyLine, EmptyTap, Content
<1>3. LinesHoldFrame
  BY DEF GeneratorInit, LinesHoldFrame, Columns
<1>4. TapsHoldFrame
  BY DEF GeneratorInit, TapsHoldFrame
<1>5. WindowsInOrder
  BY DEF GeneratorInit, WindowsInOrder
<1>. QED  BY <1>1, <1>2, <1>3, <1>4, <1>5 DEF GeneratorInv

(* A pixel is shifted into the line buffers and the taps. *)
LEMMA TransferKeepsWindows ==
  ASSUME GeneratorInv, NEW output_ready \in BOOLEAN, Transfer(output_ready)
  PROVE  GeneratorInv'
<1>. USE DEF GeneratorInv, Transfer
<1>1. /\ source \in Pixel /\ row \in Rows /\ column \in Columns
      /\ source.row = row /\ source.column = column
      /\ source = At(row, column)
  BY DEF GeneratorTypeOK, SourceFollows, At, Pixel
<1>2. source' \in Pixel
  BY <1>1, FollowingIsPixel
<1>3. row' \in Rows /\ column' \in Columns /\ SourceFollows'
  BY <1>1 DEF SourceFollows, AdvancePosition, Following, last_row, last_column, Pixel, Rows, Columns
<1>4. expected' \in Pixel
  BY FollowingIsPixel, NextCornerIsPixel DEF GeneratorTypeOK
<1>5. LinesHoldFrame'
  <2>. SUFFICES ASSUME NEW c \in Columns,
                       NEW coming, coming = IF c < column' THEN row' + 1 ELSE row'
                PROVE  /\ coming >= 1 => previous_row'[c] = At(coming - 1, c)'
                       /\ coming >= 2 => two_rows_back'[c] = At(coming - 2, c)'
    BY DEF LinesHoldFrame, At
  <2>1. CASE last_column /\ last_row
    BY <2>1, <1>1 DEF AdvancePosition, Rows, Columns
  <2>2. CASE ~(last_column /\ last_row)
    <3>1. source'.frame = source.frame
      BY <2>2, <1>1 DEF Following, last_row, last_column, Pixel
    <3>2. \A r, k : At(r, k)' = At(r, k)
      BY <3>1 DEF At
    <3>3. /\ previous_row' = [previous_row EXCEPT ![column] = source]
          /\ two_rows_back' = [two_rows_back EXCEPT ![column] = previous_row[column]]
      BY DEF ShiftLines
    <3>4. /\ previous_row \in [Columns -> Content]
          /\ two_rows_back \in [Columns -> Content]
      BY DEF GeneratorTypeOK
    <3>5. CASE c = column
      <4>1. coming = row + 1
        BY <3>5, <2>2, <1>1 DEF AdvancePosition, last_row, last_column, Rows, Columns
      <4>2. previous_row'[c] = At(coming - 1, c)'
        BY <3>2, <3>3, <3>4, <3>5, <4>1, <1>1 DEF Rows
      <4>3. coming >= 2 => two_rows_back'[c] = At(coming - 2, c)'
        BY <3>2, <3>3, <3>4, <3>5, <4>1, <1>1 DEF Rows, Columns, LinesHoldFrame
      <4>. QED  BY <4>2, <4>3
    <3>6. CASE c # column
      <4>1. coming = IF c < column THEN row + 1 ELSE row
        BY <3>6, <2>2, <1>1 DEF AdvancePosition, last_row, last_column, Rows, Columns
      <4>2. previous_row'[c] = previous_row[c] /\ two_rows_back'[c] = two_rows_back[c]
        BY <3>3, <3>4, <3>6
      <4>. QED  BY <4>1, <4>2, <3>2 DEF LinesHoldFrame
    <3>. QED  BY <3>5, <3>6
  <2>. QED  BY <2>1, <2>2
<1>6. TapsHoldFrame'
  <2>1. CASE last_column
    BY <2>1 DEF TapsHoldFrame, AdvancePosition
  <2>2. CASE ~last_column
    <3>1. column' = column + 1 /\ row' = row /\ source'.frame = source.frame
      BY <2>2, <1>1 DEF AdvancePosition, Following, last_column, Pixel
    <3>2. \A r, k : At(r, k)' = At(r, k)
      BY <3>1 DEF At
    <3>3. /\ bottom' = [left |-> bottom.middle, middle |-> source]
          /\ middle' = [left |-> middle.middle, middle |-> previous_row[column]]
          /\ top' = [left |-> top.middle, middle |-> two_rows_back[column]]
      BY <2>2 DEF ShiftTaps, Shift
    <3>4. /\ row >= 1 => previous_row[column] = At(row - 1, column)
          /\ row >= 2 => two_rows_back[column] = At(row - 2, column)
      BY <1>1 DEF LinesHoldFrame, Rows, Columns
    <3>5. column \in Nat /\ column' - 1 = column /\ column' - 2 = column - 1
      BY <1>1, <3>1 DEF Columns
    <3>6. /\ bottom'.middle = At(row, column)
          /\ row >= 1 => middle'.middle = At(row - 1, column)
          /\ row >= 2 => top'.middle = At(row - 2, column)
      BY <1>1, <3>3, <3>4
    <3>7. column >= 1 => /\ bottom'.left = At(row, column - 1)
                         /\ row >= 1 => middle'.left = At(row - 1, column - 1)
                         /\ row >= 2 => top'.left = At(row - 2, column - 1)
      BY <3>3 DEF TapsHoldFrame
    <3>. QED  BY <3>1, <3>5, <3>6, <3>7 DEF TapsHoldFrame, At
  <2>. QED  BY <2>1, <2>2
<1>7. expected' = NextCorner(source)
  BY DEF WindowsInOrder, pixel_tready
<1>8. WindowsInOrder' /\ window' \in Window \cup {NoWindow}
  <2>1. CASE produces_window
    <3>1. expected' = source
      BY <2>1, <1>1, <1>7, CornerStays DEF produces_window
    <3>2. window' = WindowAt(source)
      BY <2>1, AssembledIsWindow
    <3>3. WindowAt(expected)' = WindowAt(source)
      BY <3>1 DEF WindowAt
    <3>4. window' # NoWindow /\ window' \in Window
      BY <3>2, <2>1, <1>1, WindowAtIsWindow DEF produces_window
    <3>. QED  BY <3>1, <3>2, <3>3, <3>4 DEF WindowsInOrder, NextCorner, Following
  <2>2. CASE ~produces_window
    BY <2>2, <1>1, <1>7, CornerSkips DEF produces_window, WindowsInOrder, NextCorner
  <2>. QED  BY <2>1, <2>2
<1>9. /\ previous_row' \in [Columns -> Content]
      /\ two_rows_back' \in [Columns -> Content]
  BY <1>1 DEF ShiftLines, GeneratorTypeOK, Content
<1>10. \A tap \in {top', middle', bottom'} :
         tap \in [left : Content, middle : Content]
  BY <1>1 DEF ShiftTaps, Shift, EmptyTap, GeneratorTypeOK, Content
<1>. QED  BY <1>2, <1>3, <1>4, <1>5, <1>6, <1>8, <1>9, <1>10 DEF GeneratorTypeOK

LEMMA DrainKeepsWindows ==
  ASSUME GeneratorInv, Drain
  PROVE  GeneratorInv'
<1>1. expected' \in Pixel
  BY FollowingIsPixel, NextCornerIsPixel DEF GeneratorInv, Drain, GeneratorTypeOK
<1>2. GeneratorTypeOK'
  BY <1>1 DEF GeneratorInv, Drain, GeneratorTypeOK, taps
<1>3. SourceFollows' /\ LinesHoldFrame' /\ TapsHoldFrame'
  BY DEF GeneratorInv, Drain, SourceFollows, LinesHoldFrame, TapsHoldFrame, At, taps
<1>4. WindowsInOrder'
  BY DEF GeneratorInv, Drain, WindowsInOrder, NextCorner, Following
<1>. QED  BY <1>2, <1>3, <1>4 DEF GeneratorInv

LEMMA ResetKeepsWindows ==
  ASSUME GeneratorInv, GeneratorReset
  PROVE  GeneratorInv'
<1>1. source' \in Pixel /\ SourceFollows'
  BY DEF GeneratorInv, GeneratorTypeOK, GeneratorReset, SourceFollows, Pixel, Rows, Columns
<1>2. expected' \in Pixel
  BY <1>1, NextCornerIsPixel DEF GeneratorReset
<1>3. GeneratorTypeOK'
  BY <1>1, <1>2 DEF GeneratorInv, GeneratorTypeOK, GeneratorReset, Rows, Columns, EmptyTap, Content
<1>4. LinesHoldFrame' /\ TapsHoldFrame'
  BY DEF GeneratorReset, LinesHoldFrame, TapsHoldFrame, Columns
<1>5. WindowsInOrder'
  BY DEF GeneratorReset, WindowsInOrder, NextCorner
<1>. QED  BY <1>1, <1>3, <1>4, <1>5 DEF GeneratorInv

LEMMA GeneratorNextInv == GeneratorInv /\ [GeneratorNext]_generatorVars => GeneratorInv'
<1>. SUFFICES ASSUME GeneratorInv, [GeneratorNext]_generatorVars PROVE GeneratorInv'
  OBVIOUS
<1>1. CASE \E output_ready \in BOOLEAN : Transfer(output_ready)
  BY <1>1, TransferKeepsWindows
<1>2. CASE Drain
  BY <1>2, DrainKeepsWindows
<1>3. CASE GeneratorReset
  BY <1>3, ResetKeepsWindows
<1>4. CASE UNCHANGED generatorVars
  BY <1>4 DEF generatorVars, taps, GeneratorInv, GeneratorTypeOK, SourceFollows,
              LinesHoldFrame, TapsHoldFrame, At, WindowsInOrder, WindowAt, NextCorner,
              Following
<1>. QED  BY <1>1, <1>2, <1>3, <1>4 DEF GeneratorNext

(* The inductive invariant of the window generator. *)
THEOREM GeneratorInvariant == GeneratorSpec => []GeneratorInv
BY GeneratorInitInv, GeneratorNextInv, PTL DEF GeneratorSpec

(* For every image size, the consumer gets every window of every frame     *)
(* once, in raster order and with the right nine pixels, and the line      *)
(* buffers never hold a stale pixel where a window will read it.           *)
THEOREM WindowsAreRight == GeneratorSpec => [](WindowsInOrder /\ LinesHoldFrame)
<1>1. GeneratorInv => WindowsInOrder /\ LinesHoldFrame
  BY DEF GeneratorInv
<1>. QED  BY <1>1, GeneratorInvariant, PTL
-----------------------------------------------------------------------------

SumRecords == [open : Seq(Lanes), finished : Seq(Result)]

(* What a beat finds at the accumulator: it clears exactly when no sum is  *)
(* open, and an open sum has room for one beat more.                       *)
Finds(open, beat) ==
  beat # Bubble =>
    /\ beat.clear = (open = << >>)
    /\ beat.last \/ Len(open) + 1 < MaxBeats

CoreTypes ==
  /\ lane_stage \in [1 .. 3 -> LaneBeat \cup {Bubble}]
  /\ accumulator \in Seq(Lanes) /\ Len(accumulator) < MaxBeats
  /\ post_stage \in [1 .. 4 -> Result \cup {Bubble}]
  /\ result \in Result \cup {Bubble}

(* Every beat in the stages before the accumulator will find what the beat *)
(* before it leaves.                                                       *)
BeatsFind ==
  /\ Finds(accumulator, lane_stage[3])
  /\ Finds(BehindThird.open, lane_stage[2])
  /\ Finds(BehindSecond.open, lane_stage[1])

CoreInv == CoreTypes /\ BeatsFind

Behind(sums, more) == [open |-> sums.open, finished |-> more \o sums.finished]
-----------------------------------------------------------------------------
LEMMA PresentIsSeq ==
  ASSUME NEW held \in Result \cup {Bubble}
  PROVE  Present(held) \in Seq(Result)
BY DEF Present

LEMMA PastIsSeq ==
  ASSUME CoreTypes
  PROVE  Past \in Seq(Result)
<1>1. \A s \in 1 .. 4 : Present(post_stage[s]) \in Seq(Result)
  BY PresentIsSeq DEF CoreTypes
<1>2. Present(result) \in Seq(Result)
  BY PresentIsSeq DEF CoreTypes
<1>. QED  BY <1>1, <1>2, ConcatProperties DEF Past

(* A sum of at most MaxBeats operands with its settings is a result.       *)
LEMMA SumIsResult ==
  ASSUME NEW total \in Seq(Lanes), Len(total) \in 1 .. MaxBeats, NEW settings \in Settings
  PROVE  S!Sum(total, settings) \in Result /\ S!Sum(total, settings) # Bubble
<1>1. total \in [1 .. Len(total) -> Lanes]
  BY LenProperties
<1>2. BiasOverflows(total, settings) \in BOOLEAN
  BY <1>1, OverflowAssumption DEF OverflowAssumption
<1>3. S!Sum(total, settings) \in Result
  BY <1>2 DEF S!Sum, Result
<1>. QED  BY <1>3, SymbolAssumption DEF SymbolAssumption

(* One more beat extends the open sum, or completes it, behind whatever is *)
(* complete already.                                                       *)
LEMMA AbsorbedSums ==
  ASSUME NEW sums \in SumRecords, Len(sums.open) < MaxBeats, NEW beat \in LaneBeat \cup {Bubble},
         Finds(sums.open, beat), NEW more \in Seq(Result)
  PROVE  /\ Absorbed(sums, beat) \in SumRecords /\ Len(Absorbed(sums, beat).open) < MaxBeats
         /\ Absorbed(Behind(sums, more), beat) = Behind(Absorbed(sums, beat), more)
<1>0. /\ sums.open \in Seq(Lanes) /\ sums.finished \in Seq(Result)
      /\ sums = [open |-> sums.open, finished |-> sums.finished]
  BY DEF SumRecords
<1>1. CASE beat = Bubble
  BY <1>1 DEF Absorbed
<1>2. CASE beat # Bubble
  <2>. DEFINE total == S!Extended(sums.open, beat)
              sum == S!Sum(total, beat.settings)
  <2>1. beat \in LaneBeat /\ beat.lanes \in Lanes /\ beat.settings \in Settings
        /\ beat.last \in BOOLEAN
    BY <1>2 DEF LaneBeat
  <2>2. total \in Seq(Lanes) /\ Len(total) \in 1 .. Len(sums.open) + 1
    <3>1. CASE beat.clear
      BY <1>0, <2>1, <3>1 DEF S!Extended
    <3>2. CASE ~beat.clear
      BY <1>0, <2>1, <3>2, AppendProperties DEF S!Extended
    <3>. QED  BY <3>1, <3>2
  <2>3. /\ MaxBeats \in Nat /\ Len(sums.open) \in Nat
        /\ beat.last \/ Len(sums.open) + 1 < MaxBeats
    BY <1>0, <1>2, BeatsAssumption, LenProperties DEF Finds, BeatsAssumption
  <2>4. sum \in Result
    BY <2>1, <2>2, <2>3, SumIsResult
  <2>5. /\ Behind(sums, more).open = sums.open
        /\ Behind(sums, more).finished = more \o sums.finished
        /\ more \o sums.finished \in Seq(Result)
    BY <1>0, ConcatProperties DEF Behind
  <2>6. S!Extended(Behind(sums, more).open, beat) = total
    BY <2>5
  <2>. HIDE DEF total, sum
  <2>7. CASE ~beat.last
    <3>1. Absorbed(sums, beat) = [open |-> total, finished |-> sums.finished]
      BY <1>0, <1>2, <2>7 DEF Absorbed, S!Absorb, total, SumRecords
    <3>2. Absorbed(Behind(sums, more), beat)
            = [open |-> total, finished |-> more \o sums.finished]
      BY <1>2, <2>5, <2>6, <2>7 DEF Absorbed, S!Absorb, Behind
    <3>3. Len(total) < MaxBeats
      BY <2>2, <2>3, <2>7
    <3>. QED  BY <1>0, <2>2, <3>1, <3>2, <3>3 DEF SumRecords, Behind
  <2>8. CASE beat.last /\ AccumulatorOverflows(total)
    <3>1. Absorbed(sums, beat) = [open |-> << >>, finished |-> sums.finished]
      BY <1>0, <1>2, <2>8 DEF Absorbed, S!Absorb, total, SumRecords
    <3>2. Absorbed(Behind(sums, more), beat)
            = [open |-> << >>, finished |-> more \o sums.finished]
      BY <1>2, <2>5, <2>6, <2>8 DEF Absorbed, S!Absorb, Behind
    <3>3. Len(<< >>) < MaxBeats
      BY BeatsAssumption DEF BeatsAssumption
    <3>. QED  BY <1>0, <3>1, <3>2, <3>3 DEF SumRecords, Behind
  <2>9. CASE beat.last /\ ~AccumulatorOverflows(total)
    <3>1. Absorbed(sums, beat) = [open |-> << >>, finished |-> Append(sums.finished, sum)]
      BY <1>0, <1>2, <2>9 DEF Absorbed, S!Absorb, total, sum
    <3>2. Absorbed(Behind(sums, more), beat)
            = [open |-> << >>, finished |-> Append(more \o sums.finished, sum)]
      BY <1>2, <2>5, <2>6, <2>9 DEF Absorbed, S!Absorb, Behind, sum
    <3>3. Len(<< >>) < MaxBeats
      BY BeatsAssumption DEF BeatsAssumption
    <3>4. Append(more \o sums.finished, sum) = more \o Append(sums.finished, sum)
      <4>1. << sum >> \in Seq(Result)
        BY <2>4
      <4>2. Append(sums.finished, sum) = sums.finished \o << sum >>
        BY <1>0, <2>4, AppendIsConcat
      <4>3. Append(more \o sums.finished, sum) = (more \o sums.finished) \o << sum >>
        BY <2>4, <2>5, AppendIsConcat
      <4>4. (more \o sums.finished) \o << sum >> = more \o (sums.finished \o << sum >>)
        BY <1>0, <4>1, ConcatAssociative
      <4>. QED  BY <4>2, <4>3, <4>4
    <3>5. Append(sums.finished, sum) \in Seq(Result)
      BY <1>0, <2>4
    <3>. QED  BY <3>1, <3>2, <3>3, <3>4, <3>5 DEF SumRecords, Behind
  <2>. QED  BY <2>1, <2>7, <2>8, <2>9
<1>. QED  BY <1>1, <1>2

-----------------------------------------------------------------------------
LEMMA Regroup ==
  ASSUME NEW s \in Seq(Result), NEW t \in Seq(Result), NEW u \in Seq(Result)
  PROVE  (s \o t) \o u = s \o (t \o u)
BY ConcatAssociative

(* The stages behind the accumulator after an edge, with what was finished *)
(* on it in the last place.                                                *)
LEMMA PastAfterEdge ==
  ASSUME CoreTypes, finished \in Result \cup {Bubble}, PostProcess
  PROVE  /\ Past' \in Seq(Result) /\ Present(result) \in Seq(Result)
         /\ Past \o Present(finished) = Present(result) \o Past'
         /\ post_stage' \in [1 .. 4 -> Result \cup {Bubble}]
         /\ result' \in Result \cup {Bubble}
<1>. DEFINE p1 == Present(post_stage[1])
            p2 == Present(post_stage[2])
            p3 == Present(post_stage[3])
            p4 == Present(post_stage[4])
            pr == Present(result)
            pf == Present(finished)
<1>1. /\ post_stage[1] \in Result \cup {Bubble} /\ post_stage[2] \in Result \cup {Bubble}
      /\ post_stage[3] \in Result \cup {Bubble} /\ post_stage[4] \in Result \cup {Bubble}
      /\ result \in Result \cup {Bubble}
  BY DEF CoreTypes
<1>2. /\ p1 \in Seq(Result) /\ p2 \in Seq(Result) /\ p3 \in Seq(Result)
      /\ p4 \in Seq(Result) /\ pr \in Seq(Result) /\ pf \in Seq(Result)
  BY <1>1, PresentIsSeq
<1>3. Past = pr \o p4 \o p3 \o p2 \o p1
  BY DEF Past
<1>4. Past' = p4 \o p3 \o p2 \o p1 \o pf
  <2>1. /\ result' = post_stage[4] /\ post_stage'[4] = post_stage[3]
        /\ post_stage'[3] = post_stage[2] /\ post_stage'[2] = post_stage[1]
        /\ post_stage'[1] = finished
    BY DEF PostProcess
  <2>2. Past' = Present(result') \o Present(post_stage'[4]) \o Present(post_stage'[3])
                  \o Present(post_stage'[2]) \o Present(post_stage'[1])
    BY DEF Past, Present
  <2>. QED  BY <2>1, <2>2
<1>5. post_stage' \in [1 .. 4 -> Result \cup {Bubble}] /\ result' \in Result \cup {Bubble}
  BY <1>1 DEF PostProcess
<1>. HIDE DEF p1, p2, p3, p4, pr, pf
<1>. DEFINE q3 == p4 \o p3
            q2 == q3 \o p2
            q1 == q2 \o p1
            q == q1 \o pf
<1>6. /\ q3 \in Seq(Result) /\ q2 \in Seq(Result) /\ q1 \in Seq(Result)
      /\ q \in Seq(Result)
  BY <1>2, ConcatProperties
<1>7. (pr \o p4) \o p3 = pr \o q3
  <2>1. pr \in Seq(Result) /\ p4 \in Seq(Result) /\ p3 \in Seq(Result)
    BY <1>2
  <2>. QED  BY <2>1, Regroup
<1>. HIDE DEF q3
<1>8. (pr \o q3) \o p2 = pr \o q2
  <2>1. pr \in Seq(Result) /\ q3 \in Seq(Result) /\ p2 \in Seq(Result)
    BY <1>2, <1>6
  <2>. QED  BY <2>1, Regroup
<1>. HIDE DEF q2
<1>9. (pr \o q2) \o p1 = pr \o q1
  <2>1. pr \in Seq(Result) /\ q2 \in Seq(Result) /\ p1 \in Seq(Result)
    BY <1>2, <1>6
  <2>. QED  BY <2>1, Regroup
<1>. HIDE DEF q1
<1>10. (pr \o q1) \o pf = pr \o q
  <2>1. pr \in Seq(Result) /\ q1 \in Seq(Result) /\ pf \in Seq(Result)
    BY <1>2, <1>6
  <2>. QED  BY <2>1, Regroup
<1>11. Past = pr \o q1
  BY <1>3, <1>7, <1>8, <1>9
<1>12. Past' = q
  BY <1>4 DEF q1, q2, q3
<1>. QED  BY <1>2, <1>5, <1>6, <1>10, <1>11, <1>12 DEF pr, pf

(* On an edge the accumulator makes of its beat what the queue makes of    *)
(* it, and what leaves is the oldest result.                               *)
LEMMA AccumulatorAbsorbs ==
  ASSUME CoreInv, NEW beat, CoreEdge(beat)
  PROVE  LET after == [open |-> accumulator', finished |-> Past'] IN
         /\ BehindThird = Behind(after, Present(result))
         /\ after \in SumRecords /\ Len(accumulator') < MaxBeats
         /\ Present(result) \in Seq(Result)
         /\ post_stage' \in [1 .. 4 -> Result \cup {Bubble}]
         /\ result' \in Result \cup {Bubble}
<1>1. /\ accumulator \in Seq(Lanes) /\ Len(accumulator) < MaxBeats
      /\ summand \in LaneBeat \cup {Bubble} /\ Past \in Seq(Result)
      /\ Finds(accumulator, summand)
  BY PastIsSeq DEF CoreInv, CoreTypes, BeatsFind, summand
<1>2. PostProcess /\ Accumulate
  BY DEF CoreEdge
<1>3. Len(accumulator) \in Nat /\ MaxBeats \in Nat \ {0}
  BY <1>1, BeatsAssumption, LenProperties DEF BeatsAssumption
<1>4. SUFFICES
        /\ finished \in Result \cup {Bubble}
        /\ accumulator' \in Seq(Lanes) /\ Len(accumulator') < MaxBeats
        /\ BehindThird = [open |-> accumulator', finished |-> Past \o Present(finished)]
  BY <1>1, <1>2, PastAfterEdge DEF Behind, SumRecords, CoreInv
<1>5. Past \o << >> = Past
  BY <1>1, ConcatEmptySeq
<1>6. CASE summand = Bubble
  <2>1. finished = Bubble /\ accumulator' = accumulator
    BY <1>2, <1>6 DEF finished, Accumulate
  <2>2. BehindThird = [open |-> accumulator, finished |-> Past]
    BY <1>6 DEF BehindThird, Absorbed, summand
  <2>. QED  BY <1>1, <1>5, <2>1, <2>2 DEF Present
<1>7. CASE summand # Bubble
  <2>1. /\ summand \in LaneBeat /\ summand.lanes \in Lanes /\ summand.settings \in Settings
        /\ summand.last \in BOOLEAN
    BY <1>1, <1>7 DEF LaneBeat
  <2>2. /\ next_accumulator = S!Extended(accumulator, summand)
        /\ accumulator_overflow <=> AccumulatorOverflows(next_accumulator)
        /\ Sum = S!Sum(next_accumulator, summand.settings)
    BY <1>7 DEF next_accumulator, S!Extended, accumulator_overflow, Sum, S!Sum
  <2>3. BehindThird = S!Absorb([open |-> accumulator, finished |-> Past], summand)
    BY <1>7 DEF BehindThird, Absorbed, summand
  <2>4. next_accumulator \in Seq(Lanes) /\ Len(next_accumulator) \in 1 .. Len(accumulator) + 1
    <3>1. CASE summand.clear
      BY <1>1, <2>1, <3>1 DEF next_accumulator
    <3>2. CASE ~summand.clear
      BY <1>1, <2>1, <3>2, AppendProperties DEF next_accumulator
    <3>. QED  BY <3>1, <3>2
  <2>5. summand.last \/ Len(accumulator) + 1 < MaxBeats
    BY <1>1, <1>7 DEF Finds
  <2>6. Sum \in Result /\ Sum # Bubble
    BY <1>3, <1>1, <2>1, <2>2, <2>4, SumIsResult
  <2>7. CASE ~summand.last
    <3>1. finished = Bubble /\ accumulator' = next_accumulator
      BY <1>2, <1>7, <2>7 DEF finished, Accumulate
    <3>2. BehindThird = [open |-> next_accumulator, finished |-> Past]
      BY <2>2, <2>3, <2>7 DEF S!Absorb
    <3>3. Len(next_accumulator) < MaxBeats
      BY <1>3, <2>4, <2>5, <2>7
    <3>. QED  BY <1>5, <2>4, <3>1, <3>2, <3>3 DEF Present
  <2>8. CASE summand.last /\ AccumulatorOverflows(next_accumulator)
    <3>1. finished = Bubble /\ accumulator' = << >>
      BY <1>2, <1>7, <2>2, <2>8 DEF finished, Accumulate
    <3>2. BehindThird = [open |-> << >>, finished |-> Past]
      BY <2>2, <2>3, <2>8 DEF S!Absorb
    <3>. QED  BY <1>3, <1>5, <3>1, <3>2 DEF Present
  <2>9. CASE summand.last /\ ~AccumulatorOverflows(next_accumulator)
    <3>1. finished = Sum /\ accumulator' = << >>
      BY <1>2, <1>7, <2>2, <2>9 DEF finished, Accumulate
    <3>2. BehindThird = [open |-> << >>, finished |-> Append(Past, Sum)]
      BY <2>2, <2>3, <2>9 DEF S!Absorb
    <3>3. Append(Past, Sum) = Past \o << Sum >>
      BY <1>1, <2>6, AppendIsConcat
    <3>. QED  BY <1>3, <2>6, <3>1, <3>2, <3>3 DEF Present
  <2>. QED  BY <2>1, <2>7, <2>8, <2>9
<1>. QED  BY <1>6, <1>7

-----------------------------------------------------------------------------
(* The sums in flight before an edge, with the beat of the edge, are those *)
(* after it behind the result that leaves; and the beats go on finding     *)
(* what they need.                                                         *)
LEMMA EdgeMovesSums ==
  ASSUME CoreInv, NEW beat \in LaneBeat \cup {Bubble}, CoreEdge(beat), Finds(InFlight.open, beat)
  PROVE  /\ CoreInv'
         /\ Absorbed(InFlight, beat) = Behind(InFlight', Present(result))
         /\ InFlight \in SumRecords /\ InFlight' \in SumRecords
         /\ Present(result) \in Seq(Result)
         /\ \E younger \in SumRecords : InFlight = Behind(younger, Present(result))
<1>. DEFINE after == [open |-> accumulator', finished |-> Past']
            out == Present(result)
            first == lane_stage[1]
            second == lane_stage[2]
            third == Absorbed(after, second)
            then == Absorbed(third, first)
            sums == Absorbed(then, beat)
<1>1. /\ BehindThird = Behind(after, out)
      /\ after \in SumRecords /\ Len(accumulator') < MaxBeats
      /\ out \in Seq(Result)
      /\ post_stage' \in [1 .. 4 -> Result \cup {Bubble}]
      /\ result' \in Result \cup {Bubble}
  BY AccumulatorAbsorbs
<1>2. /\ lane_stage \in [1 .. 3 -> LaneBeat \cup {Bubble}]
      /\ first \in LaneBeat \cup {Bubble} /\ second \in LaneBeat \cup {Bubble}
      /\ lane_stage' = << beat, first, second >>
  BY DEF CoreInv, CoreTypes, CoreEdge
<1>3. /\ BehindThird' = third /\ BehindSecond' = then /\ InFlight' = sums
      /\ lane_stage'[1] = beat /\ lane_stage'[2] = first /\ lane_stage'[3] = second
  <2>1. lane_stage'[1] = beat /\ lane_stage'[2] = first /\ lane_stage'[3] = second
    BY <1>2
  <2>2. BehindThird' = third
    BY <2>1 DEF BehindThird, Absorbed
  <2>. HIDE DEF third
  <2>3. BehindSecond' = then
    BY <2>1, <2>2 DEF BehindSecond, Absorbed
  <2>. HIDE DEF then
  <2>4. InFlight' = sums
    BY <2>1, <2>3 DEF InFlight, Absorbed
  <2>. QED  BY <2>1, <2>2, <2>3, <2>4
<1>4. Finds(BehindThird.open, second) /\ Finds(BehindSecond.open, first)
  BY DEF CoreInv, BeatsFind
<1>5. after.open = accumulator'
  OBVIOUS
<1>. HIDE DEF after, out, first, second
<1>6. /\ third \in SumRecords /\ Len(third.open) < MaxBeats
      /\ BehindSecond = Behind(third, out) /\ BehindSecond.open = third.open
  <2>1. Finds(after.open, second)
    BY <1>1, <1>4 DEF Behind
  <2>2. BehindSecond = Absorbed(Behind(after, out), second)
    BY <1>1 DEF BehindSecond, second
  <2>3. Len(after.open) < MaxBeats /\ after \in SumRecords /\ out \in Seq(Result)
        /\ second \in LaneBeat \cup {Bubble}
    BY <1>1, <1>2, <1>5
  <2>4. /\ third \in SumRecords /\ Len(third.open) < MaxBeats
        /\ Absorbed(Behind(after, out), second) = Behind(third, out)
    BY <2>1, <2>3, AbsorbedSums
  <2>5. Behind(third, out).open = third.open
    BY DEF Behind
  <2>. QED  BY <2>2, <2>4, <2>5
<1>. HIDE DEF third
<1>7. /\ then \in SumRecords /\ Len(then.open) < MaxBeats
      /\ InFlight = Behind(then, out) /\ InFlight.open = then.open
  <2>1. Finds(third.open, first)
    BY <1>4, <1>6
  <2>2. InFlight = Absorbed(Behind(third, out), first)
    BY <1>6 DEF InFlight, first
  <2>3. Len(third.open) < MaxBeats /\ third \in SumRecords /\ out \in Seq(Result)
        /\ first \in LaneBeat \cup {Bubble}
    BY <1>1, <1>2, <1>6
  <2>4. /\ then \in SumRecords /\ Len(then.open) < MaxBeats
        /\ Absorbed(Behind(third, out), first) = Behind(then, out)
    BY <2>1, <2>3, AbsorbedSums
  <2>5. Behind(then, out).open = then.open
    BY DEF Behind
  <2>. QED  BY <2>2, <2>4, <2>5
<1>. HIDE DEF then
<1>8. sums \in SumRecords /\ Absorbed(InFlight, beat) = Behind(sums, out)
  <2>1. Finds(then.open, beat)
    BY <1>7
  <2>. QED  BY <1>1, <1>7, <2>1, AbsorbedSums
<1>9. InFlight \in SumRecords
  <2>1. /\ then.open \in Seq(Lanes) /\ then.finished \in Seq(Result)
        /\ out \o then.finished \in Seq(Result)
    BY <1>1, <1>7, ConcatProperties DEF SumRecords
  <2>. QED  BY <1>7, <2>1 DEF Behind, SumRecords
<1>10. CoreTypes'
  <2>1. lane_stage' \in [1 .. 3 -> LaneBeat \cup {Bubble}]
    BY <1>2
  <2>2. accumulator' \in Seq(Lanes)
    BY <1>1, <1>5 DEF SumRecords
  <2>. QED  BY <1>1, <2>1, <2>2 DEF CoreTypes
<1>11. BeatsFind'
  <2>1. Finds(accumulator', second)
    BY <1>1, <1>4, <1>5 DEF Behind
  <2>2. Finds(third.open, first)
    BY <1>4, <1>6
  <2>3. Finds(then.open, beat)
    BY <1>7
  <2>4. /\ Finds(accumulator', lane_stage'[3]) /\ Finds(BehindThird'.open, lane_stage'[2])
        /\ Finds(BehindSecond'.open, lane_stage'[1])
    BY <1>3, <2>1, <2>2, <2>3
  <2>. QED  BY <2>4 DEF BeatsFind, Finds
<1>. QED  BY <1>1, <1>3, <1>7, <1>8, <1>9, <1>10, <1>11 DEF CoreInv, out

(* With every stage empty nothing is in flight. *)
EmptyCore ==
  /\ lane_stage = [s \in 1 .. 3 |-> Bubble]
  /\ accumulator = << >>
  /\ post_stage = [s \in 1 .. 4 |-> Bubble]
  /\ result = Bubble

NoSums == InFlight.open = << >> /\ InFlight.finished = << >>

LEMMA EmptyCoreInv == EmptyCore => CoreInv /\ NoSums
<1>1. SUFFICES ASSUME EmptyCore PROVE CoreInv /\ NoSums
  OBVIOUS
<1>2. CoreTypes
  BY <1>1, BeatsAssumption DEF EmptyCore, CoreTypes, BeatsAssumption
<1>3. Past = << >>
  <2>1. /\ Present(post_stage[1]) = << >> /\ Present(post_stage[2]) = << >>
        /\ Present(post_stage[3]) = << >> /\ Present(post_stage[4]) = << >>
        /\ Present(result) = << >>
    BY <1>1 DEF EmptyCore, Present
  <2>2. << >> \in Seq(Result) /\ << >> \o << >> = << >>
    BY ConcatEmptySeq
  <2>. QED  BY <2>1, <2>2 DEF Past
<1>4. InFlight = [open |-> << >>, finished |-> << >>]
  BY <1>1, <1>3 DEF EmptyCore, InFlight, BehindSecond, BehindThird, Absorbed
<1>5. BeatsFind
  BY <1>1 DEF EmptyCore, BeatsFind, Finds
<1>. QED  BY <1>2, <1>4, <1>5 DEF CoreInv, NoSums

(* What an edge of the core is to the queue: possibly a beat is absorbed,  *)
(* possibly the oldest sum leaves.                                         *)
LEMMA EdgeIsStep ==
  ASSUME CoreInv, NEW beat \in LaneBeat \cup {Bubble}, CoreEdge(beat), Finds(InFlight.open, beat)
  PROVE  Sums!Next
<1>1. /\ Absorbed(InFlight, beat) = Behind(InFlight', Present(result))
      /\ InFlight \in SumRecords /\ InFlight' \in SumRecords
      /\ Present(result) \in Seq(Result)
  BY EdgeMovesSums
<1>. DEFINE sums == Absorbed(InFlight, beat)
<1>2. InFlight'.open = sums.open /\ sums.finished = Present(result) \o InFlight'.finished
  BY <1>1 DEF Behind
<1>3. InFlight = Sums!Now
  BY <1>1 DEF Sums!Now, SumRecords
<1>4. \/ InFlight'.finished = sums.finished
      \/ InFlight.finished # << >> /\ InFlight'.finished = Tail(sums.finished)
  <2>1. InFlight'.finished \in Seq(Result)
    BY <1>1 DEF SumRecords
  <2>2. CASE result = Bubble
    BY <1>2, <2>1, <2>2, ConcatEmptySeq DEF Present
  <2>3. CASE result # Bubble
    <3>1. Present(result) = << result >> /\ result \in Result
      BY <2>3 DEF Present, CoreInv, CoreTypes
    <3>2. InFlight'.finished = Tail(sums.finished)
      BY <1>2, <2>1, <3>1
    <3>3. InFlight.finished # << >>
      <4>1. PICK younger \in SumRecords : InFlight = Behind(younger, << result >>)
        BY <3>1, EdgeMovesSums
      <4>2. younger.finished \in Seq(Result) /\ InFlight.finished = << result >> \o younger.finished
        BY <4>1 DEF Behind, SumRecords
      <4>. QED  BY <3>1, <4>2
    <3>. QED  BY <3>2, <3>3
  <2>. QED  BY <2>2, <2>3
<1>5. Sums!Step(sums)
  BY <1>2, <1>4 DEF Sums!Step
<1>6. CASE beat = Bubble
  BY <1>3, <1>5, <1>6 DEF Absorbed, Sums!Next
<1>7. CASE beat # Bubble
  <2>1. sums = Sums!Absorb(Sums!Now, beat)
    BY <1>3, <1>7 DEF Absorbed, S!Absorb, Sums!Absorb, S!Extended, Sums!Extended,
                      S!Sum, Sums!Sum
  <2>. HIDE DEF sums
  <2>. QED  BY <1>5, <1>7, <2>1 DEF Sums!Next
<1>. QED  BY <1>6, <1>7

LEMMA ResetIsEmpty == CoreReset => EmptyCore'
BY DEF CoreReset, EmptyCore

(* The pipeline's inductive invariant. *)
THEOREM CoreInvariant == CoreSpec => []CoreInv
<1>1. CoreInit => CoreInv
  BY EmptyCoreInv DEF CoreInit, EmptyCore
<1>2. CoreInv /\ [CoreNext]_coreVars => CoreInv'
  <2>1. SUFFICES ASSUME CoreInv, [CoreNext]_coreVars PROVE CoreInv'
    OBVIOUS
  <2>2. ASSUME NEW beat \in LaneBeat, beat.clear = (InFlight.open = << >>),
               beat.last \/ Len(InFlight.open) + 1 < MaxBeats, CoreEdge(beat)
        PROVE  CoreInv'
    BY <2>1, <2>2, EdgeMovesSums DEF Finds
  <2>3. CASE CoreEdge(Bubble)
    BY <2>1, <2>3, EdgeMovesSums DEF Finds
  <2>4. CASE CoreReset
    BY <2>4, ResetIsEmpty, EmptyCoreInv, PTL
  <2>5. CASE UNCHANGED coreVars
    BY <2>1, <2>5 DEF coreVars, CoreInv, CoreTypes, BeatsFind, BehindThird, BehindSecond,
       Past, Present, Absorbed, Finds
  <2>. QED  BY <2>1, <2>2, <2>3, <2>4, <2>5 DEF CoreNext
<1>. QED  BY <1>1, <1>2, PTL DEF CoreSpec

(* The pipeline adds up and hands out sums like the abstract queue, even   *)
(* when a new sum enters directly behind the last beat of the one before   *)
(* and however far beats and results are apart.                            *)
THEOREM CoreImplementsQueue == CoreSpec => ImplementsSumQueue
<1>1. CoreInit => Sums!Init
  BY EmptyCoreInv DEF CoreInit, EmptyCore, NoSums, Sums!Init
<1>2. CoreInv /\ CoreInv' /\ [CoreNext]_coreVars
        => [Sums!Next]_<< InFlight.open, InFlight.finished >>
  <2>1. SUFFICES ASSUME CoreInv, [CoreNext]_coreVars
                 PROVE  Sums!Next \/ UNCHANGED InFlight
    OBVIOUS
  <2>2. ASSUME NEW beat \in LaneBeat, beat.clear = (InFlight.open = << >>),
               beat.last \/ Len(InFlight.open) + 1 < MaxBeats, CoreEdge(beat)
        PROVE  Sums!Next
    BY <2>1, <2>2, EdgeIsStep DEF Finds
  <2>3. CASE CoreEdge(Bubble)
    BY <2>1, <2>3, EdgeIsStep DEF Finds
  <2>4. CASE CoreReset
    <3>1. EmptyCore'
      BY <2>4, ResetIsEmpty
    <3>2. NoSums'
      BY <3>1, EmptyCoreInv, PTL
    <3>. QED  BY <3>2 DEF NoSums, Sums!Next, Sums!Flush
  <2>5. CASE UNCHANGED coreVars
    BY <2>5 DEF coreVars, InFlight, BehindThird, BehindSecond, Past, Present, Absorbed
  <2>. QED  BY <2>1, <2>2, <2>3, <2>4, <2>5 DEF CoreNext
<1>. QED  BY <1>1, <1>2, CoreInvariant, PTL DEF CoreSpec, ImplementsSumQueue, Sums!Spec
=============================================================================
