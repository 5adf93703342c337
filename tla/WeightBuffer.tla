---------------------------- MODULE WeightBuffer ----------------------------
(***************************************************************************)
(* The addressable weight store of rtl/memory/tensorwright_weight_         *)
(* buffer.sv.  One step is one rising clock edge.                          *)
(***************************************************************************)
EXTENDS Naturals, Sequences

CONSTANTS
  Depth,         \* DEPTH
  AddressSpace,  \* 2^ADDRESS_WIDTH, the addresses the memory index can hold
  Data, Unknown  \* a memory word no transfer has written

VARIABLES memory, count, loaded

vars == << memory, count, loaded >>

Addresses == 0 .. Depth - 1

Init ==
  /\ memory = [a \in Addresses |-> Unknown]
  /\ count = 0
  /\ loaded = FALSE

s_tready == ~loaded /\ count < Depth

(* The read port. *)
read_valid(address) == address < count
read_data(address) == memory[address]

(* The index is the low bits of the counter. *)
write_index == count % AddressSpace

(* The faulty variants are not used by the specification: replacing the    *)
(* definition that follows each of them by it breaks a property.           *)
(* An edge that takes an element, with tlast or without. *)
Write(data, last) ==
  /\ s_tready
  /\ memory' = [memory EXCEPT ![write_index] = data]
  /\ count' = count + 1
  /\ loaded' = (loaded \/ last \/ count = Depth - 1)

ClearCountOnly ==
  /\ count' = 0
  /\ UNCHANGED << memory, loaded >>

(* rst_ni low or clear_i high.  The words stay in the memory; an element   *)
(* offered on this very edge is lost although s_tready is high.            *)
Clear ==
  /\ count' = 0
  /\ loaded' = FALSE
  /\ UNCHANGED memory

Next ==
  \/ \E data \in Data, last \in BOOLEAN : Write(data, last)
  \/ Clear

Spec == Init /\ [][Next]_vars
-----------------------------------------------------------------------------
(* What a reader finds behind the addresses the read port calls valid. *)
Readable == {a \in Addresses : read_valid(a)}
Store == INSTANCE PacketStore
           WITH Capacity <- Depth, Elements <- Data, closed <- loaded,
                content <- [i \in {a + 1 : a \in Readable} |-> read_data(i - 1)]

(* A reader finds the present packet, all of it and only it, whatever      *)
(* longer packet the memory held before; a complete packet takes no        *)
(* further element until it is cleared, and a store that is full is        *)
(* complete, with tlast or without.                                        *)
ImplementsPacketStore == Store!Spec
=============================================================================
