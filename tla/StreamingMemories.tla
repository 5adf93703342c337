------------------------- MODULE StreamingMemories -------------------------
(***************************************************************************)
(* The activation buffer and the weight buffer on one clock and one reset, *)
(* as verification/systemverilog/tb_streaming.sv instantiates them.  On    *)
(* every edge each of them does one of its own steps; rst_ni resets both,  *)
(* clear_i clears the weights alone.                                       *)
(***************************************************************************)
EXTENDS StreamFifo

CONSTANTS
  WeightDepth, AddressSpace,   \* DEPTH and 2^ADDRESS_WIDTH of the weight buffer
  WeightData, Unknown

VARIABLES weight_memory, weight_count, loaded

Weights == INSTANCE WeightBuffer
             WITH Depth <- WeightDepth, Data <- WeightData,
                  memory <- weight_memory, count <- weight_count

(* ADDRESS_WIDTH is large enough for DEPTH. *)
ASSUME WeightAssumption ==
  /\ WeightDepth \in Nat \ {0}
  /\ AddressSpace \in Nat /\ AddressSpace >= WeightDepth
  /\ Unknown \notin WeightData

weightVars == << weight_memory, weight_count, loaded >>
memoryVars == << vars, weightVars >>

FifoEdge ==
  \/ \E b \in Beat : WriteOnly(b) \/ WriteAndRead(b)
  \/ ReadOnly
  \/ NoTransfer

WeightEdge ==
  \/ Weights!Next
  \/ UNCHANGED weightVars

StreamingInit == Init /\ Weights!Init

StreamingNext ==
  \/ FifoEdge /\ WeightEdge
  \/ Reset /\ Weights!Clear

StreamingSpec == StreamingInit /\ [][StreamingNext]_memoryVars

Consume == WeightEdge /\ (ReadOnly \/ \E b \in Beat : WriteAndRead(b))

(* The consumer of the activations does not keep ready low for ever. *)
FairStreamingSpec == StreamingSpec /\ WF_memoryVars(Consume)
-----------------------------------------------------------------------------
(* A reader of the weights finds the present packet, all of it and only    *)
(* it, whatever longer packet the memory held before; a complete packet    *)
(* takes no further element until it is cleared, and a store that is full  *)
(* is complete, with tlast or without.                                     *)
ImplementsPacketStore == Weights!ImplementsPacketStore
=============================================================================
