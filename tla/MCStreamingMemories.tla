------------------------ MODULE MCStreamingMemories ------------------------
(* A FIFO of three slots (so that the pointers wrap away from a power of   *)
(* two) for beats told apart by their last mark, and a weight memory that  *)
(* fills its address space; or, while these rest, the window generator.    *)
EXTENDS StreamingMemories, WindowGenerator

CONSTANTS w1, w2
MCWeightData == {w1, w2}

MCInit == StreamingInit /\ GeneratorInit

MCNext ==
  \/ GeneratorInit /\ StreamingNext /\ UNCHANGED generatorVars
  \/ StreamingInit /\ GeneratorNext /\ UNCHANGED memoryVars

MCSpec ==
  /\ MCInit /\ [][MCNext]_<< memoryVars, generatorVars >>
  /\ WF_<< memoryVars, generatorVars >>(GeneratorInit /\ Consume /\ UNCHANGED generatorVars)
=============================================================================
