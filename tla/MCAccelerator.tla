--------------------------- MODULE MCAccelerator ---------------------------
(* A layer of two input and two output channels on a 4x4 image, so that    *)
(* column, row and channel of the output all advance, and a host that      *)
(* starts, aborts, and configures the right output length and one that is  *)
(* too long (before it configures any, a start is refused).  The bias of   *)
(* output channel 1 overflows in the second column.                        *)
EXTENDS Accelerator

W(address, word) == [address |-> address, word |-> word, strobe |-> TRUE]

MCHostWrites ==
  {W("CONTROL", 1), W("CONTROL", 2), W("OUTPUT_LENGTH", 8), W("OUTPUT_LENGTH", 9)}

MCConfigRegisters == {"OUTPUT_LENGTH"}

MCCounters ==
  {"OUTPUT_COUNT", "INPUT_COUNT", "WEIGHT_LOAD_CYCLES", "COMPUTE_ACTIVE", "EXECUTED_MACS"}

NoAccumulatorOverflow(sum) == FALSE

OneBiasOverflow(sum, channel) ==
  channel = 1 /\ sum[1][0].activation.column = 1
=============================================================================
