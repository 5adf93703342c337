-------------------------- MODULE MCArithmeticCore --------------------------
(* Two operands and a channel.  Sums that contain both an "a" and a "b" as *)
(* their first operands overflow the accumulator; a sum that begins with   *)
(* "b" overflows the bias of the channel "k".                              *)
(*                                                                         *)
(* The numbers are followed while the symbolic pipeline is in reset, one   *)
(* transaction at a time: every sum of four bits, every multiplier of      *)
(* three and every shift of four, beyond the eight bits of the product;    *)
(* and the demo's way from wrong numbers to a regression while both rest.  *)
EXTENDS ArithmeticCore, NumericalDiagnosis

CONSTANTS a, b, k

MCAccumulatorOverflows(sum) == Len(sum) >= 2 /\ sum[1] = a /\ sum[2] = b

MCBiasOverflows(sum, settings) == sum[1] = b /\ settings = k

MCPower(n) == 2 ^ n

MCBiases == {-8, -1, 0, 3}

(* Two outputs of one channel, whose numbers cross zero, the tie of every  *)
(* shift and both limits of the output.                                    *)
MCAccumulators == {-7, -3, -1, 0, 2, 6} \X {-6, -1, 1, 3}

MCChannels == [bias : {0, -1}, multiplier : {1, 3}, shift : {0, 1, 2}, relu : BOOLEAN]

MCInit == CoreInit /\ UnitInit /\ DemoInit

MCNext ==
  \/ UnitInit /\ DemoInit /\ CoreNext /\ UNCHANGED << unitVars, demoVars >>
  \/ CoreInit /\ DemoInit /\ UnitNext /\ UNCHANGED << coreVars, demoVars >>
  \/ CoreInit /\ UnitInit /\ DemoNext /\ UNCHANGED << coreVars, unitVars >>

MCSpec == MCInit /\ [][MCNext]_<< coreVars, unitVars, demoVars >>
=============================================================================
