---------------------------- MODULE MCTraceFiles ----------------------------
(* Runs of one or two tensors, whose names become one file name: of the    *)
(* reference, of a device with a wrong value, of one that lacks a tensor,  *)
(* of one whose second mapping is refused and of one that is not finite.   *)
EXTENDS RegressionPackage

Tensor(name, values, accepted, finite) ==
  [name |-> name, safe_name |-> "y_0", values |-> values, accepted |-> accepted, finite |-> finite]

Good(name, values) == Tensor(name, values, TRUE, TRUE)

MCRuns ==
  {[run |-> "r0", tensors |-> << Good("y/0", << 0, 0 >>), Good("y_0", << 0, 0 >>) >>],
   [run |-> "r1", tensors |-> << Good("y/0", << 0, 1 >>), Good("y_0", << 1, 0 >>) >>],
   [run |-> "r2", tensors |-> << Good("y_0", << 0, 0 >>) >>],
   [run |-> "r3", tensors |-> << Good("y/0", << 1, 1 >>), Tensor("y_0", << 0, 0 >>, FALSE, TRUE) >>],
   [run |-> "r4", tensors |-> << Good("y/0", << 1, 1 >>), Tensor("z", << 0 >>, TRUE, FALSE) >>]}

Plugin(name, emits, loads) == [name |-> name, emits |-> emits, prefix |-> "", loads |-> loads]

(* An adapter that emits another backend; one that takes a built-in name;  *)
(* and one that cannot be loaded, behind one that can.                     *)
MCInstallations ==
  {<< Plugin("custom.hls", "custom.rtl", TRUE) >>,
   << Plugin("finn.dataflow", "custom.rtl", TRUE) >>,
   << Plugin("custom.hls", "custom.hls", TRUE), Plugin("custom.rtl", "custom.rtl", FALSE) >>}

MCTraceNames == {<< "a.jsonl" >>, << "b.jsonl" >>}

MCFailures ==
  {[kind |-> "value_mismatch", tensor |-> "y/0", at |-> 1],
   [kind |-> "value_mismatch", tensor |-> "y/0", at |-> 2],
   [kind |-> "missing_candidate_value", tensor |-> "y/0", at |-> 1],
   [kind |-> "unexpected_candidate_value", tensor |-> "y_0", at |-> 1]}
=============================================================================
