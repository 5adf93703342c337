------------------------------- MODULE MCTools -------------------------------
(* The tools around a failure, which meet only in files: the search for a  *)
(* smaller input, the protocol report, the traces and the regression       *)
(* package made of them, and the deployment directory.  A behaviour is one *)
(* of the search, or, after a search whose first question raised, of one   *)
(* of the other tools.                                                     *)
EXTENDS MCMinimizer, MCStreamDiagnosis, MCTraceFiles, MCBundle

(* The files that are compared are cut alike, as the proofs assume.        *)
ASSUME ComparablePairs

toolVars == << vars, diagnosisVars, regressionVars, bundleVars >>

Nowhere == [c \in Index |-> 0]

SearchRaised ==
  /\ original = Nowhere /\ current = Nowhere /\ settled = Nowhere
  /\ limit = 1 /\ evaluations = 1
  /\ phase = "failed" /\ signature = NoFailure /\ answers = (Nowhere :> Raised)
  /\ coordinates = {} /\ granularity = 0 /\ tried = 0 /\ left = {}

FirstReport == reference = ScalarReference(Size) /\ origin = "preserved"

ReportWaits == FirstReport /\ stage = "stream" /\ clock = 0

MCInit ==
  /\ RegressionInit /\ BundleInit
  /\ \/ Init /\ FirstReport /\ DiagnosisInit
     \/ SearchRaised /\ DiagnosisInit

SearchStep == Next /\ UNCHANGED << diagnosisVars, regressionVars, bundleVars >>

ReportStep ==
  /\ SearchRaised /\ RegressionInit /\ BundleInit
  /\ DiagnosisNext
  /\ UNCHANGED << vars, regressionVars, bundleVars >>

TraceStep ==
  /\ SearchRaised /\ ReportWaits /\ BundleInit
  /\ RegressionNext
  /\ UNCHANGED << vars, diagnosisVars, bundleVars >>

BundleStep ==
  /\ SearchRaised /\ ReportWaits /\ RegressionInit
  /\ BundleNext
  /\ UNCHANGED << vars, diagnosisVars, regressionVars >>

MCNext == SearchStep \/ ReportStep \/ TraceStep \/ BundleStep

(* The search runs on as long as it can. *)
MCSpec == MCInit /\ [][MCNext]_toolVars /\ WF_vars(SearchStep)
=============================================================================
