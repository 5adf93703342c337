--------------------------- MODULE StreamDiagnosis ---------------------------
(***************************************************************************)
(* The way to a protocol report, from an output stream or from two files:  *)
(* the monitor's samples become a trace (RtlTraceCapture of trace/         *)
(* adapters/rtl.py, or a file written without its checks), the rules of    *)
(* trace/protocol.py are applied to its stream transfers, and the trace is *)
(* compared with the reference's by TraceComparison.                       *)
(*                                                                         *)
(* The stream is of one tensor of Size values, whose right value is 0.  It *)
(* may deviate from a faithful one in up to MostDeviations fields of its   *)
(* samples, and end anywhere.                                              *)
(***************************************************************************)
EXTENDS TraceComparison

CONSTANTS
  Size, MostDeviations,
  References,    \* the reference traces of streams; Pairs are files of another origin
  NoValue        \* a piece of metadata that is absent

(* The reference of a stream: the values of one tensor, all right values   *)
(* being 0, in raster order from the first on.                             *)
IsStreamReference(trace) ==
  IsTrace(trace) /\ \A i \in DOMAIN trace :
    /\ trace[i].kind = "scalar" /\ trace[i].tensor = "y" /\ trace[i].meta = "m"
    /\ trace[i].start = i - 1 /\ trace[i].values = << 0 >>

ASSUME StreamAssumption ==
  /\ Size \in Nat \ {0} /\ MostDeviations \in Nat
  /\ NoValue \notin Nat \cup BOOLEAN
  /\ \A trace \in References : IsStreamReference(trace)

VARIABLES
  stage,               \* "stream", "inspect", "compare", "done" or "rejected"
  origin,              \* of the candidate: "capture" (RtlTraceCapture), "preserved"
                       \* (a stream without its checks) or "file"
  place, clock,        \* the stream: next position, cycle
  deviations,          \* fields that were not as in a faithful stream
  transfers,           \* history: the samples with valid and ready
  inspected,           \* the last event the rules were applied to
  expected_sequence, previous_cycle,
  findings             \* << rule, event >>

stream_vars == << origin, place, clock, deviations, transfers >>
rule_vars == << inspected, expected_sequence, previous_cycle, findings >>

diagnosisVars == << comparison_vars, stage, stream_vars, rule_vars >>

(* The analysis of two files has nothing to wait for.                      *)
DiagnosisInit ==
  /\ \/ /\ reference \in References
        /\ candidate = << >> /\ way = "none" /\ position = 0 /\ matched_values = 0
        /\ report = Running
        /\ stage = "stream"
        /\ origin \in {"capture", "preserved"}
     \/ /\ ComparisonInit
        /\ stage = "inspect"
        /\ origin = "file"
  /\ place = 0 /\ clock = 0 /\ deviations = 0 /\ transfers = << >>
  /\ inspected = 0 /\ expected_sequence = 0 /\ previous_cycle = NoValue /\ findings = {}
-----------------------------------------------------------------------------
(* What a monitor may sample next.  Files from elsewhere may lack metadata.*)
Optional == IF origin = "capture" THEN {} ELSE {NoValue}

Faithful ==
  [at |-> place, sequence |-> place, cycle |-> clock, value |-> 0, accepted |-> TRUE,
   last |-> (place = Size - 1)]

Samples ==
  UNION {[at       : {at},
          sequence : {at} \cup Optional,
          cycle    : ({clock, clock - 1} \cap Nat) \cup Optional,
          value    : {0, 1},
          accepted : BOOLEAN,
          last     : BOOLEAN \cup Optional] : at \in {place - 1, place, place + 1} \cap (0 .. Size)}

(* A position that is skipped or repeated shifts its sequence number too.  *)
Deviations(s) ==
  Cardinality({f \in {"at", "cycle", "value", "accepted", "last"} : s[f] # Faithful[f]})
    + (IF s.sequence = s.at THEN 0 ELSE 1)

(* A trace event, as TraceComparison reads it, with the stream's metadata. *)
EventOf(s, coordinate) ==
  [kind |-> "scalar", trace_point |-> "stream_transfer",
   tensor |-> "y", start |-> coordinate, values |-> << s.value >>, meta |-> "m",
   sequence |-> s.sequence, cycle |-> s.cycle, accepted |-> s.accepted, last |-> s.last]

Reject == stage' = "rejected" /\ UNCHANGED candidate

(* RtlTraceCapture.record: ignore what was not accepted; the sequence must *)
(* count the events and stay within the shape.                             *)
Record(s) ==
  IF ~s.accepted THEN UNCHANGED << candidate, stage >>
  ELSE IF s.sequence # Len(candidate) \/ s.sequence >= Size THEN Reject
  ELSE candidate' = Append(candidate, EventOf(s, s.sequence)) /\ UNCHANGED stage

(* Without the capture a sample becomes an event as it is (preserve_sequence *)
(* of scripts/run_demo.py); the coordinate wraps.                          *)
Preserve(s) ==
  candidate' = Append(candidate, EventOf(s, s.at % Size)) /\ UNCHANGED stage

Sample ==
  /\ stage = "stream" /\ Len(transfers) <= Size
  /\ \E s \in Samples :
       /\ deviations + Deviations(s) <= MostDeviations
       /\ deviations' = deviations + Deviations(s)
       /\ IF origin = "capture" THEN Record(s) ELSE Preserve(s)
       /\ transfers' = IF s.accepted THEN Append(transfers, s) ELSE transfers
       /\ place' = IF s.accepted THEN s.at + 1 ELSE place
  /\ clock' = clock + 1
  /\ UNCHANGED << reference, way, position, matched_values, report, origin, rule_vars >>

(* RtlTraceCapture.write: tlast must mark exactly the last event.          *)
LastMarksEnd ==
  \A i \in DOMAIN candidate : candidate[i].last = (i = Len(candidate))

Write ==
  /\ stage = "stream"
  /\ stage' = IF candidate = << >> \/ (origin = "capture" /\ ~LastMarksEnd) THEN "rejected" ELSE "inspect"
  /\ UNCHANGED << comparison_vars, stream_vars, rule_vars >>
-----------------------------------------------------------------------------
(* The events the rules are applied to. *)
stream_events == {i \in DOMAIN candidate : candidate[i].trace_point = "stream_transfer"}

events_left == {i \in stream_events : i > inspected}

(* _inspect_stream_events: the rules one event breaks.  The events are of  *)
(* one tensor, so there is one group.                                      *)
SequenceRules(event) ==
  IF event.sequence = NoValue THEN {"missing_sequence_metadata"}
  ELSE IF event.sequence # expected_sequence THEN {"transfer_sequence_discontinuity"}
  ELSE {}

CycleRules(event) ==
  IF event.cycle = NoValue THEN {"missing_cycle_metadata"}
  ELSE IF previous_cycle # NoValue /\ event.cycle <= previous_cycle
    THEN {"non_monotonic_transfer_cycle"}
  ELSE {}

(* Faulty variant: only an early mark is looked for.                       *)
LastRulesEarlyOnly(event, final) ==
  IF event.last = NoValue THEN {"missing_tlast_metadata"}
  ELSE IF event.last /\ ~final THEN {"early_tlast"}
  ELSE {}

LastRules(event, final) ==
  IF event.last = NoValue THEN {"missing_tlast_metadata"}
  ELSE IF event.last = final THEN {}
  ELSE {IF event.last THEN "early_tlast" ELSE "missing_final_tlast"}

HandshakeRules(event) == IF event.accepted THEN {} ELSE {"unaccepted_transfer_recorded"}

(* Faulty variant: expects the number just seen.                           *)
SequenceAgain(event) ==
  IF event.sequence = NoValue THEN expected_sequence ELSE event.sequence

SequenceAfter(event) ==
  IF event.sequence = NoValue THEN expected_sequence ELSE event.sequence + 1

InspectEvent ==
  /\ stage = "inspect"
  /\ \E i \in LeastOf(events_left) :
       LET event == candidate[i]
           rules == HandshakeRules(event) \cup SequenceRules(event) \cup CycleRules(event)
                      \cup LastRules(event, events_left = {i})
       IN  /\ findings' = findings \cup (rules \X {Cardinality(stream_events \ events_left)})
           /\ expected_sequence' = SequenceAfter(event)
           /\ previous_cycle' = IF event.cycle = NoValue THEN previous_cycle ELSE event.cycle
           /\ inspected' = i
  /\ UNCHANGED << comparison_vars, stage, stream_vars >>

BeginComparison ==
  /\ stage = "inspect" /\ events_left = {}
  /\ stage' = "compare"
  /\ UNCHANGED << comparison_vars, stream_vars, rule_vars >>

(* compare_trace_files. *)
Compare ==
  /\ stage = "compare"
  /\ ComparisonNext
  /\ UNCHANGED << stage, stream_vars, rule_vars >>

(* Faulty variant: takes every divergence for a missing transfer.          *)
ComparisonRulesAny ==
  CASE report.kind = "alignment_error" -> {"ambiguous_stream_alignment"}
    [] report.kind = "match" -> {}
    [] OTHER -> {"missing_output_transfer"}

(* analyze_protocol_files: what the comparison adds. *)
ComparisonRules ==
  CASE report.kind = "alignment_error" -> {"ambiguous_stream_alignment"}
    [] report.kind = "missing_candidate_value" -> {"missing_output_transfer"}
    [] report.kind = "unexpected_candidate_value" -> {"unexpected_output_transfer"}
    [] OTHER -> {}

Conclude ==
  /\ stage = "compare" /\ report.kind # "running"
  /\ findings' = findings \cup (ComparisonRules \X {matched_values})
  /\ stage' = "done"
  /\ UNCHANGED << comparison_vars, stream_vars, inspected, expected_sequence, previous_cycle >>

DiagnosisNext == Sample \/ Write \/ InspectEvent \/ BeginComparison \/ Compare \/ Conclude

DiagnosisSpec == DiagnosisInit /\ [][DiagnosisNext]_diagnosisVars
-----------------------------------------------------------------------------
Warnings == {"missing_sequence_metadata", "missing_cycle_metadata", "missing_tlast_metadata"}

Rules == {f[1] : f \in findings}

protocol_ok == Rules \subseteq Warnings

(* The stream the engine is meant to produce, but for the values.          *)
StreamIsComplete ==
  /\ Len(transfers) = Size
  /\ \A i \in 1 .. Size :
       /\ transfers[i].at = i - 1
       /\ transfers[i].last = (i = Size)

(* What a monitor with a sound clock writes about it, and nothing else.    *)
TraceIsComplete ==
  /\ Len(candidate) = Size
  /\ \A i \in 1 .. Size :
       /\ candidate[i].start = i - 1 /\ candidate[i].sequence = i - 1
       /\ candidate[i].accepted
       /\ candidate[i].last = (i = Size)
       /\ candidate[i].cycle # NoValue
  /\ \A i \in 2 .. Size : candidate[i].cycle > candidate[i - 1].cycle

ReferenceIsComplete == TotalValues(reference) = Size

(* A report without findings on a trace that matches the reference means   *)
(* that the hardware made every transfer once, in order, with the right    *)
(* value and one last mark at the end: no set of skipped, repeated, early, *)
(* late or wrong transfers adds up to silence.                             *)
CleanMeansComplete ==
  /\ origin # "file" /\ stage = "done" /\ findings = {} /\ report.kind = "match"
  /\ ReferenceIsComplete
  =>
    StreamIsComplete /\ \A i \in DOMAIN transfers : transfers[i].value = 0

(* A complete trace is never blamed: wrong values are a divergence and no  *)
(* protocol error.                                                         *)
CompleteIsClean ==
  /\ StreamIsComplete /\ TraceIsComplete /\ ReferenceIsComplete
  /\ stage \in {"done", "rejected"}
  => /\ stage = "done" /\ findings = {}
     /\ (\A i \in DOMAIN candidate : candidate[i].values = << 0 >>) <=> report.kind = "match"

(* A missing or unexpected transfer is reported only where the traces      *)
(* really differ.                                                          *)
FindingsAreTrue ==
  /\ "missing_output_transfer" \in Rules => KeysOf(reference) \ KeysOf(candidate) # {}
  /\ "unexpected_output_transfer" \in Rules => KeysOf(candidate) \ KeysOf(reference) # {}
=============================================================================
