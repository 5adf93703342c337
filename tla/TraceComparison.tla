--------------------------- MODULE TraceComparison ---------------------------
(***************************************************************************)
(* compare_trace_files of tensorwright/trace/compare.py: two canonical     *)
(* traces are aligned by tensor and coordinate and the first divergence is *)
(* reported.  The code has three ways to align, chosen by the kinds of     *)
(* events the files hold; one step is one iteration of the loop that way   *)
(* has.                                                                    *)
(*                                                                         *)
(* An event carries the values of consecutive coordinates from start on; a *)
(* scalar event carries one.  A tensor stands for what identifies it       *)
(* (operation, name and trace point), meta for shape, layout, dtype and    *)
(* operation type.  A coordinate is its place in raster order.  The model  *)
(* IDs of the two files agree and payload files are as the events say: the *)
(* checks of both come before the loops and end the comparison.            *)
(***************************************************************************)
EXTENDS Integers, Sequences, FiniteSets, SequencesExt

CONSTANT Pairs   \* the pairs << reference, candidate >> of traces to compare

VARIABLES
  reference, candidate,   \* the events of the two files
  way,                    \* the loop that runs, or "none" before the choice
  position,               \* its iterations so far
  matched_values,
  report                  \* kind of the first divergence, where, and the values

comparison_vars == << reference, candidate, way, position, matched_values, report >>

(* A side of a comparison is the set of its values: one, or none where the *)
(* side has nothing.                                                       *)
Running == [kind |-> "running", at |-> {}, expected |-> {}, actual |-> {}]
Matched == [Running EXCEPT !.kind = "match"]
AlignmentError == [Running EXCEPT !.kind = "alignment_error"]

ComparisonInit ==
  /\ \E pair \in Pairs : reference = pair[1] /\ candidate = pair[2]
  /\ way = "none"
  /\ position = 0
  /\ matched_values = 0
  /\ report = Running
-----------------------------------------------------------------------------
(* An event's values, each with its semantic key. *)
AlignedValue(event, offset) ==
  [key   |-> [tensor |-> event.tensor, coordinate |-> event.start + offset],
   value |-> event.values[offset + 1],
   meta  |-> event.meta]

chunk_size(event) == Len(event.values)

expand_event(event) ==
  [i \in 1 .. chunk_size(event) |-> AlignedValue(event, i - 1)]

first_value(event) == AlignedValue(event, 0)

(* All values of a trace, in file order. *)
AllValues(trace) == FlattenSeq([i \in DOMAIN trace |-> expand_event(trace[i])])

TotalValues(trace) == Len(AllValues(trace))

KeysOf(trace) ==
  LET values == AllValues(trace)
  IN  {values[i].key : i \in DOMAIN values}

(* The two indexes: values by coordinate, chunks by where they start.      *)
index_chunks(trace) == [i \in DOMAIN trace |-> first_value(trace[i])]

HasDuplicate(values) == \E i, j \in DOMAIN values : i # j /\ values[i].key = values[j].key

LeastOf(numbers) == {i \in numbers : \A j \in numbers : i <= j}

With(values, key) ==
  {values[i] : i \in LeastOf({i \in DOMAIN values : values[i].key = key})}

(* The candidate's first value with a key the reference has not: the loops *)
(* go over the reference's keys in order, then over those.                 *)
Extra(expected, actual) ==
  {actual[i] : i \in LeastOf({i \in DOMAIN actual : With(expected, actual[i].key) = {}})}

Kinds(trace) == {trace[i].kind : i \in DOMAIN trace}

(* The choice of the loop. *)
WayFor(ref, cand) ==
  CASE Kinds(ref) \cup Kinds(cand) = {"tensor_chunk"} -> "chunks"
    [] {Kinds(ref), Kinds(cand)} = {{"scalar"}, {"tensor_chunk"}} -> "mixed"
    [] OTHER -> "values"

(* What the schema lets a file hold.                                       *)
IsEvent(event) ==
  /\ event.kind \in {"scalar", "tensor_chunk"}
  /\ event.start \in Nat
  /\ event.values \in Seq(ToSet(event.values)) /\ event.values # << >>
  /\ event.kind = "scalar" => Len(event.values) = 1

IsTrace(trace) ==
  trace \in Seq(ToSet(trace)) /\ \A i \in DOMAIN trace : IsEvent(trace[i])

(* Two files are comparable when they are cut as the writers of the        *)
(* repository cut them: two files of chunks into the same parts, and the   *)
(* scalars that face chunks in the order of the chunks' values, each once. *)
(* Files of scalars or of both kinds may hold anything.                    *)
Covered(event) == {AlignedValue(event, o).key : o \in 0 .. chunk_size(event) - 1}

Apart(trace) ==
  \A i, j \in DOMAIN trace : i # j => Covered(trace[i]) \cap Covered(trace[j]) = {}

AgreeOnParts(ref, cand) ==
  \A i \in DOMAIN ref, j \in DOMAIN cand :
    \/ Covered(ref[i]) = Covered(cand[j])
    \/ Covered(ref[i]) \cap Covered(cand[j]) = {}

AgreeOnOrder(expected, actual) ==
  /\ ~HasDuplicate(expected) /\ ~HasDuplicate(actual)
  /\ \A i \in DOMAIN expected \cap DOMAIN actual : expected[i].key = actual[i].key

Comparable(ref, cand) ==
  /\ WayFor(ref, cand) = "chunks" => Apart(ref) /\ Apart(cand) /\ AgreeOnParts(ref, cand)
  /\ WayFor(ref, cand) = "mixed" => AgreeOnOrder(AllValues(ref), AllValues(cand))

ComparablePairs == \A pair \in Pairs : Comparable(pair[1], pair[2])

ASSUME PairsAssumption == \A pair \in Pairs : IsTrace(pair[1]) /\ IsTrace(pair[2])

(* Report one divergence. *)
Diverge(kind, expected, actual) ==
  report' = [kind     |-> kind,
             at       |-> {v.key : v \in expected \cup actual},
             expected |-> {v.value : v \in expected},
             actual   |-> {v.value : v \in actual}]

(* The body the three loops share, for the two sides of one coordinate. *)
CompareMetadataFirst(expected, actual) ==
  IF expected = {} THEN "unexpected_candidate_value"
  ELSE IF actual = {} THEN "missing_candidate_value"
  ELSE IF {v.meta : v \in expected} # {v.meta : v \in actual} THEN "metadata_mismatch"
  ELSE IF {v.value : v \in expected} # {v.value : v \in actual} THEN "value_mismatch"
  ELSE "equal"

-----------------------------------------------------------------------------
(* compare_trace_files: choose the loop; duplicates end the comparison     *)
(* where the indexes are built.                                            *)
ChooseWay ==
  /\ way = "none"
  /\ way' = WayFor(reference, candidate)
  /\ report' = IF \/ /\ way' = "chunks"
                     /\ HasDuplicate(index_chunks(reference)) \/ HasDuplicate(index_chunks(candidate))
                  \/ /\ way' = "values"
                     /\ HasDuplicate(AllValues(reference)) \/ HasDuplicate(AllValues(candidate))
               THEN AlignmentError
               ELSE Running
  /\ UNCHANGED << reference, candidate, position, matched_values >>

(* One iteration over two sides, which counts what was equal.              *)
Iterate(expected, actual) ==
  LET kind == CompareMetadataFirst(expected, actual)
  IN  IF kind = "equal"
        THEN /\ matched_values' = matched_values + 1
             /\ position' = position + 1
             /\ UNCHANGED report
        ELSE /\ Diverge(kind, expected, actual)
             /\ UNCHANGED << position, matched_values >>

(* After the reference's keys.                                             *)
Finish(extra) ==
  /\ IF extra = {} THEN report' = Matched
     ELSE Diverge("unexpected_candidate_value", {}, extra)
  /\ UNCHANGED << position, matched_values >>

(* The loop over single values. *)
CompareValue ==
  /\ way = "values" /\ report = Running
  /\ LET expected == AllValues(reference)
         actual   == AllValues(candidate)
     IN  IF position < Len(expected)
           THEN Iterate({expected[position + 1]}, With(actual, expected[position + 1].key))
           ELSE Finish(Extra(expected, actual))
  /\ UNCHANGED << reference, candidate, way >>

(* Faulty variant: the last difference.                                    *)
last_array_mismatch(expected, actual) ==
  IF chunk_size(expected) # chunk_size(actual) THEN {0}
  ELSE LET unequal == {i \in 0 .. chunk_size(expected) - 1 :
                         expected.values[i + 1] # actual.values[i + 1]}
       IN  {i \in unequal : \A j \in unequal : j <= i}

(* first_array_mismatch: a difference of the shapes counts as a difference *)
(* at the first coordinate.                                                *)
first_array_mismatch(expected, actual) ==
  IF chunk_size(expected) # chunk_size(actual) THEN {0}
  ELSE LET unequal == {i \in 0 .. chunk_size(expected) - 1 :
                         expected.values[i + 1] # actual.values[i + 1]}
       IN  {i \in unequal : \A j \in unequal : i <= j}

EventAt(trace, key) ==
  {trace[i] : i \in LeastOf({i \in DOMAIN trace : first_value(trace[i]).key = key})}

(* Two chunks with the same start. *)
CompareTwoChunks(expected, actual) ==
  IF expected.meta # actual.meta
    THEN /\ Diverge("metadata_mismatch", {first_value(expected)}, {first_value(actual)})
         /\ UNCHANGED << position, matched_values >>
  ELSE IF first_array_mismatch(expected, actual) # {}
    THEN \E i \in first_array_mismatch(expected, actual) :
           /\ Diverge("value_mismatch", {AlignedValue(expected, i)}, {AlignedValue(actual, i)})
           /\ matched_values' = matched_values + i
           /\ UNCHANGED position
    ELSE /\ matched_values' = matched_values + chunk_size(expected)
         /\ position' = position + 1
         /\ UNCHANGED report

(* The loop over chunks. *)
CompareChunk ==
  /\ way = "chunks" /\ report = Running
  /\ IF position < Len(reference)
       THEN LET expected == reference[position + 1]
                others   == EventAt(candidate, first_value(expected).key)
            IN  IF others = {}
                  THEN /\ Diverge("missing_candidate_value", {first_value(expected)}, {})
                       /\ UNCHANGED << position, matched_values >>
                  ELSE \E actual \in others : CompareTwoChunks(expected, actual)
       ELSE Finish(Extra(index_chunks(reference), index_chunks(candidate)))
  /\ UNCHANGED << reference, candidate, way >>

(* The loop over the scalars of one file against the chunks of the other.  *)
chunks_are_reference == Kinds(reference) = {"tensor_chunk"}

chunks  == IF chunks_are_reference THEN reference ELSE candidate
scalars == IF chunks_are_reference THEN candidate ELSE reference

(* value_from_chunks: the first chunk that covers the coordinate.          *)
value_from_chunks(scalar) == With(AllValues(chunks), scalar.key)

(* Faulty variant: what the chunks have and the scalars lack is not seen.  *)
CompareLengthsNever ==
  /\ report' = Matched
  /\ UNCHANGED << position, matched_values >>

(* After the last scalar: when there are fewer scalars than values in the  *)
(* chunks, the value at the offset of that number is reported.             *)
CompareLengths ==
  /\ IF Len(scalars) < TotalValues(chunks)
       THEN LET left == {AllValues(chunks)[Len(scalars) + 1]}
            IN  IF chunks_are_reference
                  THEN Diverge("missing_candidate_value", left, {})
                  ELSE Diverge("unexpected_candidate_value", {}, left)
       ELSE report' = Matched
  /\ UNCHANGED << position, matched_values >>

CompareScalar ==
  /\ way = "mixed" /\ report = Running
  /\ IF position < Len(scalars)
       THEN LET scalar == first_value(scalars[position + 1])
                other  == value_from_chunks(scalar)
            IN  IF chunks_are_reference THEN Iterate(other, {scalar}) ELSE Iterate({scalar}, other)
       ELSE CompareLengths
  /\ UNCHANGED << reference, candidate, way >>

ComparisonNext == ChooseWay \/ CompareValue \/ CompareChunk \/ CompareScalar

ComparisonSpec == ComparisonInit /\ [][ComparisonNext]_comparison_vars
-----------------------------------------------------------------------------
(* A verdict without a divergence is given only for traces that hold the   *)
(* same values under the same coordinates, each of them once.              *)
MatchMeansEqual ==
  report.kind = "match" =>
    /\ ToSet(AllValues(reference)) = ToSet(AllValues(candidate))
    /\ ~HasDuplicate(AllValues(reference)) /\ ~HasDuplicate(AllValues(candidate))
    /\ matched_values = TotalValues(reference)

(* What the reference and the candidate have under a coordinate.           *)
TrueKind(key) ==
  CompareMetadataFirst(With(AllValues(reference), key), With(AllValues(candidate), key))

Diverged == report.kind \notin {"running", "match", "alignment_error"}

(* "The earliest semantic mismatch between two traces": a divergence is    *)
(* what the two files really have at its coordinate, all coordinates       *)
(* before it agree, those of the reference being first, and so many values *)
(* are reported as matched.                                                *)
DivergenceIsFirst ==
  Diverged =>
    LET total == TotalValues(reference)
        both  == AllValues(reference) \o AllValues(candidate)
    IN  \E i \in DOMAIN both :
          /\ report.at = {both[i].key}
          /\ TrueKind(both[i].key) = report.kind
          /\ \A j \in 1 .. i - 1 : TrueKind(both[j].key) = "equal"
          /\ matched_values = IF i <= total THEN i - 1 ELSE total

(* "The engine rejects ... duplicate semantic keys instead of guessing."   *)
DuplicatesRejected ==
  report.kind = "match" =>
    ~HasDuplicate(AllValues(reference)) /\ ~HasDuplicate(AllValues(candidate))
=============================================================================
