-------------------------- MODULE MCStreamDiagnosis --------------------------
(* Streams of three values with up to three deviations, against a          *)
(* reference of all three values or the first two, as scalars; and pairs   *)
(* of files of one tensor of three values: the reference's values are      *)
(* zero, the candidate's are zero or one, and its metadata agrees or not.  *)
EXTENDS StreamDiagnosis

Scalar(at, value, meta) ==
  [kind |-> "scalar", trace_point |-> "operation_output",
   tensor |-> "y", start |-> at, values |-> << value >>, meta |-> meta]

Chunk(start, values, meta) ==
  [kind |-> "tensor_chunk", trace_point |-> "operation_output",
   tensor |-> "y", start |-> start, values |-> values, meta |-> meta]

ScalarEvents(values, metas) ==
  {Scalar(at, v, m) : at \in 0 .. Size - 1, v \in values, m \in metas}

ChunksFrom(start, values, metas) ==
  {Chunk(start, s, m) : s \in UNION {[1 .. n -> values] : n \in 1 .. Size - start}, m \in metas}

ChunkEvents(values, metas) ==
  UNION {ChunksFrom(start, values, metas) : start \in 0 .. Size - 1}

Traces(events, most) == UNION {[1 .. n -> events] : n \in 1 .. most}

(* Files of scalars, and files that mix scalars and chunks: the candidate  *)
(* has a scalar or both files have both kinds, so no other loop is chosen. *)
MixedFiles ==
  {t \in Traces(ScalarEvents({0}, {"m"}) \cup ChunkEvents({0}, {"m"}), 2) :
     {t[i].kind : i \in DOMAIN t} = {"scalar", "tensor_chunk"}}

ScalarFiles == Traces(ScalarEvents({0}, {"m"}), 3)

CandidateScalars == Traces(ScalarEvents({0, 1}, {"m"}), 3) \cup Traces(ScalarEvents({0, 1}, {"m", "n"}), 2)

AnyCandidates ==
  CandidateScalars \cup Traces(ScalarEvents({0, 1}, {"m"}) \cup ChunkEvents({0, 1}, {"m"}), 2)

(* Chunks as the writers of the repository make them: one for a tensor, or *)
(* the same parts in both files.                                           *)
ChunkFiles(values, metas) == {t \in Traces(ChunkEvents(values, metas), 2) : Apart(t)}

(* Scalars as the stream capture makes them: in raster order from zero.    *)
InOrder(trace) == \A i \in DOMAIN trace : trace[i].start = i - 1

WholeChunks(values) == {<< Chunk(0, s, "m") >> : s \in [1 .. Size -> values]}

ScalarReference(n) == [i \in 1 .. n |-> Scalar(i - 1, 0, "m")]

MCReferences == {ScalarReference(Size), ScalarReference(Size - 1)}

MCPairs ==
  (ScalarFiles \X CandidateScalars)
    \cup (MixedFiles \X AnyCandidates)
    \cup {p \in ChunkFiles({0}, {"m"}) \X ChunkFiles({0, 1}, {"m", "n"}) : AgreeOnParts(p[1], p[2])}
    \cup (WholeChunks({0}) \X {t \in CandidateScalars : InOrder(t)})
    \cup ({t \in ScalarFiles : InOrder(t)} \X WholeChunks({0, 1}))

MCScalarsOfWholeChunk == WholeChunks({0}) \X Traces(ScalarEvents({0}, {"m"}), 3)
=============================================================================
