------------------------------ MODULE Minimizer ------------------------------
(***************************************************************************)
(* minimize_inputs of tensorwright/minimizer.py: a failing input is        *)
(* reduced while an oracle keeps reporting the same failure.  A step is a  *)
(* question to the oracle or one turn of a loop without a question.        *)
(*                                                                         *)
(* The tensors' values are numbered 1 .. N in the order the code walks     *)
(* them, so a list of coordinates is a set.  Values are counted in halves: *)
(* One is the value 1.                                                     *)
(***************************************************************************)
EXTENDS Integers, FiniteSets

CONSTANTS
  N,            \* number of values
  Dtype,        \* their dtype.kind: "b", "i", "u" or "f"
  Originals,    \* the inputs to minimize
  Limits,       \* values of max_evaluations
  Signatures,   \* failures the oracle can report
  NoFailure,    \* the oracle's None
  Raised,       \* the oracle raised an error
  Expected      \* expected_signature, or NoFailure for none

One == 2

Index == 1 .. N
Inputs == [Index -> Int]
Outcomes == Signatures \cup {NoFailure, Raised}

ASSUME MinimizerAssumption ==
  /\ N \in Nat \ {0}
  /\ Originals \subseteq Inputs
  /\ Limits \subseteq Nat \ {0}
  /\ NoFailure \notin Signatures /\ Raised \notin Signatures
  /\ Expected \in Signatures \cup {NoFailure}

VARIABLES
  original, limit,   \* the arguments
  phase,             \* where the function is
  current,           \* the smallest input so far that fails
  coordinates,       \* where it is not zero
  granularity,       \* into how many chunks the coordinates are cut
  tried,             \* chunks tried since they were cut
  left,              \* coordinates whose value is still to be simplified
  evaluations,
  signature,         \* the failure to preserve
  answers,           \* history: what the oracle answered; it is deterministic
  settled            \* history: the input after the removals

vars == << original, limit, phase, current, coordinates, granularity, tried, left,
           evaluations, signature, answers, settled >>

nonzero_coordinates(input) == {c \in Index : input[c] # 0}

Smaller(m, n) == IF m < n THEN m ELSE n
Larger(m, n) == IF m < n THEN n ELSE m

Init ==
  /\ original \in Originals
  /\ limit \in Limits
  /\ phase = "start"
  /\ current = original
  /\ coordinates = {}
  /\ granularity = 0
  /\ tried = 0
  /\ left = {}
  /\ evaluations = 0
  /\ signature = NoFailure
  /\ answers = [input \in {} |-> NoFailure]
  /\ settled = original
-----------------------------------------------------------------------------
(* One question to the oracle. *)
Ask(input, outcome) ==
  /\ outcome \in IF input \in DOMAIN answers THEN {answers[input]} ELSE Outcomes
  /\ answers' = [x \in DOMAIN answers \cup {input} |->
                   IF x = input THEN outcome ELSE answers[x]]
  /\ evaluations' = evaluations + 1

(* The first question: the original must fail, and as expected.            *)
Reproduce ==
  /\ phase = "start"
  /\ \E outcome \in Outcomes :
       /\ Ask(current, outcome)
       /\ IF outcome \in Signatures /\ Expected \in {NoFailure, outcome}
            THEN /\ phase' = "remove"
                 /\ signature' = outcome
                 /\ coordinates' = nonzero_coordinates(current)
                 /\ granularity' = Smaller(2, Cardinality(nonzero_coordinates(current)))
            ELSE /\ phase' = "failed"
                 /\ UNCHANGED << signature, coordinates, granularity >>
  /\ UNCHANGED << original, limit, current, tried, left, settled >>

(* _partitions(values, count): consecutive, and the first ones one longer. *)
rank(values, c) == Cardinality({d \in values : d <= c})

partition_start(values, count, k) ==
  (k - 1) * (Cardinality(values) \div count) + Smaller(k - 1, Cardinality(values) % count)

partition(values, count, k) ==
  {c \in values : /\ partition_start(values, count, k) < rank(values, c)
                  /\ rank(values, c) <= partition_start(values, count, k + 1)}

Without(input, chunk) == [c \in Index |-> IF c \in chunk THEN 0 ELSE input[c]]

(* Faulty variant: any failure will do. *)
PreservesAny(outcome) == outcome \in Signatures

Preserves(outcome) == outcome = signature

NextChunk == partition(coordinates, granularity, tried + 1)

InPass == phase = "remove" /\ tried < granularity /\ (tried > 0 \/ evaluations < limit)

(* preserves(candidate) for the next chunk, and what follows its answer.   *)
AskWithout(chunk) ==
  /\ LET candidate == Without(current, chunk)
         remaining == coordinates \ chunk
     IN  \E outcome \in Outcomes :
           /\ Ask(candidate, outcome)
           /\ CASE Preserves(outcome) ->
                     /\ current' = candidate
                     /\ coordinates' = remaining
                     /\ granularity' = Smaller(Larger(2, granularity - 1), Cardinality(remaining))
                     /\ tried' = 0
                     /\ UNCHANGED phase
                [] outcome = Raised ->
                     /\ phase' = "failed"
                     /\ UNCHANGED << current, coordinates, granularity, tried >>
                [] OTHER ->
                     /\ tried' = tried + 1
                     /\ UNCHANGED << current, coordinates, granularity, phase >>
  /\ UNCHANGED << original, limit, left, signature, settled >>

TryChunk == InPass /\ evaluations < limit /\ AskWithout(NextChunk)

(* preserves(candidate) without evaluations left. *)
SkipChunk ==
  /\ InPass /\ evaluations >= limit
  /\ tried' = tried + 1
  /\ UNCHANGED << original, limit, phase, current, coordinates, granularity, left,
                  evaluations, signature, answers, settled >>

BeginSimplifying ==
  /\ phase' = "simplify"
  /\ left' = coordinates
  /\ settled' = current

(* The end of the loop, by its condition ... *)
LeaveRemoval ==
  /\ phase = "remove" /\ tried = 0
  /\ coordinates = {} \/ evaluations >= limit
  /\ BeginSimplifying
  /\ UNCHANGED << original, limit, current, coordinates, granularity, tried, evaluations,
                  signature, answers >>

(* ... or, when no chunk could be removed, by its break; otherwise the     *)
(* chunks are halved.                                                      *)
EndPass ==
  /\ phase = "remove" /\ coordinates # {} /\ tried = granularity
  /\ IF granularity >= Cardinality(coordinates)
       THEN /\ BeginSimplifying
            /\ UNCHANGED << granularity, tried >>
       ELSE /\ granularity' = Smaller(Cardinality(coordinates), granularity * 2)
            /\ tried' = 0
            /\ UNCHANGED << phase, left, settled >>
  /\ UNCHANGED << original, limit, current, coordinates, evaluations, signature, answers >>

(* Faulty variant: a float is truncated towards zero. *)
truncated_value(value, dtype) ==
  LET sign == IF value < 0 THEN 0 - One ELSE One
  IN  IF value = 0 \/ dtype = "b" THEN value
      ELSE IF value \in 1 - One .. One - 1 THEN 0 ELSE sign

simplified_value(value, dtype) ==
  LET sign == IF value < 0 THEN 0 - One ELSE One
  IN  IF value = 0 \/ dtype = "b" THEN value
      ELSE IF dtype \in {"i", "u"} THEN sign
      ELSE IF value > One \/ value < 0 - One THEN sign ELSE value

SimplifiedAt(input, c) ==
  [input EXCEPT ![c] = simplified_value(input[c], Dtype[c])]

NextLeft == {c \in left : \A d \in left : c <= d}

(* One turn of the second loop that asks. *)
Simplify ==
  /\ phase = "simplify" /\ evaluations < limit
  /\ \E c \in NextLeft, outcome \in Outcomes :
       /\ SimplifiedAt(current, c) # current
       /\ Ask(SimplifiedAt(current, c), outcome)
       /\ current' = IF Preserves(outcome) THEN SimplifiedAt(current, c) ELSE current
       /\ phase' = IF outcome = Raised THEN "failed" ELSE phase
       /\ left' = left \ {c}
  /\ UNCHANGED << original, limit, coordinates, granularity, tried, signature, settled >>

(* Faulty variant: goes on without going on. *)
KeepValueInPlace ==
  /\ phase = "simplify" /\ evaluations < limit
  /\ \E c \in NextLeft : SimplifiedAt(current, c) = current
  /\ UNCHANGED vars

(* One that has nothing to simplify. *)
KeepValue ==
  /\ phase = "simplify" /\ evaluations < limit
  /\ \E c \in NextLeft :
       /\ SimplifiedAt(current, c) = current
       /\ left' = left \ {c}
  /\ UNCHANGED << original, limit, phase, current, coordinates, granularity, tried,
                  evaluations, signature, answers, settled >>

(* Faulty variant: one question too late. *)
stopped_beyond_budget == evaluations > limit

stopped_by_budget == evaluations >= limit

Return ==
  /\ phase = "simplify"
  /\ left = {} \/ evaluations >= limit
  /\ phase' = "done"
  /\ UNCHANGED << original, limit, current, coordinates, granularity, tried, left,
                  evaluations, signature, answers, settled >>

Next ==
  \/ Reproduce
  \/ TryChunk \/ SkipChunk \/ LeaveRemoval \/ EndPass
  \/ Simplify \/ KeepValue \/ Return

(* The function runs on as long as it can take a step. *)
Spec == Init /\ [][Next]_vars /\ WF_vars(Next)
-----------------------------------------------------------------------------
TypeOK ==
  /\ original \in Originals /\ limit \in Limits
  /\ phase \in {"start", "remove", "simplify", "done", "failed"}
  /\ current \in Inputs /\ settled \in Inputs
  /\ coordinates \subseteq Index /\ left \subseteq Index
  /\ granularity \in 0 .. N
  /\ tried \in 0 .. granularity
  /\ evaluations \in 0 .. limit
  /\ signature \in Signatures \cup {NoFailure}
  /\ DOMAIN answers \subseteq Inputs
  /\ \A input \in DOMAIN answers : answers[input] \in Outcomes

Reducing == phase \in {"remove", "simplify", "done"}

(* "Every accepted reduction must return the exact same signature": the    *)
(* input the function holds, and at last returns, was itself shown to the  *)
(* oracle and failed with the signature of the original, however often the *)
(* budget or an untried chunk came between.                                *)
CurrentFails ==
  Reducing =>
    /\ current \in DOMAIN answers /\ answers[current] = signature
    /\ original \in DOMAIN answers /\ answers[original] = signature

(* The list of coordinates is kept by hand beside the tensors: it is their *)
(* support in both loops, and a value of the result is zero, the original  *)
(* value, or what the original value simplifies to.                        *)
SupportIsTracked ==
  Reducing =>
    /\ coordinates = nonzero_coordinates(current)
    /\ \A c \in Index :
         current[c] \in {0, original[c], simplified_value(original[c], Dtype[c])}

Refused(input) == input \in DOMAIN answers /\ answers[input] # signature

(* Nothing can be removed from the input alone. *)
Irreducible(input) ==
  \A c \in nonzero_coordinates(input) : Refused(Without(input, {c}))

(* A value is as simple as it gets, or simplifying it was refused by the   *)
(* oracle at some time after the removals.                                 *)
SimpleAt(c) ==
  \/ SimplifiedAt(current, c) = current
  \/ \E input \in DOMAIN answers :
       input[c] = simplified_value(current[c], Dtype[c]) /\ Refused(input)

Simplified == \A c \in coordinates : SimpleAt(c)

Finished == Irreducible(settled) /\ Simplified

(* A search that does not report the budget has been complete: at its end  *)
(* every single removal had been tried in vain and every value simplified. *)
UnreportedMeansFinished ==
  phase = "done" /\ ~stopped_by_budget => Finished

(* The search ends, also when the budget is never reached. *)
SearchEnds == <>(phase \in {"done", "failed"})
=============================================================================
