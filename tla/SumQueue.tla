------------------------------ MODULE SumQueue ------------------------------
(***************************************************************************)
(* What the arithmetic core promises: beats of operands are added up from  *)
(* a clear beat to a last beat, and every sum that does not overflow is    *)
(* handed out once, whole, in the order the sums were completed.           *)
(***************************************************************************)
EXTENDS Sequences

CONSTANTS Beat, AccumulatorOverflows(_), BiasOverflows(_, _)

VARIABLES
  open,      \* the sum that is being added up
  finished   \* the completed sums not yet handed out, oldest first

Init ==
  /\ open = << >>
  /\ finished = << >>

Extended(sum, beat) ==
  IF beat.clear THEN << beat.lanes >> ELSE Append(sum, beat.lanes)

Sum(lanes, settings) ==
  [sum |-> lanes, settings |-> settings, overflow |-> BiasOverflows(lanes, settings)]

(* The sums after one more beat. *)
Absorb(sums, beat) ==
  LET total == Extended(sums.open, beat) IN
  CASE ~beat.last -> [sums EXCEPT !.open = total]
    [] beat.last /\ AccumulatorOverflows(total) -> [sums EXCEPT !.open = << >>]
    [] beat.last /\ ~AccumulatorOverflows(total) ->
         [open |-> << >>, finished |-> Append(sums.finished, Sum(total, beat.settings))]

(* One edge: possibly a beat is added, possibly the oldest sum is handed   *)
(* out.                                                                    *)
Step(sums) ==
  /\ open' = sums.open
  /\ \/ finished' = sums.finished
     \/ finished # << >> /\ finished' = Tail(sums.finished)

Now == [open |-> open, finished |-> finished]

Flush ==
  /\ open' = << >>
  /\ finished' = << >>

Next ==
  \/ Step(Now)
  \/ \E beat \in Beat : Step(Absorb(Now, beat))
  \/ Flush

Spec == Init /\ [][Next]_<< open, finished >>
=============================================================================
