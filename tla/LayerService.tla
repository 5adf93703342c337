---------------------------- MODULE LayerService ----------------------------
(***************************************************************************)
(* One layer as its client sees it: after a start the service takes every  *)
(* weight, then every activation, and then offers the answers one by one,  *)
(* each until it is accepted, the last one marked; accepting it ends the   *)
(* run with a one-step completion.  An abort forgets everything.           *)
(***************************************************************************)
EXTENDS Naturals

CONSTANTS
  Weights, Activations, Answers,   \* how many of each a run has
  Answer(_),                       \* the k-th answer, counted from 0
  NoOffer

VARIABLES phase, taken, given, offer, finished

vars == << phase, taken, given, offer, finished >>

None == [weights |-> 0, activations |-> 0]

Init ==
  /\ phase = "idle"
  /\ taken = None
  /\ given = 0
  /\ offer = NoOffer
  /\ finished = FALSE

Begin ==
  /\ phase = "idle"
  /\ phase' = "weights"
  /\ taken' = None
  /\ given' = 0
  /\ finished' = FALSE
  /\ UNCHANGED offer

TakeWeight ==
  /\ phase = "weights"
  /\ taken' = [taken EXCEPT !.weights = @ + 1]
  /\ phase' = IF taken'.weights = Weights THEN "activations" ELSE "weights"
  /\ UNCHANGED << given, offer, finished >>

TakeActivation ==
  /\ phase = "activations"
  /\ taken' = [taken EXCEPT !.activations = @ + 1]
  /\ phase' = IF taken'.activations = Activations THEN "answers" ELSE "activations"
  /\ UNCHANGED << given, offer, finished >>

Offer ==
  /\ phase = "answers"
  /\ offer = NoOffer
  /\ offer' = [data |-> Answer(given), last |-> given = Answers - 1]
  /\ UNCHANGED << phase, taken, given, finished >>

Accept ==
  /\ phase = "answers"
  /\ offer # NoOffer
  /\ offer' = NoOffer
  /\ given' = given + 1
  /\ IF given' = Answers
       THEN phase' = "idle" /\ finished' = TRUE
       ELSE UNCHANGED << phase, finished >>
  /\ UNCHANGED taken

(* Completion is announced for one step. *)
Settle ==
  /\ phase = "idle"
  /\ finished' = FALSE
  /\ UNCHANGED << phase, taken, given, offer >>

Abort ==
  /\ phase' = "idle"
  /\ taken' = None
  /\ given' = 0
  /\ offer' = NoOffer
  /\ finished' = FALSE

Next ==
  \/ Begin
  \/ TakeWeight
  \/ TakeActivation
  \/ Offer
  \/ Accept
  \/ Settle
  \/ Abort

Spec == Init /\ [][Next]_vars
=============================================================================
