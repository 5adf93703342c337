-------------------------- MODULE BundlePublication --------------------------
(***************************************************************************)
(* What a deployment directory promises: at any time it holds one whole    *)
(* bundle or nothing, and whoever opens it gets exactly that.              *)
(***************************************************************************)
CONSTANTS
  Images,    \* the whole bundles, one for each compiled model
  Nothing    \* no bundle; and what an opening that is refused gets

VARIABLES published, opened

Init == published = Nothing /\ opened = Nothing

Publish  == published = Nothing /\ published' \in Images /\ UNCHANGED opened
Withdraw == published' = Nothing /\ UNCHANGED opened
Open     == opened' = published /\ UNCHANGED published

Next == Publish \/ Withdraw \/ Open

Spec == Init /\ [][Next]_<< published, opened >>
=============================================================================
