----------------------------- MODULE MCPaywall ------------------------------
(***************************************************************************)
(* Paywall for TLC.  Subjects and nonces are interchangeable model values. *)
(* Requests are too, but there are many of them: they are numbers, and it  *)
(* is enough to look at the behaviours in which they begin in order, since *)
(* every behaviour is one of those with its requests renamed.              *)
(***************************************************************************)
EXTENDS Paywall, TLC

PaywallSymmetry == Permutations(Subs) \cup Permutations(Nonces)

\* Bounds: one request at most is of another identity than the first request,
\* and nobody denies or revokes that identity.
OneOutsider == /\ Cardinality({r \in Requests : sub[r] # sub[1]}) <= 1
               /\ denied \cup revoked \subseteq {sub[1]}

BeginInOrder == \A i, j \in Requests : i < j /\ pc'[j] # "idle" => pc'[i] # "idle"
=============================================================================
