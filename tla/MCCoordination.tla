-------------------------- MODULE MCCoordination --------------------------
(* Values for TLC: two users arranging a plan through notification chats,   *)
(* two without such a chat who write to each other, and one whose target  *)
(* is misconfigured.                                                       *)
EXTENDS Coordination, TLC

CONSTANTS a, b

Setup(na, nb, kind, ra, rb, t) ==
    [notify |-> a :> na @@ b :> nb, traffic |-> {kind}, room |-> a :> ra @@ b :> rb, until |-> t]

MCSetups == {Setup("ok", "ok", "plan", 3, 2, 1),
             Setup("none", "none", "text", 2, 1, 2),
             Setup("ok", "bad", "task", 2, 0, 3),
             Setup("ok", "bad", "text", 2, 2, 1)}
=============================================================================
