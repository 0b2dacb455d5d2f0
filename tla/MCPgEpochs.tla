----------------------------- MODULE MCPgEpochs -----------------------------
(* PgEpochs for TLC: callers are interchangeable within their class.  The  *)
(* symmetry is for runs that check safety only.                            *)
EXTENDS PgEpochs, TLC

CallerSymmetry ==
    Permutations(FaultyCallers) \cup Permutations(Callers \ FaultyCallers)
=============================================================================
