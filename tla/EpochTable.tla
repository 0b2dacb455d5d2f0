----------------------------- MODULE EpochTable -----------------------------
(***************************************************************************)
(* The issuer_epochs table and the statements the stores run on it.  A     *)
(* table is a function from epoch numbers to rows; a number that has no    *)
(* row maps to Absent.  Timestamps are kept only where they decide         *)
(* something: closed_at becomes the row's state and last_issued_expires_at *)
(* the number lastExp, 0 standing for NULL.                                *)
(***************************************************************************)
EXTENDS Integers

CONSTANTS EpochBound,  \* bound: no epoch with a higher number is opened
          MaxIndices   \* the store's default ceiling, s.maxIndices

ASSUME EpochAssumption == /\ EpochBound \in Nat \ {0}
                          /\ MaxIndices \in Nat \ {0}

EpochNumbers == 1..EpochBound

Row == [state : {"absent", "open", "closed"},
        max : Nat, next : Nat, lastExp : Nat]

Table == [EpochNumbers -> Row]

Absent == [state |-> "absent", max |-> 0, next |-> 0, lastExp |-> 0]

\* The row every INSERT INTO issuer_epochs creates.
OpenRow(max) == [state |-> "open", max |-> max, next |-> 0, lastExp |-> 0]

OpenEpochs(t) == {n \in EpochNumbers : t[n].state = "open"}

\* WHERE closed_at IS NULL ORDER BY number DESC LIMIT 1
CurrentEpoch(t) ==
    CHOOSE n \in OpenEpochs(t) : \A m \in OpenEpochs(t) : m <= n

\* A slip: the expiry of the last commit wins, though it may be earlier.
LastWins(a, b) == b

Later(a, b) == IF a > b THEN a ELSE b

\* A slip: next_idx is not written back.
BumpedExpiryOnly(row, exp) == [row EXCEPT !.lastExp = Later(@, exp)]

\* UPDATE ... SET next_idx, last_issued_expires_at: one index is consumed.
Bumped(row, exp) ==
    [row EXCEPT !.next = @ + 1, !.lastExp = Later(@, exp)]

\* --max-indices 0 means the store's default ceiling.
Ceiling(max) == IF max = 0 THEN MaxIndices ELSE max

\* RotateEpoch as one transaction: close the open epoch n, open n + 1.
Rotated(t, max) ==
    LET n == CurrentEpoch(t)
    IN  [t EXCEPT ![n].state = "closed", ![n + 1] = OpenRow(Ceiling(max))]

\* next_idx >= max_indices: the open epoch has no index left.
Exhausted(row) == row.next >= row.max

\* The epoch AllocateIndex takes its index from.
AllocEpoch(t) ==
    LET n == CurrentEpoch(t) IN IF Exhausted(t[n]) THEN n + 1 ELSE n

\* The index it takes: next_idx of the open epoch, or 0 of a fresh one.
AllocIdx(t) ==
    LET n == CurrentEpoch(t) IN IF Exhausted(t[n]) THEN 0 ELSE t[n].next

\* AllocateIndex as one transaction, the inline roll of a full epoch included.
Allocated(t, exp) ==
    LET n == CurrentEpoch(t)
    IN  IF Exhausted(t[n])
        THEN [Rotated(t, 0) EXCEPT ![n + 1] = Bumped(OpenRow(MaxIndices), exp)]
        ELSE [t EXCEPT ![n] = Bumped(@, exp)]

\* Whether an epoch number is left, within the bound, to open next.
CanRotate(t) == CurrentEpoch(t) + 1 \in EpochNumbers
CanAllocate(t) == Exhausted(t[CurrentEpoch(t)]) => CanRotate(t)
=============================================================================
