--------------------------- MODULE PgEpochsProofs ---------------------------
(***************************************************************************)
(* Proofs about PgEpochs, for any callers, ceilings, expiries and bound.   *)
(*                                                                         *)
(* The argument: the committed table has at most one open epoch, and a     *)
(* transaction past its SELECT holds the lock of that row, so there is one *)
(* such transaction at a time and the row it scanned is the row in the     *)
(* table when it commits.  Its commit is then one atomic operation on the  *)
(* table, and the index it hands out is the row's next_idx, above every    *)
(* index handed out before.                                                *)
(***************************************************************************)
EXTENDS PgEpochs, TLAPS

\* Most leaves are first-order reasoning about sets and functions; the rest
\* need arithmetic.
USE Zenon, SMTT(10)

\* Rows are well formed, and no epoch has handed out more than its ceiling.
RowsOK == \A n \in EpochNumbers :
             /\ epochs[n].state = "absent" <=> epochs[n] = Absent
             /\ epochs[n].next <= epochs[n].max

\* c holds the lock of epoch m, and m is open.
Holds(c, m) == m \in EpochNumbers /\ lock[m] = c /\ epochs[m].state = "open"

\* The uncommitted rows of a transaction that has closed epoch m.
Closing(m) == [NoWrites EXCEPT ![m] = [epochs[m] EXCEPT !.state = "closed"]]

\* c has locked and scanned the open epoch num[c].
Scanned(c) == Holds(c, num[c]) /\ row[c] = epochs[num[c]]

\* c has closed the epoch below num[c] and inserted the row new as num[c].
Rolled(c, new) ==
    /\ num[c] - 1 \in EpochNumbers
    /\ Holds(c, num[c] - 1)
    /\ num[c] \in EpochNumbers
    /\ epochs[num[c]] = Absent
    /\ row[c] = OpenRow(IF op[c] = "rotate" THEN Ceiling(arg[c]) ELSE MaxIndices)
    /\ op[c] = "alloc" => Exhausted(epochs[num[c] - 1])
    /\ writes[c] = [Closing(num[c] - 1) EXCEPT ![num[c]] = new]

\* What each statement of an open transaction finds.
TxInv(c) ==
    /\ pc[c] = "start" => op[c] = "open"
    /\ pc[c] = "boot" => op[c] = "open"
    /\ pc[c] \in {"start", "boot", "select", "lock"} => num[c] = 0 /\ writes[c] = NoWrites
    /\ pc[c] = "lock" => \A m, n \in cand[c] : m = n
    /\ pc[c] \in {"select", "lock", "close", "insert", "bump", "commit"} => epochs[1] # Absent
    /\ pc[c] \in {"lock", "close", "insert", "bump", "commit"} => op[c] # "open"
    /\ op[c] = "alloc" => arg[c] \in Expiries
    /\ op[c] = "rotate" => arg[c] \in Ceilings
    /\ pc[c] = "close" => /\ Scanned(c)
                          /\ writes[c] = NoWrites
                          /\ op[c] = "alloc" => Exhausted(row[c])
    /\ pc[c] = "insert" => \/ num[c] = 0
                           \/ /\ Scanned(c)
                              /\ writes[c] = Closing(num[c])
                              /\ op[c] = "alloc" => Exhausted(row[c])
    /\ pc[c] = "insert" /\ num[c] = 0 => op[c] = "rotate"
    /\ pc[c] = "bump" => /\ op[c] = "alloc"
                         /\ \/ /\ Scanned(c)
                               /\ ~Exhausted(row[c])
                               /\ writes[c] = NoWrites
                            \/ Rolled(c, OpenRow(MaxIndices))
    /\ pc[c] = "commit" =>
          \/ /\ op[c] = "alloc"
             /\ Scanned(c)
             /\ ~Exhausted(row[c])
             /\ writes[c] = [NoWrites EXCEPT ![num[c]] = Bumped(row[c], arg[c])]
          \/ op[c] = "alloc" /\ Rolled(c, Bumped(OpenRow(MaxIndices), arg[c]))
          \/ op[c] = "rotate" /\ Rolled(c, OpenRow(Ceiling(arg[c])))

\* Answers are given at the end, and a granted index is on record.
ResultInv(c) ==
    /\ pc[c] # "done" => result[c] = Running
    /\ Granted(c) => /\ result[c].epoch \in EpochNumbers
                     /\ result[c].idx < epochs[result[c].epoch].next
                     /\ arg[c] <= epochs[result[c].epoch].lastExp

IInv == /\ TypeOK
        /\ RowsOK
        /\ OneOpenEpoch
        /\ UniqueIndex
        /\ \A c \in Callers : TxInv(c) /\ ResultInv(c)
-----------------------------------------------------------------------------
USE EpochAssumption, PgAssumption

(* The initial state satisfies the invariant: the table is empty and no    *)
(* caller has opened the store.                                            *)
LEMMA InitInv == Init => IInv
<1> SUFFICES ASSUME Init PROVE IInv
    OBVIOUS
<1> USE DEF Init, AbsInit, Absent, Row, Table, EpochNumbers
<1>1. TypeOK
    BY DEF TypeOK, Running, NoWrites
<1>2. RowsOK /\ OneOpenEpoch
    BY DEF RowsOK, OneOpenEpoch
<1>3. UniqueIndex
    BY DEF UniqueIndex, Granted, Running
<1>4. \A c \in Callers : TxInv(c) /\ ResultInv(c)
    BY DEF TxInv, ResultInv, Granted, Running
<1>5. QED
    BY <1>1, <1>2, <1>3, <1>4 DEF IInv

(* Two transactions past their SELECT ... FOR UPDATE are the same one: the *)
(* table has one open epoch and its row lock has one holder.               *)
LEMMA OneHolder ==
    ASSUME TypeOK, OneOpenEpoch, NEW c, NEW d, NEW m, NEW n, Holds(c, m), Holds(d, n)
    PROVE  m = n /\ c = d
BY DEF TypeOK, OneOpenEpoch, Holds, EpochNumbers, Absent

(* The open epoch of the table is the one CurrentEpoch reads.              *)
LEMMA OpenIsCurrent ==
    ASSUME TypeOK, OneOpenEpoch, NEW m \in EpochNumbers, epochs[m].state = "open"
    PROVE  CurrentEpoch(epochs) = m /\ OpenEpochs(epochs) = {m}
<1>1. OpenEpochs(epochs) = {m}
  <2>1. ASSUME NEW n \in EpochNumbers, epochs[n].state = "open" PROVE n = m
      BY <2>1 DEF TypeOK, OneOpenEpoch, EpochNumbers, Absent
  <2>2. QED
      BY <2>1 DEF OpenEpochs
<1>2. \A n \in {m} : n <= m
    BY DEF EpochNumbers
<1>3. QED
    BY <1>1, <1>2 DEF CurrentEpoch

(* An open epoch means that the table has been bootstrapped.               *)
LEMMA OpenMeansBooted ==
    ASSUME TypeOK, OneOpenEpoch, NEW m \in EpochNumbers, epochs[m].state = "open"
    PROVE  epochs[1] # Absent
<1>1. 1 \in EpochNumbers
    BY DEF EpochNumbers
<1>2. CASE m = 1
    BY <1>2 DEF Absent
<1>3. CASE m > 1
    BY <1>1, <1>3 DEF OneOpenEpoch, Absent
<1>4. QED
    BY <1>2, <1>3 DEF EpochNumbers

(* The rows the statements write are rows.                                 *)
LEMMA RowTypes ==
    /\ \A r \in Row : [r EXCEPT !.state = "closed"] \in Row
    /\ \A r \in Row, e \in Nat : Bumped(r, e) \in Row
    /\ \A m \in Nat : OpenRow(m) \in Row
    /\ \A m \in Nat : Ceiling(m) \in Nat
<1>1. \A r \in Row : [r EXCEPT !.state = "closed"] \in Row
    BY DEF Row
<1>2. ASSUME NEW r \in Row, NEW e \in Nat PROVE Bumped(r, e) \in Row
  <2>1. r.next + 1 \in Nat /\ Later(r.lastExp, e) \in Nat
      BY DEF Row, Later
  <2>2. QED
      BY <2>1 DEF Row, Bumped
<1>3. \A m \in Nat : OpenRow(m) \in Row
    BY DEF Row, OpenRow
<1>4. \A m \in Nat : Ceiling(m) \in Nat
    BY DEF Ceiling
<1>5. QED
    BY <1>1, <1>2, <1>3, <1>4

(* A step of another caller that leaves the table and d's locks alone      *)
(* leaves d's transaction as it was.                                       *)
LEMMA OtherTx ==
    ASSUME NEW d \in Callers, TxInv(d), epochs' = epochs,
           pc'[d] = pc[d], op'[d] = op[d], arg'[d] = arg[d], num'[d] = num[d],
           cand'[d] = cand[d], row'[d] = row[d], writes'[d] = writes[d],
           \A n \in EpochNumbers : lock[n] = d => lock'[n] = d
    PROVE  TxInv(d)'
BY DEF TxInv, Scanned, Holds, Rolled, Closing

(* A step that leaves the table and the answers alone keeps what is known  *)
(* of both.                                                                *)
LEMMA QuietStep ==
    ASSUME IInv, epochs' = epochs, result' = result,
           NEW c \in Callers, pc[c] # "done",
           \A d \in Callers \ {c} : pc'[d] = pc[d] /\ arg'[d] = arg[d]
    PROVE  /\ RowsOK' /\ OneOpenEpoch' /\ UniqueIndex'
           /\ \A d \in Callers : ResultInv(d)'
<1>1. RowsOK' /\ OneOpenEpoch' /\ UniqueIndex'
    BY DEF IInv, RowsOK, OneOpenEpoch, UniqueIndex, Granted
<1>2. ASSUME NEW d \in Callers PROVE ResultInv(d)'
  <2>1. CASE d = c
    <3>1. result[c] = Running
        BY DEF IInv, ResultInv
    <3>2. QED
        BY <2>1, <3>1 DEF ResultInv, Granted, Running
  <2>2. CASE d # c
      BY <2>2 DEF IInv, ResultInv, Granted
  <2>3. QED
      BY <2>1, <2>2
<1>3. QED
    BY <1>1, <1>2
-----------------------------------------------------------------------------
(* Statements that only move the caller's own transaction forward.         *)

(* Counting the open epochs only decides whether the caller inserts epoch  *)
(* 1 or goes on: NewIssuerStore keeps the invariant.                       *)
LEMMA OpenStoreInv ==
    ASSUME IInv, NEW c \in Callers, OpenStore(c) PROVE IInv'
<1> USE DEF OpenStore, txvars
<1>1. TypeOK'
    BY DEF IInv, TypeOK
<1>2. TxInv(c)'
  <2>1. OpenEpochs(epochs) # {} => epochs[1] # Absent
      BY OpenMeansBooted DEF IInv, OpenEpochs
  <2>2. pc'[c] \in {"select", "boot"} /\ (pc'[c] = "select" => epochs[1] # Absent)
      BY <2>1 DEF IInv, TypeOK
  <2>3. op[c] = "open" /\ num[c] = 0 /\ writes[c] = NoWrites
      BY DEF IInv, TxInv
  <2>4. QED
      BY <2>2, <2>3 DEF TxInv
<1>3. ASSUME NEW d \in Callers \ {c} PROVE TxInv(d)'
    BY OtherTx DEF IInv, TypeOK
<1>4. QED
    BY <1>1, <1>2, <1>3, QuietStep DEF IInv, TypeOK

(* The snapshot of SELECT ... FOR UPDATE holds at most one open epoch, so  *)
(* it keeps the invariant.                                                 *)
LEMMA SelectInv ==
    ASSUME IInv, NEW c \in Callers, Select(c) PROVE IInv'
<1> USE DEF Select
<1>1. TypeOK'
    BY DEF IInv, TypeOK, OpenEpochs
<1>2. TxInv(c)'
  <2>1. \A m, n \in OpenEpochs(epochs) : m = n
      BY OpenIsCurrent DEF IInv, OpenEpochs
  <2>2. QED
      BY <2>1 DEF IInv, TypeOK, TxInv
<1>3. ASSUME NEW d \in Callers \ {c} PROVE TxInv(d)'
    BY OtherTx DEF IInv, TypeOK
<1>4. QED
    BY <1>1, <1>2, <1>3, QuietStep DEF IInv, TypeOK

(* Taking the row lock gives the caller the current version of the one     *)
(* open epoch, or drops a row that was closed while it waited.             *)
LEMMA LockRowInv ==
    ASSUME IInv, NEW c \in Callers, LockRow(c) PROVE IInv'
<1>1. PICK n \in EpochNumbers : n = Candidate(c) /\ lock[n] = NoCaller
  <2>1. PICK n \in cand[c] : \A m \in cand[c] : m = n
    <3>1. \A m, n \in cand[c] : m = n
        BY DEF IInv, TxInv, LockRow, LockFree
    <3>2. QED
        BY <3>1 DEF LockRow, LockFree
  <2>2. n \in EpochNumbers /\ \A m \in cand[c] : m <= n
      BY <2>1 DEF IInv, TypeOK, EpochNumbers
  <2>3. QED
      BY <2>1, <2>2 DEF LockRow, LockFree, Candidate
<1> DEFINE Locked == /\ epochs[n].state = "open"
                     /\ num' = [num EXCEPT ![c] = n]
                     /\ row' = [row EXCEPT ![c] = epochs[n]]
                     /\ pc' = [pc EXCEPT ![c] =
                                 IF op[c] = "rotate" \/ Exhausted(epochs[n])
                                 THEN "close" ELSE "bump"]
                     /\ UNCHANGED cand
           Dropped == /\ cand' = [cand EXCEPT ![c] = @ \ {n}]
                      /\ UNCHANGED <<num, row, pc>>
<1>2. /\ pc[c] = "lock" /\ op[c] # "open"
      /\ lock' = [lock EXCEPT ![n] = c]
      /\ UNCHANGED <<epochs, result, op, arg, writes>>
      /\ Locked \/ Dropped
    BY <1>1 DEF LockRow, LockFree, IInv, TxInv
<1>3. TypeOK'
  <2>1. n \in 0..EpochBound /\ epochs[n] \in Row
      BY <1>1 DEF IInv, TypeOK, Table, EpochNumbers
  <2>2. /\ num' \in [Callers -> 0..EpochBound]
        /\ row' \in [Callers -> Row]
        /\ cand' \in [Callers -> SUBSET EpochNumbers]
    <3>1. CASE Locked
        BY <2>1, <3>1 DEF IInv, TypeOK
    <3>2. CASE Dropped
        BY <3>2 DEF IInv, TypeOK
    <3>3. QED
        BY <1>2, <3>1, <3>2
  <2>3. /\ pc' \in [Callers -> {"start", "boot", "select", "lock", "close",
                                "insert", "bump", "commit", "done"}]
        /\ lock' \in [EpochNumbers -> Callers \cup {NoCaller}]
      BY <1>1, <1>2 DEF IInv, TypeOK
  <2>4. QED
      BY <1>2, <2>2, <2>3 DEF IInv, TypeOK
<1>4. TxInv(c)'
  <2>1. CASE Dropped
    <3>1. pc'[c] = "lock" /\ \A m, k \in cand'[c] : m = k
        BY <1>2, <2>1 DEF IInv, TypeOK, TxInv
    <3>2. QED
        BY <1>2, <2>1, <3>1 DEF IInv, TxInv
  <2>2. CASE Locked
    <3>1. Scanned(c)' /\ writes'[c] = NoWrites
        BY <1>1, <1>2, <2>2 DEF IInv, TypeOK, TxInv, Scanned, Holds
    <3>2. /\ pc'[c] \in {"close", "bump"}
          /\ op[c] = "alloc" /\ pc'[c] = "close" => Exhausted(row'[c])
          /\ pc'[c] = "bump" => op[c] = "alloc" /\ ~Exhausted(row'[c])
        BY <1>2, <2>2 DEF IInv, TypeOK
    <3>3. QED
        BY <1>2, <3>1, <3>2 DEF IInv, TxInv, Exhausted
  <2>3. QED
      BY <1>2, <2>1, <2>2
<1>5. ASSUME NEW d \in Callers \ {c} PROVE TxInv(d)'
    BY <1>1, <1>2, OtherTx DEF IInv, TypeOK
<1>6. QED
    BY <1>2, <1>3, <1>4, <1>5, QuietStep DEF IInv, TypeOK

(* UPDATE ... SET closed_at is written to the caller's transaction only.   *)
LEMMA CloseEpochInv ==
    ASSUME IInv, NEW c \in Callers, CloseEpoch(c) PROVE IInv'
<1>1. /\ Scanned(c) /\ writes[c] = NoWrites /\ op[c] # "open"
      /\ op[c] = "alloc" => Exhausted(row[c])
    BY DEF CloseEpoch, IInv, TxInv
<1>2. num[c] \in EpochNumbers
    BY <1>1 DEF Scanned, Holds
<1>3. TypeOK'
    BY <1>2, RowTypes DEF CloseEpoch, IInv, TypeOK, Table
<1>4. TxInv(c)'
  <2>1. writes'[c] = Closing(num[c])
      BY <1>1, <1>2 DEF CloseEpoch, IInv, TypeOK, Closing, Scanned
  <2>2. Scanned(c)' /\ (writes[c] = Closing(num[c]))'
      BY <1>1, <1>2, <2>1 DEF CloseEpoch, Scanned, Holds, Closing
  <2>3. pc'[c] = "insert" /\ num[c] # 0
      BY <1>2 DEF CloseEpoch, IInv, TypeOK, EpochNumbers
  <2>4. QED
      BY <1>1, <2>2, <2>3 DEF CloseEpoch, IInv, TxInv, Exhausted
<1>5. ASSUME NEW d \in Callers \ {c} PROVE TxInv(d)'
    BY OtherTx DEF CloseEpoch, IInv, TypeOK
<1>6. QED
    BY <1>3, <1>4, <1>5, QuietStep DEF CloseEpoch, IInv, TypeOK

(* UPDATE ... SET next_idx is written to the caller's transaction only.    *)
LEMMA BumpIndexInv ==
    ASSUME IInv, NEW c \in Callers, BumpIndex(c) PROVE IInv'
<1>1. op[c] = "alloc" /\ pc[c] = "bump"
    BY DEF BumpIndex, IInv, TxInv
<1>2. num[c] \in EpochNumbers
    BY DEF BumpIndex, IInv, TxInv, Scanned, Holds, Rolled
<1>3. TypeOK'
  <2>1. Bumped(row[c], arg[c]) \in Row
      BY RowTypes DEF IInv, TypeOK
  <2>2. QED
      BY <1>2, <2>1 DEF BumpIndex, IInv, TypeOK, Table
<1>4. TxInv(c)'
  <2>1. writes'[c] = [writes[c] EXCEPT ![num[c]] = Bumped(row[c], arg[c])]
      BY DEF BumpIndex, IInv, TypeOK
  <2>2. TxInv(c) /\ pc[c] = "bump" /\ pc'[c] = "commit" /\ UNCHANGED <<epochs, op, arg>>
      BY DEF BumpIndex, IInv, TypeOK
  <2>3. CASE Scanned(c) /\ ~Exhausted(row[c]) /\ writes[c] = NoWrites
    <3>1. /\ Scanned(c)' /\ ~Exhausted(row'[c])
          /\ writes'[c] = [NoWrites EXCEPT ![num'[c]] = Bumped(row'[c], arg'[c])]
        BY <2>1, <2>3 DEF BumpIndex, Scanned, Holds
    <3>2. QED
        BY <1>1, <2>2, <3>1 DEF TxInv
  <2>4. CASE Rolled(c, OpenRow(MaxIndices))
    <3>1. row[c] = OpenRow(MaxIndices)
        BY <1>1, <2>4 DEF Rolled
    <3>2. writes'[c] = [Closing(num[c] - 1) EXCEPT
                            ![num[c]] = Bumped(OpenRow(MaxIndices), arg[c])]
        BY <1>2, <2>1, <2>4, <3>1 DEF Rolled, Closing, NoWrites
    <3>3. Rolled(c, Bumped(OpenRow(MaxIndices), arg[c]))'
        BY <2>4, <3>2 DEF BumpIndex, Rolled, Holds, Closing
    <3>4. QED
        BY <1>1, <2>2, <3>3 DEF TxInv
  <2>5. QED
      BY <1>1, <2>2, <2>3, <2>4 DEF TxInv
<1>5. ASSUME NEW d \in Callers \ {c} PROVE TxInv(d)'
    BY OtherTx DEF BumpIndex, IInv, TypeOK
<1>6. QED
    BY <1>3, <1>4, <1>5, QuietStep DEF BumpIndex, IInv, TypeOK

(* A rollback gives back the locks and tells the caller it failed.         *)
LEMMA RollbackInv ==
    ASSUME IInv, NEW c \in Callers, Rollback(c) PROVE IInv'
<1> USE DEF Rollback, EndTx
<1>1. TypeOK'
    BY DEF IInv, TypeOK, Failed, NoWrites, Table, Row, Absent
<1>2. TxInv(c)'
    BY DEF IInv, TypeOK, TxInv
<1>3. ASSUME NEW d \in Callers \ {c} PROVE TxInv(d)'
  <2>1. \A n \in EpochNumbers : lock[n] = d => lock'[n] = d
      OBVIOUS
  <2>2. QED
      BY <2>1, OtherTx DEF IInv, TypeOK
<1>4. RowsOK' /\ OneOpenEpoch'
    BY DEF IInv, RowsOK, OneOpenEpoch
<1>5. \A d \in Callers : ResultInv(d)'
    BY DEF IInv, TypeOK, ResultInv, Granted, Failed
<1>6. UniqueIndex'
    BY DEF IInv, TypeOK, UniqueIndex, Granted, Failed
<1>7. QED
    BY <1>1, <1>2, <1>3, <1>4, <1>5, <1>6 DEF IInv

(* A SELECT that finds no open epoch ends AllocateIndex, and sends         *)
(* RotateEpoch to insert epoch 1, which the primary key will refuse.       *)
LEMMA NoRowsInv ==
    ASSUME IInv, NEW c \in Callers, NoRows(c) PROVE IInv'
<1>1. CASE op[c] = "alloc"
    BY <1>1, RollbackInv DEF NoRows
<1>2. CASE op[c] # "alloc"
  <2>1. op[c] = "rotate" /\ pc[c] = "lock" /\ pc' = [pc EXCEPT ![c] = "insert"]
        /\ UNCHANGED <<epochs, result, txvars>>
      BY <1>2 DEF NoRows
  <2>2. TypeOK'
      BY <2>1 DEF IInv, TypeOK, txvars
  <2>3. TxInv(c)'
      BY <2>1 DEF IInv, TypeOK, TxInv, txvars
  <2>4. ASSUME NEW d \in Callers \ {c} PROVE TxInv(d)'
      BY <2>1, OtherTx DEF IInv, TypeOK, txvars
  <2>5. QED
      BY <2>1, <2>2, <2>3, <2>4, QuietStep DEF IInv, TypeOK, txvars
<1>3. QED
    BY <1>1, <1>2

(* The INSERT of the next number is written to the caller's transaction,   *)
(* or is refused and rolls it back.                                        *)
LEMMA InsertEpochInv ==
    ASSUME IInv, NEW c \in Callers, InsertEpoch(c) PROVE IInv'
<1> DEFINE n == num[c] + 1
           new == OpenRow(IF op[c] = "rotate" THEN Ceiling(arg[c]) ELSE MaxIndices)
<1>1. CASE epochs[n] # Absent
    BY <1>1, RollbackInv DEF InsertEpoch
<1>2. CASE epochs[n] = Absent
  <2>1. /\ pc[c] = "insert" /\ n \in EpochNumbers
        /\ writes' = [writes EXCEPT ![c][n] = new]
        /\ num' = [num EXCEPT ![c] = n]
        /\ row' = [row EXCEPT ![c] = new]
        /\ pc' = [pc EXCEPT ![c] = IF op[c] = "rotate" THEN "commit" ELSE "bump"]
        /\ UNCHANGED <<epochs, result, op, arg, cand, lock>>
      BY <1>2 DEF InsertEpoch
  <2>2. num[c] # 0
    <3>1. epochs[1] # Absent
        BY <2>1 DEF IInv, TxInv
    <3>2. num[c] = 0 => n = 1
        OBVIOUS
    <3>3. QED
        BY <1>2, <3>1, <3>2
  <2>3. /\ Scanned(c) /\ writes[c] = Closing(num[c]) /\ op[c] # "open"
        /\ op[c] = "alloc" => Exhausted(row[c])
      BY <2>1, <2>2 DEF IInv, TxInv
  <2>4. TypeOK'
    <3>1. new \in Row /\ n \in 0..EpochBound
        BY <2>1, RowTypes DEF IInv, TypeOK, EpochNumbers
    <3>2. QED
        BY <2>1, <3>1 DEF IInv, TypeOK, Table
  <2>5. Rolled(c, new)'
    <3>1. writes'[c] = [Closing(num[c]) EXCEPT ![n] = new]
        BY <2>1, <2>3 DEF IInv, TypeOK
    <3>2. num'[c] = n /\ n - 1 = num[c] /\ row'[c] = new
        BY <2>1 DEF IInv, TypeOK
    <3>3. QED
        BY <1>2, <2>1, <2>3, <3>1, <3>2 DEF Rolled, Scanned, Holds, Closing
  <2>6. TxInv(c)'
    <3>1. /\ TxInv(c) /\ UNCHANGED <<epochs, op, arg>>
          /\ pc'[c] = IF op[c] = "rotate" THEN "commit" ELSE "bump"
        BY <2>1 DEF IInv, TypeOK
    <3>2. CASE op[c] = "rotate"
        BY <2>1, <2>5, <3>1, <3>2 DEF TxInv
    <3>3. CASE op[c] = "alloc"
        BY <2>1, <2>5, <3>1, <3>3 DEF TxInv
    <3>4. QED
        BY <2>3, <3>2, <3>3 DEF IInv, TypeOK
  <2>7. ASSUME NEW d \in Callers \ {c} PROVE TxInv(d)'
      BY <2>1, OtherTx DEF IInv, TypeOK
  <2>8. QED
      BY <2>1, <2>4, <2>6, <2>7, QuietStep DEF IInv, TypeOK
<1>3. QED
    BY <1>1, <1>2
-----------------------------------------------------------------------------
(* Steps that change the committed table: the bootstrap and COMMIT.        *)

(* The bootstrap INSERT creates epoch 1 in an empty table, or is refused.  *)
LEMMA BootInsertInv ==
    ASSUME IInv, NEW c \in Callers, BootInsert(c) PROVE IInv'
<1>1. CASE epochs[1] # Absent
    BY <1>1, RollbackInv DEF BootInsert
<1>2. CASE epochs[1] = Absent
  <2>1. /\ pc[c] = "boot" /\ epochs' = [epochs EXCEPT ![1] = OpenRow(MaxIndices)]
        /\ pc' = [pc EXCEPT ![c] = "select"] /\ UNCHANGED <<result, txvars>>
      BY <1>2 DEF BootInsert
  <2>2. 1 \in EpochNumbers /\ \A n \in EpochNumbers : epochs[n] = Absent
    <3>1. 1 \in EpochNumbers
        BY DEF EpochNumbers
    <3>2. \A n \in EpochNumbers : n = 1 \/ n > 1
        BY DEF EpochNumbers
    <3>3. QED
        BY <1>2, <3>1, <3>2 DEF IInv, OneOpenEpoch
  <2>3. TypeOK'
      BY <2>1, <2>2, RowTypes DEF IInv, TypeOK, Table, txvars
  <2>4. \A n \in EpochNumbers : epochs'[n] = IF n = 1 THEN OpenRow(MaxIndices) ELSE Absent
      BY <2>1, <2>2 DEF IInv, TypeOK, Table
  <2>5. RowsOK' /\ OneOpenEpoch'
      BY <2>4 DEF RowsOK, OneOpenEpoch, OpenRow, Absent, EpochNumbers
  <2>6. \A d \in Callers : ~Granted(d)
    <3>1. ASSUME NEW d \in Callers, Granted(d) PROVE FALSE
      <4>1. /\ result[d].epoch \in EpochNumbers
            /\ result[d].idx < epochs[result[d].epoch].next
          BY <3>1 DEF IInv, ResultInv
      <4>2. result[d].idx \in Nat
          BY DEF IInv, TypeOK
      <4>3. QED
          BY <2>2, <4>1, <4>2 DEF Absent
    <3>2. QED
        BY <3>1
  <2>7. UniqueIndex' /\ \A d \in Callers : ResultInv(d)'
    <3>1. \A d \in Callers : ~Granted(d)'
        BY <2>1, <2>6 DEF Granted
    <3>2. \A d \in Callers : pc'[d] # "done" => pc[d] # "done"
        BY <2>1 DEF IInv, TypeOK
    <3>3. QED
        BY <2>1, <3>1, <3>2 DEF IInv, UniqueIndex, ResultInv
  <2>8. TxInv(c)'
    <3>1. pc'[c] = "select" /\ epochs'[1] # Absent
        BY <2>1, <2>2, <2>4 DEF IInv, TypeOK, OpenRow, Absent
    <3>2. op[c] = "open" /\ num[c] = 0 /\ writes[c] = NoWrites
        BY <2>1 DEF IInv, TxInv
    <3>3. QED
        BY <2>1, <3>1, <3>2 DEF TxInv, txvars
  <2>9. ASSUME NEW d \in Callers \ {c} PROVE TxInv(d)'
    <3>1. pc[d] \in {"start", "boot", "done"}
        BY <1>2 DEF IInv, TypeOK, TxInv
    <3>2. QED
        BY <2>1, <3>1 DEF IInv, TypeOK, TxInv, txvars
  <2>10. QED
      BY <2>3, <2>5, <2>7, <2>8, <2>9 DEF IInv
<1>3. QED
    BY <1>1, <1>2

\* COMMIT of an index taken from epoch m.
Taking(c, m) ==
    /\ op[c] = "alloc" /\ num[c] = m /\ row[c] = epochs[m]
    /\ ~Exhausted(epochs[m])
    /\ epochs' = [epochs EXCEPT ![m] = Bumped(epochs[m], arg[c])]

\* COMMIT of the roll from epoch m to m + 1, whose row becomes new.
Rolling(c, m, new) ==
    /\ num[c] = m + 1 /\ m + 1 \in EpochNumbers
    /\ epochs[m + 1] = Absent
    /\ epochs' = [epochs EXCEPT ![m] = [epochs[m] EXCEPT !.state = "closed"],
                                ![m + 1] = new]
    /\ \/ /\ op[c] = "rotate"
          /\ new = OpenRow(Ceiling(arg[c]))
       \/ /\ op[c] = "alloc" /\ Exhausted(epochs[m])
          /\ row[c] = OpenRow(MaxIndices)
          /\ new = Bumped(OpenRow(MaxIndices), arg[c])

(* A COMMIT is one atomic operation on the one open epoch.                 *)
LEMMA CommitShape ==
    ASSUME IInv, NEW c \in Callers, Commit(c)
    PROVE  \E m \in EpochNumbers : /\ Holds(c, m)
                                   /\ Taking(c, m) \/ \E new \in Row : Rolling(c, m, new)
<1>1. epochs' = [n \in EpochNumbers |->
                    IF writes[c][n] = Absent THEN epochs[n] ELSE writes[c][n]]
    BY DEF Commit
<1>2. epochs \in Table
    BY DEF IInv, TypeOK
<1>3. CASE /\ op[c] = "alloc" /\ Scanned(c) /\ ~Exhausted(row[c])
           /\ writes[c] = [NoWrites EXCEPT ![num[c]] = Bumped(row[c], arg[c])]
  <2>1. Bumped(row[c], arg[c]) # Absent /\ num[c] \in EpochNumbers
      BY <1>3 DEF Scanned, Holds, Bumped, Absent, IInv, TypeOK, Row
  <2>2. epochs' = [epochs EXCEPT ![num[c]] = Bumped(row[c], arg[c])]
      BY <1>1, <1>2, <1>3, <2>1 DEF NoWrites, Table
  <2>3. QED
      BY <1>3, <2>1, <2>2 DEF Taking, Scanned
<1>4. ASSUME NEW new \in Row, new.state = "open", Rolled(c, new),
             \/ op[c] = "rotate" /\ new = OpenRow(Ceiling(arg[c]))
             \/ op[c] = "alloc" /\ new = Bumped(OpenRow(MaxIndices), arg[c])
      PROVE  \E m \in EpochNumbers : Holds(c, m) /\ Rolling(c, m, new)
  <2> DEFINE m == num[c] - 1
  <2>1. /\ m \in EpochNumbers /\ m + 1 = num[c] /\ m # num[c]
        /\ m + 1 \in EpochNumbers /\ Holds(c, m)
      BY <1>4 DEF Rolled, EpochNumbers
  <2>2. [epochs[m] EXCEPT !.state = "closed"] # Absent /\ new # Absent
      BY <1>2, <1>4, <2>1 DEF Absent, Table, Row
  <2>3. writes[c] = [Closing(m) EXCEPT ![m + 1] = new]
      BY <1>4, <2>1 DEF Rolled
  <2>4. \A n \in EpochNumbers :
            writes[c][n] = IF n = m + 1 THEN new
                           ELSE IF n = m THEN [epochs[m] EXCEPT !.state = "closed"]
                           ELSE Absent
      BY <2>1, <2>3 DEF Closing, NoWrites
  <2>5. epochs' = [epochs EXCEPT ![m] = [epochs[m] EXCEPT !.state = "closed"],
                                 ![m + 1] = new]
      BY <1>1, <1>2, <2>1, <2>2, <2>4 DEF Table
  <2>6. Rolling(c, m, new)
      BY <1>4, <2>1, <2>5 DEF Rolling, Rolled
  <2>7. QED
      BY <2>1, <2>6
<1>5. CASE op[c] = "alloc" /\ Rolled(c, Bumped(OpenRow(MaxIndices), arg[c]))
  <2>1. Bumped(OpenRow(MaxIndices), arg[c]) \in Row
      BY RowTypes DEF IInv, TypeOK
  <2>2. Bumped(OpenRow(MaxIndices), arg[c]).state = "open"
      BY DEF Bumped, OpenRow
  <2>3. QED
      BY <1>4, <1>5, <2>1, <2>2
<1>6. CASE op[c] = "rotate" /\ Rolled(c, OpenRow(Ceiling(arg[c])))
  <2>1. OpenRow(Ceiling(arg[c])) \in Row
      BY RowTypes DEF IInv, TypeOK
  <2>2. OpenRow(Ceiling(arg[c])).state = "open"
      BY DEF OpenRow
  <2>3. QED
      BY <1>4, <1>6, <2>1, <2>2
<1>7. QED
    BY <1>3, <1>5, <1>6 DEF IInv, TxInv, Commit

(* After a COMMIT of c no other caller is past its SELECT, so no other     *)
(* transaction depends on the rows that changed.                           *)
LEMMA CommitOthers ==
    ASSUME IInv, NEW c \in Callers, Commit(c), NEW d \in Callers \ {c},
           \E m \in EpochNumbers : Holds(c, m), epochs'[1] # Absent
    PROVE  TxInv(d)'
<1>1. \A m \in EpochNumbers : ~Holds(d, m)
    BY OneHolder DEF IInv
<1>2. ~Scanned(d) /\ \A new : ~Rolled(d, new)
    BY <1>1 DEF Scanned, Rolled, Holds
<1>3. pc[d] \in {"start", "boot", "select", "lock", "done"} \/ (pc[d] = "insert" /\ num[d] = 0)
    BY <1>2 DEF IInv, TypeOK, TxInv
<1>4. /\ pc'[d] = pc[d] /\ op'[d] = op[d] /\ arg'[d] = arg[d]
      /\ num'[d] = num[d] /\ writes'[d] = writes[d] /\ cand'[d] = cand[d]
    BY DEF Commit, EndTx, IInv, TypeOK
<1>5. CASE pc[d] \in {"start", "boot", "select", "lock", "done"}
  <2>1. TxInv(d)
      BY DEF IInv
  <2>2. CASE pc[d] = "done"
      BY <1>4, <2>1, <2>2 DEF TxInv
  <2>3. CASE pc[d] \in {"start", "boot"}
      BY <1>4, <2>1, <2>3 DEF TxInv
  <2>4. CASE pc[d] \in {"select", "lock"}
      BY <1>4, <2>1, <2>4 DEF TxInv
  <2>5. QED
      BY <1>5, <2>2, <2>3, <2>4
<1>6. CASE pc[d] = "insert" /\ num[d] = 0
    BY <1>4, <1>6 DEF IInv, TxInv
<1>7. QED
    BY <1>3, <1>5, <1>6

(* Granted indices stay on record when the table only grows.               *)
LEMMA GrantsKept ==
    ASSUME IInv, NEW c \in Callers, Commit(c), NEW d \in Callers, d # c,
           \A n \in EpochNumbers : epochs[n] # Absent =>
              epochs'[n].next >= epochs[n].next /\ epochs'[n].lastExp >= epochs[n].lastExp,
           TypeOK'
    PROVE  ResultInv(d)'
<1>1. pc'[d] = pc[d] /\ arg'[d] = arg[d] /\ result'[d] = result[d]
    BY DEF Commit, EndTx, IInv, TypeOK
<1>2. ASSUME Granted(d)
      PROVE  /\ result[d].idx < epochs'[result[d].epoch].next
             /\ arg[d] <= epochs'[result[d].epoch].lastExp
             /\ result[d].epoch \in EpochNumbers
  <2> DEFINE e == result[d].epoch
  <2>1. e \in EpochNumbers /\ result[d].idx < epochs[e].next /\ arg[d] <= epochs[e].lastExp
      BY <1>2 DEF IInv, ResultInv
  <2>2. result[d].idx \in Nat /\ arg[d] \in Nat /\ epochs[e] \in Row /\ epochs'[e] \in Row
      BY <2>1 DEF IInv, TypeOK, Table
  <2>3. epochs[e] # Absent
      BY <2>1, <2>2 DEF Absent
  <2>4. QED
      BY <2>1, <2>2, <2>3 DEF Row
<1>3. QED
    BY <1>1, <1>2 DEF IInv, ResultInv, Granted

(* COMMIT keeps the invariant: the table still has one open epoch, no      *)
(* other transaction is past its SELECT, and an index handed out is the    *)
(* next_idx that no caller was given before.                               *)
LEMMA CommitInv ==
    ASSUME IInv, NEW c \in Callers, Commit(c) PROVE IInv'
<1>1. PICK m \in EpochNumbers : /\ Holds(c, m)
                                /\ Taking(c, m) \/ \E new \in Row : Rolling(c, m, new)
    BY CommitShape
<1>2. /\ epochs \in Table /\ epochs[m] \in Row /\ epochs[m].state = "open" /\ m \in Nat
      /\ arg[c] \in Nat
    BY <1>1 DEF IInv, TypeOK, Table, Holds, EpochNumbers
<1>3. PICK r : EndTx(c, r) /\ (r = Answer(c) \/ r = Failed)
    BY DEF Commit
<1> DEFINE Grown == \A n \in EpochNumbers : epochs[n] # Absent =>
                      /\ epochs'[n].next >= epochs[n].next
                      /\ epochs'[n].lastExp >= epochs[n].lastExp
<1>4. epochs' \in Table /\ Grown /\ epochs'[1] # Absent
  <2>1. CASE Taking(c, m)
    <3>1. Bumped(epochs[m], arg[c]) \in Row
        BY <1>2, RowTypes
    <3>2. epochs' \in Table
        BY <1>2, <2>1, <3>1 DEF Taking, Table
    <3>3. /\ Bumped(epochs[m], arg[c]).next >= epochs[m].next
          /\ Bumped(epochs[m], arg[c]).lastExp >= epochs[m].lastExp
          /\ Bumped(epochs[m], arg[c]) # Absent
      <4>1. /\ Bumped(epochs[m], arg[c]).next = epochs[m].next + 1
            /\ Bumped(epochs[m], arg[c]).lastExp = Later(epochs[m].lastExp, arg[c])
            /\ Bumped(epochs[m], arg[c]).state = "open"
          BY <1>2 DEF Bumped, Row
      <4>2. epochs[m].next \in Nat /\ epochs[m].lastExp \in Nat
          BY <1>2 DEF Row
      <4>3. QED
          BY <1>2, <4>1, <4>2 DEF Later, Absent
    <3>4. \A n \in EpochNumbers : epochs'[n] = IF n = m THEN Bumped(epochs[m], arg[c])
                                               ELSE epochs[n]
        BY <1>2, <2>1 DEF Taking, Table
    <3>5. \A n \in EpochNumbers : epochs[n].next \in Nat /\ epochs[n].lastExp \in Nat
        BY <1>2 DEF Table, Row
    <3>6. epochs[1] # Absent /\ 1 \in EpochNumbers
        BY <1>2, OpenMeansBooted DEF IInv, EpochNumbers
    <3>7. QED
        BY <3>2, <3>3, <3>4, <3>5, <3>6
  <2>2. ASSUME NEW new \in Row, Rolling(c, m, new) 
        PROVE  epochs' \in Table /\ Grown /\ epochs'[1] # Absent
    <3>1. epochs' \in Table
        BY <1>2, <2>2, RowTypes DEF Rolling, Table
    <3>2. \A n \in EpochNumbers : epochs'[n] = IF n = m + 1 THEN new
                                  ELSE IF n = m THEN [epochs[m] EXCEPT !.state = "closed"]
                                  ELSE epochs[n]
        BY <1>2, <2>2 DEF Rolling, Table
    <3>3. \A n \in EpochNumbers : epochs[n].next \in Nat /\ epochs[n].lastExp \in Nat
        BY <1>2 DEF Table, Row
    <3>4. /\ [epochs[m] EXCEPT !.state = "closed"].next = epochs[m].next
          /\ [epochs[m] EXCEPT !.state = "closed"].lastExp = epochs[m].lastExp
          /\ [epochs[m] EXCEPT !.state = "closed"] # Absent
        BY <1>2 DEF Row, Absent
    <3>5. epochs[1] # Absent /\ 1 \in EpochNumbers /\ 1 # m + 1
        BY <1>2, OpenMeansBooted DEF IInv, EpochNumbers
    <3>6. ASSUME NEW n \in EpochNumbers, epochs[n] # Absent
          PROVE  /\ epochs'[n].next >= epochs[n].next
                 /\ epochs'[n].lastExp >= epochs[n].lastExp
      <4>1. n # m + 1
          BY <2>2, <3>6 DEF Rolling
      <4>2. epochs'[n].next = epochs[n].next /\ epochs'[n].lastExp = epochs[n].lastExp
          BY <3>2, <3>4, <4>1
      <4>3. QED
          BY <3>3, <4>2
    <3>7. epochs'[1] # Absent
        BY <3>2, <3>4, <3>5
    <3>8. QED
        BY <3>1, <3>6, <3>7
  <2>3. QED
      BY <1>1, <2>1, <2>2
<1>5. TypeOK'
  <2>1. Answer(c) \in [epoch : Nat, idx : Nat, kind : {"running", "failed", "opened", "index"}]
      BY DEF IInv, TypeOK, Answer, Opened, Index, Row
  <2>2. r \in [epoch : Nat, idx : Nat, kind : {"running", "failed", "opened", "index"}]
      BY <1>3, <2>1 DEF Failed
  <2>3. QED
      BY <1>3, <1>4, <2>2 DEF EndTx, IInv, TypeOK, NoWrites, Table, Row, Absent
<1>6. RowsOK' /\ OneOpenEpoch'
  <2>1. CASE Taking(c, m)
    <3>1. \A n \in EpochNumbers : epochs'[n] = IF n = m THEN Bumped(epochs[m], arg[c])
                                               ELSE epochs[n]
        BY <1>2, <2>1 DEF Taking, Table
    <3>2. /\ Bumped(epochs[m], arg[c]).state = "open"
          /\ Bumped(epochs[m], arg[c]).next = epochs[m].next + 1
          /\ Bumped(epochs[m], arg[c]).max = epochs[m].max
          /\ epochs[m].next < epochs[m].max
          /\ epochs[m].next \in Nat /\ epochs[m].max \in Nat
        BY <1>2, <2>1 DEF Taking, Bumped, Row, Exhausted
    <3>3. RowsOK'
        BY <3>1, <3>2 DEF IInv, RowsOK, Absent
    <3>4. epochs[m] # Absent /\ Bumped(epochs[m], arg[c]) # Absent
        BY <1>2, <3>2 DEF Absent
    <3>5. OneOpenEpoch'
        BY <1>2, <3>1, <3>2, <3>4 DEF IInv, OneOpenEpoch
    <3>6. QED
        BY <3>3, <3>5
  <2>2. ASSUME NEW new \in Row, Rolling(c, m, new) PROVE RowsOK' /\ OneOpenEpoch'
    <3> DEFINE old == [epochs[m] EXCEPT !.state = "closed"]
    <3>1. \A n \in EpochNumbers : epochs'[n] = IF n = m + 1 THEN new
                                  ELSE IF n = m THEN old ELSE epochs[n]
        BY <1>2, <2>2 DEF Rolling, Table
    <3>2. /\ old.state = "closed" /\ old.next = epochs[m].next /\ old.max = epochs[m].max
          /\ old # Absent
        BY <1>2 DEF Row, Absent
    <3>3. new.state = "open" /\ new.next <= new.max /\ new # Absent
      <4>1. CASE new = OpenRow(Ceiling(arg[c]))
          BY <1>2, <4>1, RowTypes DEF OpenRow, Absent
      <4>2. CASE new = Bumped(OpenRow(MaxIndices), arg[c])
        <5>1. new.state = "open" /\ new.next = 1 /\ new.max = MaxIndices
            BY <4>2 DEF OpenRow, Bumped
        <5>2. QED
            BY <5>1, EpochAssumption DEF Absent
      <4>3. QED
          BY <2>2, <4>1, <4>2 DEF Rolling
    <3>4. RowsOK'
      <4>1. RowsOK
          BY DEF IInv
      <4>2. m \in EpochNumbers
          BY <1>2
      <4>3. ASSUME NEW n \in EpochNumbers
            PROVE  /\ epochs'[n].state = "absent" <=> epochs'[n] = Absent
                   /\ epochs'[n].next <= epochs'[n].max
        <5>1. CASE n = m + 1
            BY <3>1, <3>3, <5>1 DEF Absent
        <5>2. CASE n # m + 1 /\ n = m
            BY <3>1, <3>2, <4>1, <4>2, <5>2 DEF RowsOK, Absent
        <5>3. CASE n # m + 1 /\ n # m
            BY <3>1, <4>1, <5>3 DEF RowsOK
        <5>4. QED
            BY <5>1, <5>2, <5>3
      <4>4. QED
          BY <4>3 DEF RowsOK, Absent
    <3>5. \A n \in EpochNumbers : n > m => epochs[n] = Absent
        BY <1>2 DEF IInv, OneOpenEpoch
    <3>6. \A n \in EpochNumbers : n < m => epochs[n].state # "open" /\ epochs[n] # Absent
        BY <1>2 DEF IInv, OneOpenEpoch, Absent, EpochNumbers
    <3>7. m + 1 \in EpochNumbers
        BY <2>2 DEF Rolling
    <3>8. ASSUME NEW n \in EpochNumbers
          PROVE  /\ epochs'[n].state = "open" => n = m + 1
                 /\ epochs'[n] = Absent => n > m + 1
                 /\ n > m + 1 => epochs'[n] = Absent
                 /\ n <= m + 1 => epochs'[n] # Absent
      <4>1. CASE n > m + 1
        <5>1. epochs'[n] = Absent
            BY <1>2, <3>1, <3>5, <4>1 DEF EpochNumbers
        <5>2. QED
            BY <1>2, <4>1, <5>1 DEF Absent, EpochNumbers
      <4>2. CASE n = m + 1
          BY <1>2, <3>1, <3>3, <4>2
      <4>3. CASE n = m
        <5>1. epochs'[n] = old
            BY <1>2, <3>1, <4>3
        <5>2. QED
            BY <1>2, <3>2, <4>3, <5>1
      <4>4. CASE n < m
        <5>1. epochs'[n] = epochs[n]
            BY <1>2, <3>1, <4>4 DEF EpochNumbers
        <5>2. QED
            BY <1>2, <3>6, <4>4, <5>1 DEF EpochNumbers
      <4>5. QED
          BY <1>2, <4>1, <4>2, <4>3, <4>4 DEF EpochNumbers
    <3>9. OneOpenEpoch'
      <4>1. ASSUME NEW n \in EpochNumbers, epochs'[n].state = "closed"
            PROVE  n + 1 \in EpochNumbers /\ epochs'[n + 1] # Absent
        <5>1. n <= m
            BY <1>2, <3>1, <3>3, <3>8, <4>1 DEF Absent, EpochNumbers
        <5>2. n + 1 \in EpochNumbers /\ n + 1 <= m + 1
            BY <1>2, <3>7, <5>1 DEF EpochNumbers
        <5>3. QED
            BY <3>8, <5>2
      <4>2. ASSUME NEW n \in EpochNumbers, NEW k \in EpochNumbers, k > n,
                   epochs'[n].state = "open" \/ epochs'[n] = Absent
            PROVE  epochs'[k] = Absent
          BY <1>2, <3>8, <4>2 DEF EpochNumbers
      <4>3. QED
          BY <4>1, <4>2 DEF OneOpenEpoch
    <3>10. QED
        BY <3>4, <3>9
  <2>3. QED
      BY <1>1, <2>1, <2>2
<1>7. \A d \in Callers \ {c} : TxInv(d)' /\ ResultInv(d)'
    BY <1>1, <1>4, <1>5, CommitOthers, GrantsKept
<1>8. TxInv(c)'
    BY <1>3 DEF EndTx, IInv, TypeOK, TxInv
<1>9. result' = [result EXCEPT ![c] = r] /\ pc'[c] = "done" /\ arg' = arg
    BY <1>3 DEF EndTx, IInv, TypeOK
<1> DEFINE Fresh ==
              /\ r.epoch \in EpochNumbers
              /\ r.idx < epochs'[r.epoch].next
              /\ arg[c] <= epochs'[r.epoch].lastExp
              /\ \A d \in Callers \ {c} :
                    Granted(d) /\ result[d].epoch = r.epoch => result[d].idx # r.idx
<1>10. ASSUME r.kind = "index" PROVE Fresh
  <2>1. op[c] # "rotate" /\ r = Index(num[c], row[c].next)
      BY <1>3, <1>10 DEF Answer, Failed, Opened
  <2>2. r.epoch = num[c] /\ r.idx = row[c].next
      BY <2>1 DEF Index
  <2>3. ASSUME NEW d \in Callers \ {c}, Granted(d)
        PROVE  /\ result[d].epoch \in EpochNumbers /\ result[d].idx \in Nat
               /\ result[d].idx < epochs[result[d].epoch].next
      BY <2>3 DEF IInv, TypeOK, ResultInv
  <2>4. CASE Taking(c, m)
    <3>1. r.epoch = m /\ r.idx = epochs[m].next
        BY <2>2, <2>4 DEF Taking
    <3>2. epochs'[m] = Bumped(epochs[m], arg[c])
        BY <1>2, <2>4 DEF Taking, Table
    <3>3. epochs[m].next \in Nat /\ epochs[m].lastExp \in Nat
        BY <1>2 DEF Row
    <3>4. /\ epochs'[m].next = epochs[m].next + 1
          /\ epochs'[m].lastExp = Later(epochs[m].lastExp, arg[c])
        BY <1>2, <3>2 DEF Bumped, Row
    <3>5. QED
        BY <1>2, <2>3, <3>1, <3>3, <3>4 DEF Later
  <2>5. ASSUME NEW new \in Row, Rolling(c, m, new) PROVE Fresh
    <3>1. /\ r.epoch = m + 1 /\ m + 1 \in EpochNumbers /\ epochs[m + 1] = Absent
          /\ row[c] = OpenRow(MaxIndices) /\ new = Bumped(OpenRow(MaxIndices), arg[c])
        BY <2>1, <2>2, <2>5 DEF Rolling
    <3>2. r.idx = 0 /\ epochs'[m + 1] = new
        BY <1>2, <2>2, <2>5, <3>1 DEF OpenRow, Rolling, Table
    <3>3. new.next = 1 /\ new.lastExp = Later(0, arg[c])
        BY <3>1 DEF Bumped, OpenRow
    <3>4. \A d \in Callers \ {c} : Granted(d) => result[d].epoch # m + 1
        BY <2>3, <3>1 DEF Absent
    <3>5. QED
        BY <1>2, <3>1, <3>2, <3>3, <3>4 DEF Later
  <2>6. QED
      BY <1>1, <2>4, <2>5
<1>11. ResultInv(c)'
    BY <1>9, <1>10 DEF ResultInv, Granted, IInv, TypeOK
<1>12. UniqueIndex'
  <2>1. \A d \in Callers \ {c} : result'[d] = result[d]
      BY <1>9 DEF IInv, TypeOK
  <2>2. result'[c] = r
      BY <1>9 DEF IInv, TypeOK
  <2>3. QED
      BY <1>10, <2>1, <2>2 DEF UniqueIndex, IInv, Granted
<1>13. QED
    BY <1>5, <1>6, <1>7, <1>8, <1>11, <1>12 DEF IInv
-----------------------------------------------------------------------------
(* Every step keeps the invariant.                                         *)
LEMMA NextInv == IInv /\ [Next]_vars => IInv'
<1> SUFFICES ASSUME IInv, [Next]_vars PROVE IInv'
    OBVIOUS
<1>1. CASE UNCHANGED vars
    BY <1>1 DEF vars, txvars, IInv, TypeOK, RowsOK, OneOpenEpoch, UniqueIndex, Granted,
                TxInv, ResultInv, Scanned, Holds, Rolled, Closing
<1>2. ASSUME NEW c \in Callers, Step(c) PROVE IInv'
    BY <1>2, OpenStoreInv, BootInsertInv, SelectInv, LockRowInv, NoRowsInv,
       CloseEpochInv, InsertEpochInv, BumpIndexInv, CommitInv DEF Step
<1>3. ASSUME NEW c \in Callers, Abort(c) PROVE IInv'
    BY <1>3, RollbackInv DEF Abort
<1>4. QED
    BY <1>1, <1>2, <1>3 DEF Next, Finished

(* The table, the locks and the transactions keep their types under every  *)
(* interleaving of NewIssuerStore, AllocateIndex and RotateEpoch.          *)
THEOREM TypeCorrect == Spec => []TypeOK
<1>1. IInv => TypeOK
    BY DEF IInv
<1>2. QED
    BY <1>1, InitInv, NextInv, PTL DEF Spec

(* No two AllocateIndex calls return the same (epoch, idx), for any number *)
(* of callers and rotations and whichever of them fail.                    *)
THEOREM IndexesAreUnique == Spec => []UniqueIndex
<1>1. IInv => UniqueIndex
    BY DEF IInv
<1>2. QED
    BY <1>1, InitInv, NextInv, PTL DEF Spec

(* The committed table has at most one open epoch, the highest, and the    *)
(* numbers below it are all taken.                                         *)
THEOREM OneEpochIsOpen == Spec => []OneOpenEpoch
<1>1. IInv => OneOpenEpoch
    BY DEF IInv
<1>2. QED
    BY <1>1, InitInv, NextInv, PTL DEF Spec

(* What AllocateIndex handed out is counted in next_idx, lies below the    *)
(* ceiling and is covered by last_issued_expires_at.                       *)
THEOREM GrantsAreRecorded == Spec => []GrantRecorded
<1>1. IInv => GrantRecorded
    BY DEF IInv, ResultInv, RowsOK, GrantRecorded
<1>2. QED
    BY <1>1, InitInv, NextInv, PTL DEF Spec

-----------------------------------------------------------------------------
(* A COMMIT does to the table what AllocateIndex or RotateEpoch promise.   *)
LEMMA CommitRefines ==
    ASSUME IInv, NEW c \in Callers, Commit(c) PROVE Allocate(c) \/ Rotate(c)
<1>1. PICK m \in EpochNumbers : /\ Holds(c, m)
                                /\ Taking(c, m) \/ \E new \in Row : Rolling(c, m, new)
    BY CommitShape
<1>2. CurrentEpoch(epochs) = m /\ OpenEpochs(epochs) # {} /\ epochs[m].state = "open"
    BY <1>1, OpenIsCurrent DEF IInv, Holds
<1>3. PICK r : result' = [result EXCEPT ![c] = r] /\ (r = Answer(c) \/ r = Failed)
    BY DEF Commit, EndTx
<1>4. result[c] = Running
    BY DEF Commit, IInv, ResultInv
<1>5. CASE Taking(c, m)
  <2>1. /\ AllocEpoch(epochs) = m /\ AllocIdx(epochs) = epochs[m].next
        /\ CanAllocate(epochs) /\ epochs' = Allocated(epochs, arg[c])
      BY <1>2, <1>5 DEF Taking, AllocEpoch, AllocIdx, CanAllocate, Allocated
  <2>2. Answer(c) = Index(m, epochs[m].next) /\ arg[c] \in Expiries
      BY <1>5 DEF Taking, Answer, IInv, TxInv
  <2>3. QED
      BY <1>2, <1>3, <1>4, <2>1, <2>2 DEF Allocate
<1>6. ASSUME NEW new \in Row, Rolling(c, m, new) PROVE Allocate(c) \/ Rotate(c)
  <2>1. CanRotate(epochs) /\ m + 1 \in EpochNumbers /\ num[c] = m + 1
      BY <1>2, <1>6 DEF Rolling, CanRotate
  <2>2. epochs \in Table /\ m \in Nat
      BY <1>1 DEF IInv, TypeOK, EpochNumbers
  <2>3. CASE op[c] = "rotate"
    <3>1. epochs' = Rotated(epochs, arg[c])
        BY <1>2, <1>6, <2>2, <2>3 DEF Rolling, Rotated, Table
    <3>2. Answer(c) = Opened /\ arg[c] \in Ceilings
        BY <2>3 DEF Answer, IInv, TxInv
    <3>3. QED
        BY <1>2, <1>3, <1>4, <2>1, <3>1, <3>2 DEF Rotate
  <2>4. CASE op[c] = "alloc"
    <3>1. /\ Exhausted(epochs[m]) /\ row[c] = OpenRow(MaxIndices)
          /\ epochs' = [epochs EXCEPT ![m] = [epochs[m] EXCEPT !.state = "closed"],
                                      ![m + 1] = Bumped(OpenRow(MaxIndices), arg[c])]
        BY <1>6, <2>4 DEF Rolling
    <3>2. epochs' = Allocated(epochs, arg[c])
      <4>1. Rotated(epochs, 0)[m + 1] = OpenRow(Ceiling(0)) /\ Ceiling(0) = MaxIndices
          BY <1>2, <2>1, <2>2 DEF Rotated, Table, Ceiling
      <4>2. QED
          BY <1>2, <2>1, <2>2, <3>1, <4>1 DEF Allocated, Rotated, Table
    <3>3. /\ AllocEpoch(epochs) = m + 1 /\ AllocIdx(epochs) = 0 /\ CanAllocate(epochs)
          /\ Answer(c) = Index(m + 1, 0) /\ arg[c] \in Expiries
      <4>1. AllocEpoch(epochs) = m + 1 /\ AllocIdx(epochs) = 0 /\ CanAllocate(epochs)
          BY <1>2, <2>1, <3>1 DEF AllocEpoch, AllocIdx, CanAllocate, CanRotate
      <4>2. row[c].next = 0
          BY <3>1 DEF OpenRow
      <4>3. Answer(c) = Index(m + 1, 0)
          BY <2>1, <2>4, <4>2 DEF Answer
      <4>4. arg[c] \in Expiries
          BY <2>4 DEF IInv, TxInv
      <4>5. QED
          BY <4>1, <4>3, <4>4
    <3>4. QED
        BY <1>2, <1>3, <1>4, <3>2, <3>3 DEF Allocate
  <2>5. QED
      BY <1>6, <2>3, <2>4 DEF Rolling
<1>7. QED
    BY <1>1, <1>5, <1>6

(* A rollback is a failed call that left no trace.                         *)
LEMMA RollbackRefines ==
    ASSUME IInv, NEW c \in Callers, pc[c] # "done", Rollback(c) PROVE Fail(c)
BY DEF IInv, ResultInv, Rollback, EndTx, Fail

(* Every step on the tables and locks of Postgres is a step of the atomic  *)
(* allocator, or changes nothing a caller can see.                         *)
LEMMA NextRefines == IInv /\ [Next]_vars => [AbsNext]_avars
<1> SUFFICES ASSUME IInv, [Next]_vars PROVE [AbsNext]_avars
    OBVIOUS
<1> USE DEF avars
<1>1. CASE UNCHANGED vars
    BY <1>1 DEF vars
<1>2. ASSUME NEW c \in Callers, Step(c) PROVE [AbsNext]_avars
  <2>1. CASE OpenStore(c) \/ Select(c) \/ LockRow(c) \/ CloseEpoch(c) \/ BumpIndex(c)
      BY <2>1 DEF OpenStore, Select, LockRow, CloseEpoch, BumpIndex
  <2>2. CASE BootInsert(c)
      BY <2>2, RollbackRefines DEF BootInsert, AbsNext, Bootstrap
  <2>3. CASE NoRows(c)
      BY <2>3, RollbackRefines DEF NoRows, AbsNext
  <2>4. CASE InsertEpoch(c)
      BY <2>4, RollbackRefines DEF InsertEpoch, AbsNext
  <2>5. CASE Commit(c)
      BY <2>5, CommitRefines DEF AbsNext
  <2>6. QED
      BY <1>2, <2>1, <2>2, <2>3, <2>4, <2>5 DEF Step
<1>3. ASSUME NEW c \in Callers, Abort(c) PROVE [AbsNext]_avars
    BY <1>3, RollbackRefines DEF Abort, AbsNext
<1>4. QED
    BY <1>1, <1>2, <1>3 DEF Next, Finished

(* The Postgres store implements the atomic allocator of the Store         *)
(* interface: callers cannot tell the statements from one atomic step.     *)
THEOREM PgImplementsAllocator == Spec => AbsSpec
<1>1. Init => AbsInit
    BY DEF Init
<1>2. QED
    BY <1>1, InitInv, NextInv, NextRefines, PTL DEF Spec, AbsSpec

(* A closed epoch never changes again: what an abstract step may do to the *)
(* table leaves closed rows alone.                                         *)
THEOREM ClosedEpochsStayFrozen == Spec => ClosedEpochFrozen
<1> DEFINE Frozen == \A n \in EpochNumbers :
                        epochs[n].state = "closed" => epochs'[n] = epochs[n]
<1>1. IInv /\ [Next]_vars => [Frozen]_vars
  <2> SUFFICES ASSUME IInv, Next PROVE Frozen
      OBVIOUS
  <2>1. ASSUME NEW c \in Callers, Commit(c) PROVE Frozen
    <3>1. PICK m \in EpochNumbers : /\ Holds(c, m)
                                    /\ Taking(c, m) \/ \E new \in Row : Rolling(c, m, new)
        BY <2>1, CommitShape
    <3>2. epochs \in Table /\ epochs[m].state = "open"
        BY <3>1 DEF IInv, TypeOK, Holds
    <3>3. CASE Taking(c, m)
        BY <3>2, <3>3 DEF Taking, Table
    <3>4. ASSUME NEW new \in Row, Rolling(c, m, new) PROVE Frozen
        BY <3>2, <3>4 DEF Rolling, Table, Absent
    <3>5. QED
        BY <3>1, <3>3, <3>4
  <2>2. ASSUME NEW c \in Callers, BootInsert(c) PROVE Frozen
      BY <2>2 DEF BootInsert, Rollback, IInv, TypeOK, Table, Absent
  <2>3. QED
      BY <2>1, <2>2 DEF Next, Step, OpenStore, Select, LockRow, NoRows, CloseEpoch,
         InsertEpoch, BumpIndex, Abort, Rollback, Finished, vars
<1>2. QED
    BY <1>1, InitInv, NextInv, PTL DEF Spec, ClosedEpochFrozen
=============================================================================
