------------------------------ MODULE PgEpochs ------------------------------
(***************************************************************************)
(* pgstore.IssuerStore: bootstrap, RotateEpoch and AllocateIndex, one      *)
(* action per SQL statement, under Postgres READ COMMITTED.  A caller is   *)
(* one run of an operation by a request handler or an admin process that   *)
(* has opened the store; its transaction keeps its writes to itself until  *)
(* it commits.                                                             *)
(*                                                                         *)
(* SELECT ... FOR UPDATE takes its snapshot when the statement starts and  *)
(* then waits for the row lock.  Once it has the lock it looks at the      *)
(* newest committed version of the row: a row that no longer satisfies     *)
(* closed_at IS NULL is dropped from the answer, and a row inserted        *)
(* meanwhile is not in it.                                                 *)
(***************************************************************************)
EXTENDS EpochAllocator

CONSTANTS FaultyCallers,  \* callers whose statements may fail or time out
          NoCaller        \* "nobody holds the row lock"

ASSUME PgAssumption == /\ FaultyCallers \subseteq Callers
                       /\ NoCaller \notin Callers
                       /\ Expiries \subseteq Nat
                       /\ Ceilings \subseteq Nat

VARIABLES pc,      \* the statement each caller runs next
          op,      \* "open" until the store is open, then "alloc" or "rotate"
          arg,     \* its credentialExp or maxIndices
          cand,    \* rows of the SELECT's snapshot not yet tried
          num,     \* the epoch number held in the Go code, 0 for none
          row,     \* max_indices, next_idx, last_issued_expires_at as scanned
          writes,  \* rows written and not committed; Absent where untouched
          lock     \* who holds the lock of each row

txvars == <<op, arg, cand, num, row, writes, lock>>
vars == <<epochs, result, pc, txvars>>

NoWrites == [n \in EpochNumbers |-> Absent]

Init == /\ AbsInit
        /\ pc = [c \in Callers |-> "start"]
        /\ op = [c \in Callers |-> "open"]
        /\ arg = [c \in Callers |-> 0]
        /\ cand = [c \in Callers |-> {}]
        /\ num = [c \in Callers |-> 0]
        /\ row = [c \in Callers |-> Absent]
        /\ writes = [c \in Callers |-> NoWrites]
        /\ lock = [n \in EpochNumbers |-> NoCaller]

-----------------------------------------------------------------------------
\* The transaction ends: its locks go, its uncommitted rows are forgotten.
EndTx(c, r) ==
    /\ pc' = [pc EXCEPT ![c] = "done"]
    /\ result' = [result EXCEPT ![c] = r]
    /\ lock' = [n \in EpochNumbers |-> IF lock[n] = c THEN NoCaller ELSE lock[n]]
    /\ writes' = [writes EXCEPT ![c] = NoWrites]
    /\ UNCHANGED <<op, arg, cand, num, row>>

Rollback(c) == EndTx(c, Failed) /\ UNCHANGED epochs

\* A slip: every process waits for another one to bootstrap epoch 1.
OpenStoreWaits(c) ==
    /\ pc[c] = "start"
    /\ pc' = [pc EXCEPT ![c] = IF OpenEpochs(epochs) # {} THEN "select" ELSE "start"]
    /\ UNCHANGED <<epochs, result, txvars>>

\* NewIssuerStore counts the open epochs.
OpenStore(c) ==
    /\ pc[c] = "start"
    /\ pc' = [pc EXCEPT ![c] = IF OpenEpochs(epochs) # {} THEN "select" ELSE "boot"]
    /\ UNCHANGED <<epochs, result, txvars>>

\* INSERT of epoch 1; another process may have inserted it since the count.
BootInsert(c) ==
    /\ pc[c] = "boot"
    /\ IF epochs[1] = Absent
       THEN /\ epochs' = [epochs EXCEPT ![1] = OpenRow(MaxIndices)]
            /\ pc' = [pc EXCEPT ![c] = "select"]
            /\ UNCHANGED <<result, txvars>>
       ELSE Rollback(c)

\* The operation is called: BEGIN and the snapshot of SELECT ... FOR UPDATE.
Select(c) ==
    /\ pc[c] = "select"
    /\ \/ /\ op' = [op EXCEPT ![c] = "alloc"]
          /\ \E e \in Expiries : arg' = [arg EXCEPT ![c] = e]
       \/ /\ op' = [op EXCEPT ![c] = "rotate"]
          /\ \E m \in Ceilings : arg' = [arg EXCEPT ![c] = m]
    /\ cand' = [cand EXCEPT ![c] = OpenEpochs(epochs)]
    /\ pc' = [pc EXCEPT ![c] = "lock"]
    /\ UNCHANGED <<epochs, result, num, row, writes, lock>>

\* The candidate of the highest number, ORDER BY number DESC.
Candidate(c) == CHOOSE n \in cand[c] : \A m \in cand[c] : m <= n

\* A slip: the SELECT has no FOR UPDATE.
NoRowLock(n) == TRUE

\* FOR UPDATE waits while another transaction holds the row.
LockFree(n) == lock[n] = NoCaller

\* The lock is granted; the newest committed version decides.
LockRow(c) ==
    /\ pc[c] = "lock"
    /\ cand[c] # {}
    /\ LET n == Candidate(c)
       IN  /\ LockFree(n)
           /\ lock' = [lock EXCEPT ![n] = c]
           /\ \/ /\ epochs[n].state = "open"
                 /\ num' = [num EXCEPT ![c] = n]
                 /\ row' = [row EXCEPT ![c] = epochs[n]]
                 /\ pc' = [pc EXCEPT ![c] =
                             IF op[c] = "rotate" \/ Exhausted(epochs[n])
                             THEN "close" ELSE "bump"]
                 /\ UNCHANGED cand
              \/ /\ epochs[n].state # "open"
                 /\ cand' = [cand EXCEPT ![c] = @ \ {n}]
                 /\ UNCHANGED <<num, row, pc>>
    /\ UNCHANGED <<epochs, result, op, arg, writes>>

\* pgx.ErrNoRows: AllocateIndex gives up, RotateEpoch goes on to open number 1.
NoRows(c) ==
    /\ pc[c] = "lock"
    /\ cand[c] = {}
    /\ \/ op[c] = "alloc" /\ Rollback(c)
       \/ /\ op[c] = "rotate"
          /\ pc' = [pc EXCEPT ![c] = "insert"]
          /\ UNCHANGED <<epochs, result, txvars>>

\* UPDATE issuer_epochs SET closed_at.
CloseEpoch(c) ==
    /\ pc[c] = "close"
    /\ writes' = [writes EXCEPT ![c][num[c]] = [row[c] EXCEPT !.state = "closed"]]
    /\ pc' = [pc EXCEPT ![c] = "insert"]
    /\ UNCHANGED <<epochs, result, op, arg, cand, num, row, lock>>

\* INSERT of the next number.  The primary key refuses a number that exists.
InsertEpoch(c) ==
    /\ pc[c] = "insert"
    /\ num[c] + 1 \in EpochNumbers
    /\ LET n == num[c] + 1
           new == OpenRow(IF op[c] = "rotate" THEN Ceiling(arg[c]) ELSE MaxIndices)
       IN  IF epochs[n] # Absent
           THEN Rollback(c)
           ELSE /\ writes' = [writes EXCEPT ![c][n] = new]
                /\ num' = [num EXCEPT ![c] = n]
                /\ row' = [row EXCEPT ![c] = new]
                /\ pc' = [pc EXCEPT ![c] = IF op[c] = "rotate" THEN "commit" ELSE "bump"]
                /\ UNCHANGED <<epochs, result, op, arg, cand, lock>>

\* UPDATE issuer_epochs SET next_idx, last_issued_expires_at.
BumpIndex(c) ==
    /\ pc[c] = "bump"
    /\ writes' = [writes EXCEPT ![c][num[c]] = Bumped(row[c], arg[c])]
    /\ pc' = [pc EXCEPT ![c] = "commit"]
    /\ UNCHANGED <<epochs, result, op, arg, cand, num, row, lock>>

\* A slip: next_idx as it is after the UPDATE.
AnswerAfter(c) == IF op[c] = "rotate" THEN Opened ELSE Index(num[c], row[c].next + 1)

\* What the operation returns: the index is next_idx as it was read.
Answer(c) == IF op[c] = "rotate" THEN Opened ELSE Index(num[c], row[c].next)

\* COMMIT; a faulty caller may lose the reply and report a failure.
Commit(c) ==
    /\ pc[c] = "commit"
    /\ epochs' = [n \in EpochNumbers |->
                    IF writes[c][n] = Absent THEN epochs[n] ELSE writes[c][n]]
    /\ \/ EndTx(c, Answer(c))
       \/ c \in FaultyCallers /\ EndTx(c, Failed)

\* A statement error, the context's deadline or the end of the process.
Abort(c) ==
    /\ c \in FaultyCallers
    /\ pc[c] # "done"
    /\ Rollback(c)

Step(c) == \/ OpenStore(c) \/ BootInsert(c) \/ Select(c) \/ LockRow(c)
           \/ NoRows(c) \/ CloseEpoch(c) \/ InsertEpoch(c) \/ BumpIndex(c)
           \/ Commit(c)

\* Every caller has its answer; nothing is left to do.
Finished == (\A c \in Callers : pc[c] = "done") /\ UNCHANGED vars

Next == (\E c \in Callers : Step(c) \/ Abort(c)) \/ Finished

Fairness == \A c \in Callers : WF_vars(Step(c))

Spec == Init /\ [][Next]_vars
FairSpec == Spec /\ Fairness
-----------------------------------------------------------------------------
\* The rows, locks and answers keep their types: an index is never negative.
TypeOK ==
    /\ epochs \in Table
    /\ result \in [Callers -> [epoch : Nat, idx : Nat,
                               kind : {"running", "failed", "opened", "index"}]]
    /\ pc \in [Callers -> {"start", "boot", "select", "lock", "close",
                           "insert", "bump", "commit", "done"}]
    /\ op \in [Callers -> {"open", "alloc", "rotate"}]
    /\ arg \in [Callers -> Nat]
    /\ cand \in [Callers -> SUBSET EpochNumbers]
    /\ num \in [Callers -> 0..EpochBound]
    /\ row \in [Callers -> Row]
    /\ writes \in [Callers -> Table]
    /\ lock \in [EpochNumbers -> Callers \cup {NoCaller}]

Granted(c) == result[c].kind = "index"

(* Two calls of AllocateIndex never return the same (epoch, idx), however  *)
(* their statements, rotations and failures interleave.                    *)
UniqueIndex ==
    \A c, d \in Callers :
        /\ Granted(c) /\ Granted(d) /\ c # d
        => <<result[c].epoch, result[c].idx>> # <<result[d].epoch, result[d].idx>>

(* The committed table never has two open epochs, and once bootstrapped it *)
(* has one: it is the last one opened, and no number below it is missing.  *)
OneOpenEpoch ==
    \A n \in EpochNumbers :
        /\ epochs[n].state = "open" => \A m \in EpochNumbers : m > n => epochs[m] = Absent
        /\ epochs[n].state = "closed" => /\ n + 1 \in EpochNumbers
                                         /\ epochs[n + 1] # Absent
        /\ epochs[n] = Absent => \A m \in EpochNumbers : m > n => epochs[m] = Absent

(* An index handed out lies below the ceiling of its epoch and is counted  *)
(* in next_idx, and the epoch's last_issued_expires_at is no earlier than  *)
(* the expiry the index was taken for, whatever order the commits took.    *)
GrantRecorded ==
    \A c \in Callers : Granted(c) =>
        LET e == epochs[result[c].epoch]
        IN  /\ result[c].idx < e.next
            /\ e.next <= e.max
            /\ arg[c] <= e.lastExp

(* A closed epoch is final: no commit reopens it, hands out another of its *)
(* indices or changes its row in any way.                                  *)
ClosedEpochFrozen ==
    [][\A n \in EpochNumbers :
          epochs[n].state = "closed" => epochs'[n] = epochs[n]]_vars

(* Every call ends: no caller waits for a row lock for ever.               *)
EveryCallEnds == \A c \in Callers : <>(pc[c] = "done")
=============================================================================
