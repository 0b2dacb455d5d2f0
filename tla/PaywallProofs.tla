--------------------------- MODULE PaywallProofs ----------------------------
(***************************************************************************)
(* Proofs about Paywall, for any number of requests, subjects and nonces,  *)
(* any price, cap and nonce lifetime.                                      *)
(***************************************************************************)
EXTENDS Paywall, FiniteSetTheorems, TLAPS

\* Most leaves are first-order reasoning about sets and functions; the rest
\* need arithmetic.
USE Zenon, SMTT(10)

Entry == [sub : Subs, expiry : Nat]

\* An entry added to a dict of entries leaves it one, and the others as they were.
LEMMA WithEntryType ==
    ASSUME NEW dict, NEW n \in Nonces, NEW s \in Subs, clock \in Nat,
           DOMAIN dict \subseteq Nonces, \A m \in DOMAIN dict : dict[m] \in Entry
    PROVE  /\ DOMAIN WithEntry(dict, n, s) = DOMAIN dict \cup {n}
           /\ WithEntry(dict, n, s)[n] = [sub |-> s, expiry |-> clock + Ttl]
           /\ \A m \in DOMAIN dict \ {n} : WithEntry(dict, n, s)[m] = dict[m]
           /\ \A m \in DOMAIN WithEntry(dict, n, s) : WithEntry(dict, n, s)[m] \in Entry
BY PaywallAssumption DEF WithEntry, Entry

\* What IssueNonce does to the dict and its history: one new nonce, one entry.
LEMMA IssueAdds ==
    ASSUME TypeOK, NEW r \in Requests, IssueNonce(r)
    PROVE  /\ \E n \in Nonces \ DOMAIN issued :
                 /\ DOMAIN entries' = DOMAIN entries \cup {n}
                 /\ DOMAIN issued' = DOMAIN issued \cup {n}
                 /\ entries'[n] = issued'[n]
                 /\ \A m \in DOMAIN entries \ {n} : entries'[m] = entries[m]
                 /\ \A m \in DOMAIN issued : issued'[m] = issued[m]
           /\ DOMAIN entries' \subseteq Nonces /\ DOMAIN issued' \subseteq Nonces
           /\ \A m \in DOMAIN entries' : entries'[m] \in Entry
           /\ \A m \in DOMAIN issued' : issued'[m] \in Entry
<1>1. PICK n \in Nonces \ DOMAIN issued : /\ entries' = WithEntry(entries, n, sub[r])
                                          /\ issued' = WithEntry(issued, n, sub[r])
  BY DEF IssueNonce
<1>2. /\ clock \in Nat /\ sub[r] \in Subs
      /\ \A m \in DOMAIN entries : entries[m] \in Entry
      /\ \A m \in DOMAIN issued : issued[m] \in Entry
      /\ DOMAIN entries \subseteq Nonces /\ DOMAIN issued \subseteq Nonces
  BY PaywallAssumption DEF TypeOK, Entry
<1>3. /\ DOMAIN entries' = DOMAIN entries \cup {n}
      /\ entries'[n] = [sub |-> sub[r], expiry |-> clock + Ttl]
      /\ \A m \in DOMAIN entries \ {n} : entries'[m] = entries[m]
      /\ \A m \in DOMAIN entries' : entries'[m] \in Entry
  <2> DEFINE E == WithEntry(entries, n, sub[r])
  <2>1. /\ DOMAIN E = DOMAIN entries \cup {n}
        /\ E[n] = [sub |-> sub[r], expiry |-> clock + Ttl]
        /\ \A m \in DOMAIN entries \ {n} : E[m] = entries[m]
        /\ \A m \in DOMAIN E : E[m] \in Entry
    BY <1>2, WithEntryType
  <2> HIDE DEF E
  <2>2. entries' = E
    BY <1>1 DEF E
  <2> QED BY <2>1, <2>2
<1>4. /\ DOMAIN issued' = DOMAIN issued \cup {n}
      /\ issued'[n] = [sub |-> sub[r], expiry |-> clock + Ttl]
      /\ \A m \in DOMAIN issued : issued'[m] = issued[m]
      /\ \A m \in DOMAIN issued' : issued'[m] \in Entry
  <2> DEFINE I == WithEntry(issued, n, sub[r])
  <2>1. /\ DOMAIN I = DOMAIN issued \cup {n}
        /\ I[n] = [sub |-> sub[r], expiry |-> clock + Ttl]
        /\ \A m \in DOMAIN issued \ {n} : I[m] = issued[m]
        /\ \A m \in DOMAIN I : I[m] \in Entry
    BY <1>2, WithEntryType
  <2> HIDE DEF I
  <2>2. issued' = I
    BY <1>1 DEF I
  <2> QED BY <2>1, <2>2
<1> QED BY <1>2, <1>3, <1>4

\* Every state the paywall reaches has the types TypeOK gives its stores.
THEOREM TypeCorrect == Spec => []TypeOK
<1> USE PaywallAssumption
<1>1. Init => TypeOK
  BY DEF Init, TypeOK
<1>2. TypeOK /\ [Next]_vars => TypeOK'
  <2> SUFFICES ASSUME TypeOK, [Next]_vars PROVE TypeOK' OBVIOUS
  <2> USE DEF TypeOK, Goto, Finish, stores, world
  <2>1. ASSUME NEW r \in Requests, Begin(r) PROVE TypeOK'
    <3>1. \A n \in Nonces : Against(sub[r], n) \subseteq {"denied", "revoked", "expired"}
      BY DEF Against
    <3> QED BY <2>1, <3>1 DEF Begin
  <2>2. ASSUME NEW r \in Requests, Allowed(r) \/ Unrevoked(r) \/ Gate(r) PROVE TypeOK'
    BY <2>2 DEF Allowed, Unrevoked, Gate
  <2>3. ASSUME NEW r \in Requests, IssueNonce(r) PROVE TypeOK'
    <3>1. /\ DOMAIN entries' \subseteq Nonces /\ DOMAIN issued' \subseteq Nonces
          /\ \A m \in DOMAIN entries' : entries'[m] \in Entry
          /\ \A m \in DOMAIN issued' : issued'[m] \in Entry
      BY <2>3, IssueAdds
    <3> QED BY <2>3, <3>1 DEF IssueNonce, Entry
  <2>4. ASSUME NEW r \in Requests, Consume(r) PROVE TypeOK'
    BY <2>4 DEF Consume, Popped
  <2>5. ASSUME NEW r \in Requests, Reserve(r) \/ Settle(r) PROVE TypeOK'
    BY <2>5 DEF Reserve, Settle
  <2>6. ASSUME NEW r \in Requests, RecordRead(r) \/ RecordWrite(r) PROVE TypeOK'
    BY <2>6 DEF RecordRead, RecordWrite
  <2>7. ASSUME NEW s \in Subs, Revoke(s) \/ Restore(s) \/ IssuerRevokes(s) PROVE TypeOK'
    BY <2>7 DEF Revoke, Restore, IssuerRevokes
  <2>8. CASE Tick
    BY <2>8 DEF Tick
  <2>9. CASE UNCHANGED vars
    BY <2>9 DEF vars
  <2> QED BY <2>1, <2>2, <2>3, <2>4, <2>5, <2>6, <2>7, <2>8, <2>9
          DEF Next, Process, Finished
<1> QED BY <1>1, <1>2, PTL DEF Spec
-----------------------------------------------------------------------------
\* The nonce of a request that got past consume, or has paid, was issued to its
\* subject, is gone from the store, and is held by no other such request.
Holds(r) == r \in charged \/ pc[r] \in {"reserve", "settle", "record", "write"}
NonceInv ==
    /\ DOMAIN entries \subseteq DOMAIN issued
    /\ \A n \in DOMAIN entries : entries[n] = issued[n]
    /\ \A r \in Requests : Holds(r) => /\ nonce[r] \in DOMAIN issued \ DOMAIN entries
                                       /\ issued[nonce[r]].sub = sub[r]
    /\ \A q, r \in Requests : Holds(q) /\ Holds(r) /\ nonce[q] = nonce[r] => q = r

\* A request pays at most once, before its answer, and is served only if it paid.
PaidInv ==
    \A r \in Requests :
        /\ r \in charged => pc[r] \in {"record", "write", "done"}
        /\ pc[r] \in {"record", "write"} \/ result[r] = "settled" => r \in charged

\* A step of one request keeps PaidInv.
LEMMA PaidStep ==
    ASSUME TypeOK, PaidInv, [Next]_vars
    PROVE  PaidInv'
<1> USE DEF TypeOK, PaidInv, Goto, Finish, stores, world
<1>1. ASSUME NEW r \in Requests, Begin(r) PROVE PaidInv'
  BY <1>1 DEF Begin
<1>2. ASSUME NEW r \in Requests, Allowed(r) \/ Unrevoked(r) \/ Gate(r) PROVE PaidInv'
  BY <1>2 DEF Allowed, Unrevoked, Gate
<1>3. ASSUME NEW r \in Requests, IssueNonce(r) \/ Consume(r) PROVE PaidInv'
  BY <1>3 DEF IssueNonce, Consume
<1>4. ASSUME NEW r \in Requests, Reserve(r) \/ Settle(r) PROVE PaidInv'
  BY <1>4 DEF Reserve, Settle
<1>5. ASSUME NEW r \in Requests, RecordRead(r) \/ RecordWrite(r) PROVE PaidInv'
  BY <1>5 DEF RecordRead, RecordWrite
<1>6. ASSUME NEW s \in Subs, Revoke(s) \/ Restore(s) \/ IssuerRevokes(s) PROVE PaidInv'
  BY <1>6 DEF Revoke, Restore, IssuerRevokes
<1>7. CASE Tick
  BY <1>7 DEF Tick
<1>8. CASE UNCHANGED vars
  BY <1>8 DEF vars
<1> QED BY <1>1, <1>2, <1>3, <1>4, <1>5, <1>6, <1>7, <1>8 DEF Next, Process, Finished

\* A step of one request keeps NonceInv: only consume makes a new holder, and it
\* takes the nonce out of the store.
LEMMA NonceStep ==
    ASSUME TypeOK, PaidInv, NonceInv, [Next]_vars
    PROVE  NonceInv'
<1> USE DEF TypeOK, NonceInv, Holds, Goto, Finish, stores, world
<1>1. ASSUME NEW r \in Requests, Begin(r) PROVE NonceInv'
  BY <1>1 DEF Begin, PaidInv
<1>2. ASSUME NEW r \in Requests, Allowed(r) \/ Unrevoked(r) \/ Gate(r) PROVE NonceInv'
  BY <1>2 DEF Allowed, Unrevoked, Gate
<1>3. ASSUME NEW r \in Requests, IssueNonce(r) PROVE NonceInv'
  <2>1. PICK n \in Nonces \ DOMAIN issued :
            /\ DOMAIN entries' = DOMAIN entries \cup {n}
            /\ DOMAIN issued' = DOMAIN issued \cup {n}
            /\ entries'[n] = issued'[n]
            /\ \A m \in DOMAIN entries \ {n} : entries'[m] = entries[m]
            /\ \A m \in DOMAIN issued : issued'[m] = issued[m]
    BY <1>3, IssueAdds
  <2>2. \A q \in Requests : Holds(q)' => Holds(q)
    BY <1>3 DEF IssueNonce
  <2> QED BY <1>3, <2>1, <2>2 DEF IssueNonce
<1>4. ASSUME NEW r \in Requests, Consume(r) PROVE NonceInv'
  <2>1. /\ DOMAIN entries' = DOMAIN entries \ {nonce[r]}
        /\ \A n \in DOMAIN entries' : entries'[n] = entries[n]
    BY <1>4 DEF Consume, Popped
  <2>2. CASE Usable(nonce[r], sub[r])
    <3>1. \A q \in Requests : Holds(q)' => Holds(q) \/ q = r
      BY <1>4 DEF Consume
    <3>2. \A q \in Requests : Holds(q) => nonce[q] # nonce[r]
      BY <2>2 DEF Usable
    <3> QED BY <1>4, <2>1, <2>2, <3>1, <3>2 DEF Consume, Usable
  <2>3. CASE ~Usable(nonce[r], sub[r])
    <3>1. \A q \in Requests : Holds(q)' => Holds(q)
      BY <1>4, <2>3 DEF Consume
    <3> QED BY <1>4, <2>1, <3>1 DEF Consume
  <2> QED BY <2>2, <2>3
<1>5. ASSUME NEW r \in Requests, Reserve(r) \/ Settle(r) PROVE NonceInv'
  BY <1>5 DEF Reserve, Settle
<1>6. ASSUME NEW r \in Requests, RecordRead(r) \/ RecordWrite(r) PROVE NonceInv'
  BY <1>6 DEF RecordRead, RecordWrite
<1>7. ASSUME NEW s \in Subs, Revoke(s) \/ Restore(s) \/ IssuerRevokes(s) PROVE NonceInv'
  BY <1>7 DEF Revoke, Restore, IssuerRevokes
<1>8. CASE Tick
  BY <1>8 DEF Tick
<1>9. CASE UNCHANGED vars
  BY <1>9 DEF vars
<1> QED BY <1>1, <1>2, <1>3, <1>4, <1>5, <1>6, <1>7, <1>8, <1>9 DEF Next, Process, Finished

(* What is served was paid for, once per nonce, by the nonce's own identity, *)
(* whatever the interleaving and whether or not the facilitator is truthful. *)
THEOREM NoncesBuyOnce == Spec => []NonceBuysOnce
<1>1. Init => PaidInv /\ NonceInv
  BY DEF Init, PaidInv, NonceInv, Holds
<1>2. TypeOK /\ PaidInv /\ NonceInv /\ [Next]_vars => PaidInv' /\ NonceInv'
  BY PaidStep, NonceStep
<1>3. TypeOK /\ PaidInv /\ NonceInv => NonceBuysOnce
  BY DEF TypeOK, PaidInv, NonceInv, Holds, NonceBuysOnce
<1> QED BY <1>1, <1>2, <1>3, TypeCorrect, PTL DEF Spec
-----------------------------------------------------------------------------
\* What stands against a request still stands, and each check it has passed has
\* cleared what it looks at: the gate, consume, and reserve, in that order.
BarredInv ==
    /\ \A r \in charged : barred[r] = {}
    /\ \A r \in Requests :
        /\ pc[r] = "idle" => barred[r] = {}
        /\ "denied" \in barred[r] => sub[r] \in denied
        /\ "revoked" \in barred[r] => sub[r] \in revoked
        /\ "expired" \in barred[r] => /\ nonce[r] \in DOMAIN issued
                                      /\ issued[nonce[r]].expiry < clock
        /\ pc[r] = "consume" => "revoked" \notin barred[r]
        /\ pc[r] = "reserve" => barred[r] \subseteq {"denied"}
        /\ pc[r] = "settle" => barred[r] = {}

\* Each step keeps BarredInv.
LEMMA BarredStep ==
    ASSUME TypeOK, PaidInv, NonceInv, BarredInv, [Next]_vars
    PROVE  BarredInv'
<1> USE PaywallAssumption DEF TypeOK, BarredInv, Goto, Finish, stores, world
<1>1. ASSUME NEW r \in Requests, Begin(r) PROVE BarredInv'
  <2>1. r \notin charged
    BY <1>1 DEF Begin, PaidInv
  <2>2. CASE Goto(r, "allowed") /\ UNCHANGED <<nonce, barred>>
    BY <1>1, <2>2 DEF Begin
  <2>3. ASSUME NEW n \in Nonces, Goto(r, "gate"), nonce' = [nonce EXCEPT ![r] = n],
               barred' = [barred EXCEPT ![r] = Against(sub[r], n)]
        PROVE  BarredInv'
    <3>1. /\ "denied" \in Against(sub[r], n) => sub[r] \in denied
          /\ "revoked" \in Against(sub[r], n) => sub[r] \in revoked
          /\ "expired" \in Against(sub[r], n) => /\ n \in DOMAIN issued
                                                 /\ issued[n].expiry < clock
      BY DEF Against
    <3> QED BY <1>1, <2>1, <2>3, <3>1 DEF Begin
  <2> QED BY <1>1, <2>2, <2>3 DEF Begin
<1>2. ASSUME NEW r \in Requests, Allowed(r) \/ Unrevoked(r) \/ Gate(r) PROVE BarredInv'
  BY <1>2 DEF Allowed, Unrevoked, Gate
<1>3. ASSUME NEW r \in Requests, IssueNonce(r) PROVE BarredInv'
  <2>1. DOMAIN issued \subseteq DOMAIN issued' /\ \A m \in DOMAIN issued : issued'[m] = issued[m]
    BY <1>3, IssueAdds
  <2> QED BY <1>3, <2>1 DEF IssueNonce
<1>4. ASSUME NEW r \in Requests, Consume(r) PROVE BarredInv'
  <2>1. Usable(nonce[r], sub[r]) => barred[r] \subseteq {"denied"}
    <3>1. Usable(nonce[r], sub[r]) => issued[nonce[r]].expiry >= clock /\ nonce[r] \in DOMAIN issued
      BY DEF Usable, NonceInv
    <3>2. nonce[r] \in DOMAIN issued => issued[nonce[r]].expiry \in Nat
      OBVIOUS
    <3>3. barred[r] \subseteq {"denied", "revoked", "expired"} /\ "revoked" \notin barred[r]
      BY <1>4 DEF Consume
    <3> QED BY <3>1, <3>2, <3>3
  <2> QED BY <1>4, <2>1 DEF Consume
<1>5. ASSUME NEW r \in Requests, Reserve(r) PROVE BarredInv'
  BY <1>5 DEF Reserve, Affordable
<1>6. ASSUME NEW r \in Requests, Settle(r) PROVE BarredInv'
  BY <1>6 DEF Settle
<1>7. ASSUME NEW r \in Requests, RecordRead(r) \/ RecordWrite(r) PROVE BarredInv'
  BY <1>7 DEF RecordRead, RecordWrite
<1>8. ASSUME NEW s \in Subs, Revoke(s) \/ IssuerRevokes(s) PROVE BarredInv'
  BY <1>8 DEF Revoke, IssuerRevokes
<1>9. ASSUME NEW s \in Subs, Restore(s) PROVE BarredInv'
  BY <1>9 DEF Restore
<1>10. CASE Tick
  BY <1>10 DEF Tick
<1>11. CASE UNCHANGED vars
  BY <1>11 DEF vars
<1> QED BY <1>1, <1>2, <1>3, <1>4, <1>5, <1>6, <1>7, <1>8, <1>9, <1>10, <1>11
        DEF Next, Process, Finished

(* The kill switch: a request that began with its identity denied and not    *)
(* restored since, its credential revoked or its nonce expired never pays.   *)
THEOREM BarredRequestsNeverPay == Spec => []BarredNeverPays
<1>1. Init => PaidInv /\ NonceInv /\ BarredInv
  BY DEF Init, PaidInv, NonceInv, BarredInv, Holds
<1>2. TypeOK /\ PaidInv /\ NonceInv /\ BarredInv /\ [Next]_vars
        => PaidInv' /\ NonceInv' /\ BarredInv'
  BY PaidStep, NonceStep, BarredStep
<1>3. BarredInv => BarredNeverPays
  BY DEF BarredInv, BarredNeverPays
<1> QED BY <1>1, <1>2, <1>3, TypeCorrect, PTL DEF Spec
-----------------------------------------------------------------------------
\* The paid requests that have been answered.
Closed == {r \in charged : pc[r] = "done"}

\* What a set of requests has paid, when one more joins it.
LEMMA PaidAddOne ==
    ASSUME TypeOK, NEW s \in Subs, NEW R \in SUBSET Requests, NEW r \in Requests \ R
    PROVE  /\ PaidBy(s, R) \in Nat
           /\ PaidBy(s, R \cup {r}) = IF sub[r] = s THEN PaidBy(s, R) + Price
                                                    ELSE PaidBy(s, R)
<1> DEFINE Mine == {q \in R : sub[q] = s}
<1>1. IsFiniteSet(Mine) /\ Cardinality(Mine) \in Nat
  <2>1. Mine \in SUBSET Requests
    OBVIOUS
  <2> QED BY <2>1, PaywallAssumption, FS_Subset, FS_CardinalityType
<1>2. CASE sub[r] = s
  <2>1. {q \in R \cup {r} : sub[q] = s} = Mine \cup {r}
    BY <1>2
  <2>2. Cardinality(Mine \cup {r}) = Cardinality(Mine) + 1
    BY <1>1, FS_AddElement
  <2>3. \A k \in Nat : Price * k \in Nat /\ Price * (k + 1) = Price * k + Price
    BY PaywallAssumption
  <2> HIDE DEF Mine
  <2> QED BY <1>1, <1>2, <2>1, <2>2, <2>3 DEF PaidBy, Mine
<1>3. CASE sub[r] # s
  <2>1. {q \in R \cup {r} : sub[q] = s} = Mine
    BY <1>3
  <2>2. \A k \in Nat : Price * k \in Nat
    BY PaywallAssumption
  <2> QED BY <1>1, <1>3, <2>1, <2>2 DEF PaidBy
<1> QED BY <1>2, <1>3

\* More requests have paid at least as much.
LEMMA PaidMonotonic ==
    ASSUME TypeOK, NEW s \in Subs, NEW T \in SUBSET Requests, NEW R \in SUBSET T
    PROVE  /\ PaidBy(s, R) \in Nat /\ PaidBy(s, T) \in Nat
           /\ PaidBy(s, R) <= PaidBy(s, T)
<1> DEFINE Few == {q \in R : sub[q] = s}
           Many == {q \in T : sub[q] = s}
<1>1. Many \in SUBSET Requests /\ Few \in SUBSET Many
  OBVIOUS
<1>2. IsFiniteSet(Many)
  BY <1>1, PaywallAssumption, FS_Subset
<1>3. Cardinality(Few) \in Nat /\ Cardinality(Many) \in Nat /\ Cardinality(Few) <= Cardinality(Many)
  BY <1>1, <1>2, FS_Subset, FS_CardinalityType
<1>4. \A j, k \in Nat : j <= k => Price * j \in Nat /\ Price * k \in Nat /\ Price * j <= Price * k
  BY PaywallAssumption
<1> HIDE DEF Few, Many
<1> QED BY <1>3, <1>4 DEF PaidBy, Few, Many

\* The store has counted at most the answered payments, and what record has read
\* is not above them either: its own payment is not answered yet.
CountInv ==
    /\ \A s \in Subs : spent[s] <= PaidBy(s, Closed)
    /\ \A r \in Requests : pc[r] = "write" => seen[r] <= PaidBy(sub[r], Closed)

\* How a step changes the answered payments: it adds at most one.
LEMMA ClosedStep ==
    ASSUME TypeOK, PaidInv, [Next]_vars
    PROVE  \/ Closed' = Closed
           \/ \E r \in Requests \ Closed : /\ Closed' = Closed \cup {r}
                                           /\ Settle(r) \/ RecordWrite(r)
<1> USE DEF TypeOK, PaidInv, Closed, Goto, Finish, stores, world
<1>1. ASSUME NEW r \in Requests, Begin(r) PROVE Closed' = Closed
  BY <1>1 DEF Begin
<1>2. ASSUME NEW r \in Requests, Allowed(r) \/ Unrevoked(r) \/ Gate(r) PROVE Closed' = Closed
  BY <1>2 DEF Allowed, Unrevoked, Gate
<1>3. ASSUME NEW r \in Requests, IssueNonce(r) \/ Consume(r) PROVE Closed' = Closed
  BY <1>3 DEF IssueNonce, Consume
<1>4. ASSUME NEW r \in Requests, Reserve(r) \/ RecordRead(r) PROVE Closed' = Closed
  BY <1>4 DEF Reserve, RecordRead
<1>5. ASSUME NEW r \in Requests, Settle(r)
      PROVE  r \notin Closed /\ Closed' \in {Closed, Closed \cup {r}}
  BY <1>5 DEF Settle
<1>6. ASSUME NEW r \in Requests, RecordWrite(r)
      PROVE  r \notin Closed /\ Closed' = Closed \cup {r}
  BY <1>6 DEF RecordWrite
<1>7. ASSUME NEW s \in Subs, Revoke(s) \/ Restore(s) \/ IssuerRevokes(s) PROVE Closed' = Closed
  BY <1>7 DEF Revoke, Restore, IssuerRevokes
<1>8. CASE Tick
  BY <1>8 DEF Tick
<1>9. CASE UNCHANGED vars
  BY <1>9 DEF vars
<1> QED BY <1>1, <1>2, <1>3, <1>4, <1>5, <1>6, <1>7, <1>8, <1>9 DEF Next, Process, Finished

\* What a step does to the budget: only RecordWrite changes what is spent, only
\* RecordRead what is read, and no step changes a request's subject.
LEMMA BudgetStep ==
    ASSUME TypeOK, [Next]_vars
    PROVE  /\ sub' = sub
           /\ spent' = spent \/ \E r \in Requests : RecordWrite(r)
           /\ \A r \in Requests :
                pc'[r] = "write" => \/ pc[r] = "write" /\ seen'[r] = seen[r]
                                    \/ RecordRead(r)
<1> USE DEF TypeOK, Goto, Finish, stores, world
<1>1. ASSUME NEW r \in Requests, Begin(r) \/ Allowed(r) \/ Unrevoked(r) \/ Gate(r)
      PROVE  sub' = sub /\ spent' = spent /\ seen' = seen
             /\ \A q \in Requests : pc'[q] = "write" => pc[q] = "write"
  BY <1>1 DEF Begin, Allowed, Unrevoked, Gate
<1>2. ASSUME NEW r \in Requests, IssueNonce(r) \/ Consume(r) \/ Reserve(r) \/ Settle(r)
      PROVE  sub' = sub /\ spent' = spent /\ seen' = seen
             /\ \A q \in Requests : pc'[q] = "write" => pc[q] = "write"
  BY <1>2 DEF IssueNonce, Consume, Reserve, Settle
<1>3. ASSUME NEW r \in Requests, RecordRead(r)
      PROVE  sub' = sub /\ spent' = spent /\ \A q \in Requests \ {r} : pc'[q] = pc[q] /\ seen'[q] = seen[q]
  BY <1>3 DEF RecordRead
<1>4. ASSUME NEW r \in Requests, RecordWrite(r)
      PROVE  sub' = sub /\ pc'[r] = "done" /\ \A q \in Requests \ {r} : pc'[q] = pc[q] /\ seen'[q] = seen[q]
  BY <1>4 DEF RecordWrite
<1>5. ASSUME NEW s \in Subs, Revoke(s) \/ Restore(s) \/ IssuerRevokes(s)
      PROVE  sub' = sub /\ spent' = spent /\ seen' = seen /\ pc' = pc
  BY <1>5 DEF Revoke, Restore, IssuerRevokes
<1>6. CASE Tick
  BY <1>6 DEF Tick
<1>7. CASE UNCHANGED vars
  BY <1>7 DEF vars
<1> QED BY <1>1, <1>2, <1>3, <1>4, <1>5, <1>6, <1>7 DEF Next, Process, Finished

\* Each step keeps CountInv.
LEMMA CountStep ==
    ASSUME TypeOK, PaidInv, CountInv, [Next]_vars
    PROVE  CountInv'
<1>1. /\ sub' = sub
      /\ Closed \in SUBSET Requests /\ Closed' \in SUBSET Requests /\ Closed \in SUBSET Closed'
  <2>1. Closed \in SUBSET Requests
    BY DEF Closed, TypeOK
  <2> QED BY <2>1, ClosedStep, BudgetStep
<1>2. \A s \in Subs : /\ PaidBy(s, Closed) \in Nat /\ PaidBy(s, Closed') \in Nat
                      /\ PaidBy(s, Closed) <= PaidBy(s, Closed')
  BY <1>1, PaidMonotonic
<1>3. \A s : PaidBy(s, Closed)' = PaidBy(s, Closed')
  BY <1>1 DEF PaidBy
<1>4. \A r \in Requests : sub[r] \in Subs /\ seen[r] \in Nat
  BY DEF TypeOK
<1>5. \A s \in Subs : spent[s] \in Nat
  BY DEF TypeOK
<1>6. \A s \in Subs : spent'[s] <= PaidBy(s, Closed')
  <2>1. CASE spent' = spent
    BY <1>2, <1>5, <2>1 DEF CountInv
  <2>2. ASSUME NEW r \in Requests, RecordWrite(r)
        PROVE  \A s \in Subs : spent'[s] <= PaidBy(s, Closed')
    <3>1. r \notin Closed /\ Closed' = Closed \cup {r}
      BY <2>2 DEF RecordWrite, Closed, Finish, PaidInv, TypeOK
    <3>2. PaidBy(sub[r], Closed') = PaidBy(sub[r], Closed) + Price
      BY <1>1, <1>4, <3>1, PaidAddOne
    <3>3. seen[r] <= PaidBy(sub[r], Closed)
      BY <2>2 DEF RecordWrite, CountInv
    <3>4. spent'[sub[r]] = seen[r] + Price /\ \A s \in Subs \ {sub[r]} : spent'[s] = spent[s]
      BY <2>2, <1>4 DEF RecordWrite, TypeOK
    <3>5. spent'[sub[r]] <= PaidBy(sub[r], Closed')
      BY <1>2, <1>4, <3>2, <3>3, <3>4, PaywallAssumption
    <3>6. \A s \in Subs \ {sub[r]} : spent'[s] <= PaidBy(s, Closed')
      BY <1>2, <1>5, <3>4 DEF CountInv
    <3> QED BY <3>5, <3>6
  <2> QED BY <2>1, <2>2, BudgetStep
<1>7. ASSUME NEW r \in Requests, pc'[r] = "write"
      PROVE  seen'[r] <= PaidBy(sub[r], Closed')
  <2>1. CASE pc[r] = "write" /\ seen'[r] = seen[r]
    BY <1>2, <1>4, <2>1 DEF CountInv
  <2>2. CASE RecordRead(r)
    <3>1. seen'[r] = spent[sub[r]]
      BY <2>2 DEF RecordRead, TypeOK
    <3> QED BY <1>2, <1>4, <1>5, <3>1 DEF CountInv
  <2> QED BY <1>7, <2>1, <2>2, BudgetStep
<1> QED BY <1>1, <1>3, <1>6, <1>7 DEF CountInv

(* The budget store never counts more than was really paid, whatever the     *)
(* interleaving of its reads and writes: a lost update only loses payments.  *)
THEOREM BudgetNeverOvercounts == Spec => []NeverOvercounted
<1>1. Init => PaidInv /\ CountInv
  <2> SUFFICES ASSUME Init PROVE PaidInv /\ CountInv OBVIOUS
  <2>1. TypeOK
    BY PaywallAssumption DEF Init, TypeOK
  <2>2. \A s \in Subs : PaidBy(s, {}) \in Nat
    BY <2>1, PaidMonotonic
  <2> QED BY <2>2 DEF Init, PaidInv, CountInv, Closed
<1>2. TypeOK /\ PaidInv /\ CountInv /\ [Next]_vars => PaidInv' /\ CountInv'
  BY PaidStep, CountStep
<1>3. TypeOK /\ CountInv => NeverOvercounted
  <2> SUFFICES ASSUME TypeOK, CountInv PROVE NeverOvercounted OBVIOUS
  <2>1. charged \in SUBSET Requests /\ Closed \in SUBSET charged
    BY DEF TypeOK, Closed
  <2>2. \A s \in Subs : /\ PaidBy(s, Closed) \in Nat /\ PaidBy(s, charged) \in Nat
                        /\ PaidBy(s, Closed) <= PaidBy(s, charged)
    BY <2>1, PaidMonotonic
  <2> QED BY <2>2 DEF TypeOK, CountInv, NeverOvercounted
<1> QED BY <1>1, <1>2, <1>3, TypeCorrect, PTL DEF Spec
-----------------------------------------------------------------------------
\* When requests run one after the other: at most one is running, it has room
\* for its price from reserve on, and the store counts every answered payment.
OneActive == \A q, r \in Requests : Active(q) /\ Active(r) => q = r
RoomInv ==
    /\ \A s \in Subs : spent[s] = PaidBy(s, Closed) /\ spent[s] <= Cap
    /\ \A r \in Requests :
        /\ pc[r] \in {"settle", "record", "write"} => spent[sub[r]] + Price <= Cap
        /\ pc[r] = "write" => seen[r] = spent[sub[r]]

\* Each step keeps OneActive: a request begins only when none is running.
LEMMA OneActiveStep ==
    ASSUME Serial = TRUE, TypeOK, OneActive, [Next]_vars
    PROVE  OneActive'
<1> USE DEF TypeOK, OneActive, Active, Goto, Finish, stores, world
<1>1. ASSUME NEW r \in Requests, Begin(r) PROVE OneActive'
  BY <1>1 DEF Begin
<1>2. ASSUME NEW r \in Requests, Process(r) PROVE OneActive'
  <2>1. Active(r) /\ \A q \in Requests \ {r} : pc'[q] = pc[q]
    <3>1. CASE Allowed(r) \/ Unrevoked(r) \/ IssueNonce(r) \/ Gate(r)
      BY <3>1 DEF Allowed, Unrevoked, IssueNonce, Gate
    <3>2. CASE Consume(r) \/ Reserve(r)
      BY <3>2 DEF Consume, Reserve
    <3>3. CASE Settle(r) \/ RecordRead(r) \/ RecordWrite(r)
      BY <3>3 DEF Settle, RecordRead, RecordWrite
    <3> QED BY <1>2, <3>1, <3>2, <3>3 DEF Process
  <2> QED BY <2>1
<1>3. ASSUME NEW s \in Subs, Revoke(s) \/ Restore(s) \/ IssuerRevokes(s) PROVE OneActive'
  BY <1>3 DEF Revoke, Restore, IssuerRevokes
<1>4. CASE Tick
  BY <1>4 DEF Tick
<1>5. CASE UNCHANGED vars
  BY <1>5 DEF vars
<1> QED BY <1>1, <1>2, <1>3, <1>4, <1>5 DEF Next, Finished

\* How a request comes to the part of _settle that has room for its price.
LEMMA RoomStep ==
    ASSUME TypeOK, [Next]_vars, NEW r \in Requests,
           pc'[r] \in {"settle", "record", "write"}
    PROVE  pc[r] \in {"settle", "record", "write"} \/ Affordable(sub[r])
<1> USE DEF TypeOK, Goto, Finish, stores, world
<1>1. ASSUME NEW q \in Requests, Begin(q)
      PROVE  pc[r] \in {"settle", "record", "write"}
  BY <1>1 DEF Begin
<1>2. ASSUME NEW q \in Requests, Process(q)
      PROVE  pc[r] \in {"settle", "record", "write"} \/ Affordable(sub[r])
  <2>1. CASE Allowed(q) \/ Unrevoked(q) \/ IssueNonce(q) \/ Gate(q)
    BY <2>1 DEF Allowed, Unrevoked, IssueNonce, Gate
  <2>2. CASE Consume(q) \/ Reserve(q)
    BY <2>2 DEF Consume, Reserve
  <2>3. CASE Settle(q) \/ RecordRead(q) \/ RecordWrite(q)
    BY <2>3 DEF Settle, RecordRead, RecordWrite
  <2> QED BY <1>2, <2>1, <2>2, <2>3 DEF Process
<1>3. ASSUME NEW s \in Subs, Revoke(s) \/ Restore(s) \/ IssuerRevokes(s) PROVE pc' = pc
  BY <1>3 DEF Revoke, Restore, IssuerRevokes
<1>4. CASE Tick
  BY <1>4 DEF Tick
<1>5. CASE UNCHANGED vars
  BY <1>5 DEF vars
<1> QED BY <1>1, <1>2, <1>3, <1>4, <1>5 DEF Next, Finished

\* Each step keeps RoomInv.
LEMMA LedgerStep ==
    ASSUME Truthful = TRUE, TypeOK, PaidInv, OneActive, RoomInv, [Next]_vars
    PROVE  RoomInv'
<1>1. /\ sub' = sub
      /\ \A s : PaidBy(s, Closed)' = PaidBy(s, Closed')
  BY BudgetStep DEF PaidBy
<1>2. /\ \A r \in Requests : sub[r] \in Subs /\ seen[r] \in Nat
      /\ \A s \in Subs : spent[s] \in Nat
      /\ Price \in Nat /\ Cap \in Nat
  BY PaywallAssumption DEF TypeOK
<1>3. ASSUME NEW r \in Requests, RecordWrite(r) PROVE RoomInv'
  <2>1. Closed \in SUBSET Requests /\ r \notin Closed /\ Closed' = Closed \cup {r}
    BY <1>3 DEF RecordWrite, Closed, Finish, PaidInv, TypeOK
  <2>2. \A s \in Subs : PaidBy(s, Closed') = IF sub[r] = s THEN PaidBy(s, Closed) + Price
                                                           ELSE PaidBy(s, Closed)
    BY <2>1, PaidAddOne
  <2>3. /\ spent'[sub[r]] = spent[sub[r]] + Price /\ spent[sub[r]] + Price <= Cap
        /\ \A s \in Subs \ {sub[r]} : spent'[s] = spent[s]
    BY <1>2, <1>3 DEF RecordWrite, RoomInv, TypeOK
  <2>4. \A s \in Subs : spent'[s] = PaidBy(s, Closed') /\ spent'[s] <= Cap
    BY <1>2, <2>2, <2>3 DEF RoomInv
  <2>5. \A q \in Requests : pc'[q] \notin {"settle", "record", "write"}
    BY <1>3 DEF RecordWrite, OneActive, Active, Finish, TypeOK
  <2> QED BY <1>1, <2>4, <2>5 DEF RoomInv
<1>4. ASSUME \A r \in Requests : ~RecordWrite(r) PROVE RoomInv'
  <2>1. spent' = spent
    BY <1>4, BudgetStep
  <2>2. Closed' = Closed
    <3>1. ASSUME NEW r \in Requests \ Closed, Settle(r), Closed' = Closed \cup {r} PROVE FALSE
      BY <3>1 DEF Settle, Goto, Finish, Closed, TypeOK, PaidInv
    <3> QED BY <1>4, <3>1, ClosedStep
  <2>3. ASSUME NEW r \in Requests, pc'[r] \in {"settle", "record", "write"}
        PROVE  spent[sub[r]] + Price <= Cap
    BY <2>3, RoomStep DEF RoomInv, Affordable
  <2>4. ASSUME NEW r \in Requests, pc'[r] = "write"
        PROVE  seen'[r] = spent[sub[r]]
    <3>1. CASE pc[r] = "write" /\ seen'[r] = seen[r]
      BY <3>1 DEF RoomInv
    <3>2. CASE RecordRead(r)
      BY <3>2 DEF RecordRead, TypeOK
    <3> QED BY <2>4, <3>1, <3>2, BudgetStep
  <2> QED BY <1>1, <2>1, <2>2, <2>3, <2>4 DEF RoomInv
<1> QED BY <1>3, <1>4

\* The serial invariant in every state.
LEMMA SerialRuns ==
    ASSUME Serial = TRUE, Truthful = TRUE
    PROVE  Spec => [](PaidInv /\ OneActive /\ RoomInv)
<1>1. Init => PaidInv /\ OneActive /\ RoomInv
  <2> SUFFICES ASSUME Init PROVE PaidInv /\ OneActive /\ RoomInv OBVIOUS
  <2>1. \A s \in Subs : PaidBy(s, {}) = 0
    <3>1. Price * 0 = 0
      BY PaywallAssumption
    <3>2. \A s \in Subs : {r \in {} : sub[r] = s} = {}
      OBVIOUS
    <3> QED BY <3>1, <3>2, FS_EmptySet DEF PaidBy
  <2>2. Closed = {}
    BY DEF Init, Closed
  <2>3. 0 <= Cap
    BY PaywallAssumption
  <2> QED BY <2>1, <2>2, <2>3 DEF Init, PaidInv, OneActive, Active, RoomInv
<1>2. TypeOK /\ PaidInv /\ OneActive /\ RoomInv /\ [Next]_vars
        => PaidInv' /\ OneActive' /\ RoomInv'
  BY PaidStep, OneActiveStep, LedgerStep
<1> QED BY <1>1, <1>2, TypeCorrect, PTL DEF Spec

(* Run one after the other, against a facilitator that reports each payment  *)
(* it makes, no identity ever pays more than its cap.                        *)
THEOREM SerialSpendCap ==
    ASSUME Serial = TRUE, Truthful = TRUE
    PROVE  Spec => []SpendCap
<1>1. TypeOK /\ PaidInv /\ OneActive /\ RoomInv => SpendCap
  <2> SUFFICES ASSUME TypeOK, PaidInv, OneActive, RoomInv, NEW s \in Subs
               PROVE  PaidBy(s, charged) <= Cap
    BY DEF SpendCap
  <2>1. Closed \in SUBSET Requests
    BY DEF Closed, TypeOK
  <2>2. CASE charged = Closed
    BY <2>2 DEF RoomInv
  <2>3. CASE charged # Closed
    <3>1. PICK r \in charged : pc[r] \in {"record", "write"}
      BY <2>3 DEF Closed, PaidInv, TypeOK
    <3>2. r \in Requests \ Closed /\ charged = Closed \cup {r}
      BY <3>1 DEF Closed, OneActive, Active, PaidInv, TypeOK
    <3>3. PaidBy(s, charged) = IF sub[r] = s THEN PaidBy(s, Closed) + Price
                                             ELSE PaidBy(s, Closed)
      BY <2>1, <3>2, PaidAddOne
    <3> QED BY <3>1, <3>2, <3>3 DEF RoomInv
  <2> QED BY <2>2, <2>3
<1> QED BY <1>1, TypeCorrect, SerialRuns, PTL

(* Under the same two assumptions the budget store has counted exactly what  *)
(* was paid whenever no request is running.                                  *)
THEOREM SerialLedgerAgrees ==
    ASSUME Serial = TRUE, Truthful = TRUE
    PROVE  Spec => []LedgerAgrees
<1>1. TypeOK /\ PaidInv /\ RoomInv => LedgerAgrees
  <2> SUFFICES ASSUME TypeOK, PaidInv, RoomInv, \A r \in Requests : ~Active(r)
               PROVE  \A s \in Subs : spent[s] = PaidBy(s, charged)
    BY DEF LedgerAgrees
  <2>1. charged = Closed
    BY DEF Closed, Active, PaidInv, TypeOK
  <2> QED BY <2>1 DEF RoomInv
<1> QED BY <1>1, TypeCorrect, SerialRuns, PTL
=============================================================================
