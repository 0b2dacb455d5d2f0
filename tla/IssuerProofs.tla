---------------------------- MODULE IssuerProofs ----------------------------
(***************************************************************************)
(* Proofs about Issuer, for any number of requests, keys and epochs, both  *)
(* hooks and any store failures.                                           *)
(*                                                                         *)
(* The argument: the slot (epoch, idx) of a minted JWS lies below next_idx *)
(* of its epoch, and AllocateIndex answers with an index at or above it,   *)
(* so minted JWSs never share a slot.  Every stored credential is the JWS  *)
(* some request minted for that key, a row of issuer_credentials never     *)
(* changes, and a request that answers 200 answers with the stored row.    *)
(***************************************************************************)
EXTENDS Issuer, TLAPS

(***************************************************************************)
(* What AllocateIndex and RotateEpoch, taken as atomic operations, do to a *)
(* table of epochs: facts about the operators of EpochTable alone, for any *)
(* ceiling and any number of epochs.                                       *)
(***************************************************************************)

\* Epoch n is the one open epoch of table t and the last one in it.
Last(t, n) ==
    /\ t[n].state = "open"
    /\ \A m \in EpochNumbers : m # n => t[m].state # "open"
    /\ \A m \in EpochNumbers : m > n => t[m] = Absent

\* A bootstrapped table: one open epoch, and none over its ceiling.
Booted(t) ==
    /\ t \in Table
    /\ \E n \in EpochNumbers : Last(t, n)
    /\ \A m \in EpochNumbers : t[m].next <= t[m].max

\* No epoch of t gives back an index or forgets an expiry on the way to u.
Grows(t, u) ==
    \A n \in EpochNumbers : t[n].next <= u[n].next /\ t[n].lastExp <= u[n].lastExp

\* Epoch n of t is closed and the row new inserted as epoch n + 1.
Roll(t, n, new) == [t EXCEPT ![n].state = "closed", ![n + 1] = new]

(* CurrentEpoch's ORDER BY number DESC LIMIT 1 finds the open epoch.       *)
LEMMA CurrentIsLast ==
    ASSUME NEW t \in Table, NEW n \in EpochNumbers, Last(t, n)
    PROVE  CurrentEpoch(t) = n
<1>1. OpenEpochs(t) = {n}
    BY DEF OpenEpochs, Last
<1>2. n <= n
    BY DEF EpochNumbers
<1>3. QED
    BY <1>1, <1>2 DEF CurrentEpoch

(* The rows the two operations write are rows.                             *)
LEMMA WrittenRows ==
    /\ \A r \in Row : [r EXCEPT !.state = "closed"] \in Row
    /\ \A r \in Row, e \in Nat :
          /\ Bumped(r, e) \in Row
          /\ Bumped(r, e).state = r.state /\ Bumped(r, e).max = r.max
          /\ Bumped(r, e).next = r.next + 1
          /\ r.lastExp <= Bumped(r, e).lastExp /\ e <= Bumped(r, e).lastExp
    /\ \A m \in Nat : OpenRow(m) \in Row
    /\ \A m \in Nat : Ceiling(m) \in Nat
<1>1. \A r \in Row : [r EXCEPT !.state = "closed"] \in Row
    BY DEF Row
<1>2. ASSUME NEW r \in Row, NEW e \in Nat
      PROVE  /\ Bumped(r, e) \in Row
             /\ Bumped(r, e).state = r.state /\ Bumped(r, e).max = r.max
             /\ Bumped(r, e).next = r.next + 1
             /\ r.lastExp <= Bumped(r, e).lastExp /\ e <= Bumped(r, e).lastExp
  <2>1. /\ r.next + 1 \in Nat /\ Later(r.lastExp, e) \in Nat
        /\ r.lastExp <= Later(r.lastExp, e) /\ e <= Later(r.lastExp, e)
      BY DEF Row, Later
  <2>2. /\ Bumped(r, e).state = r.state /\ Bumped(r, e).max = r.max
        /\ Bumped(r, e).next = r.next + 1
        /\ Bumped(r, e).lastExp = Later(r.lastExp, e)
      BY DEF Row, Bumped
  <2>3. Bumped(r, e) \in Row
      BY <2>1 DEF Row, Bumped
  <2>4. QED
      BY <2>1, <2>2, <2>3
<1>3. \A m \in Nat : OpenRow(m) \in Row
    BY DEF Row, OpenRow
<1>4. \A m \in Nat : Ceiling(m) \in Nat
    BY EpochAssumption DEF Ceiling
<1>5. QED
    BY <1>1, <1>2, <1>3, <1>4

(* Closing the open epoch n and opening n + 1 with an empty or once-bumped *)
(* row leaves a bootstrapped table that has only grown.                    *)
LEMMA RollKeepsTable ==
    ASSUME NEW t, Booted(t), NEW n \in EpochNumbers, Last(t, n),
           n + 1 \in EpochNumbers,
           NEW new \in Row, new.state = "open", new.next <= new.max
    PROVE  /\ Booted(Roll(t, n, new)) /\ Grows(t, Roll(t, n, new))
           /\ Roll(t, n, new)[n + 1] = new
<1> DEFINE u == Roll(t, n, new)
<1> DEFINE old == [t[n] EXCEPT !.state = "closed"]
<1>1. t \in Table /\ t[n] \in Row /\ old \in Row /\ n \in Nat /\ n # n + 1
    BY WrittenRows DEF Booted, Table, EpochNumbers
<1>2. u \in Table
    BY <1>1 DEF Table, Roll
<1>3. u[n + 1] = new
    BY <1>1 DEF Table, Roll
<1>4. \A m \in EpochNumbers : m # n /\ m # n + 1 => u[m] = t[m]
    BY <1>1 DEF Table, Roll
<1>5. /\ u[n].state = "closed" /\ u[n].next = t[n].next
      /\ u[n].max = t[n].max /\ u[n].lastExp = t[n].lastExp
  <2>1. u[n] = old
      BY <1>1 DEF Table, Roll
  <2>2. QED
      BY <1>1, <2>1 DEF Row
<1>6. Last(u, n + 1)
  <2>1. ASSUME NEW m \in EpochNumbers, m # n + 1 PROVE u[m].state # "open"
    <3>1. CASE m = n
        BY <1>5, <3>1
    <3>2. CASE m # n
        BY <1>4, <2>1, <3>2 DEF Last
    <3>3. QED
        BY <3>1, <3>2
  <2>2. ASSUME NEW m \in EpochNumbers, m > n + 1 PROVE u[m] = Absent
    <3>1. m > n /\ m # n /\ m # n + 1
        BY <1>1, <2>2 DEF EpochNumbers
    <3>2. QED
        BY <1>4, <3>1 DEF Last
  <2>3. QED
      BY <1>3, <2>1, <2>2 DEF Last
<1>7. ASSUME NEW m \in EpochNumbers
      PROVE  /\ u[m].next <= u[m].max
             /\ t[m].next <= u[m].next /\ t[m].lastExp <= u[m].lastExp
  <2>1. /\ t[m].next \in Nat /\ t[m].lastExp \in Nat /\ t[m].next <= t[m].max
        /\ new.next \in Nat /\ new.lastExp \in Nat
      BY <1>1 DEF Table, Row, Booted
  <2>2. CASE m = n + 1
    <3>1. t[m].next = 0 /\ t[m].lastExp = 0
        BY <1>1, <2>2 DEF Last, Absent
    <3>2. QED
        BY <1>3, <2>1, <2>2, <3>1
  <2>3. CASE m = n
      BY <1>5, <2>1, <2>3
  <2>4. CASE m # n /\ m # n + 1
      BY <1>4, <2>1, <2>4
  <2>5. QED
      BY <2>2, <2>3, <2>4
<1>8. QED
    BY <1>2, <1>3, <1>6, <1>7 DEF Booted, Grows

(* RotateEpoch keeps one open epoch and forgets no index and no expiry.    *)
LEMMA RotateKeepsTable ==
    ASSUME NEW t, Booted(t), NEW max \in Nat, CanRotate(t)
    PROVE  Booted(Rotated(t, max)) /\ Grows(t, Rotated(t, max))
<1>1. PICK n \in EpochNumbers : Last(t, n)
    BY DEF Booted
<1>2. CurrentEpoch(t) = n /\ n + 1 \in EpochNumbers
    BY <1>1, CurrentIsLast DEF Booted, CanRotate
<1>3. /\ OpenRow(Ceiling(max)) \in Row /\ OpenRow(Ceiling(max)).state = "open"
      /\ OpenRow(Ceiling(max)).next <= OpenRow(Ceiling(max)).max
    BY WrittenRows DEF OpenRow
<1>4. QED
    BY <1>1, <1>2, <1>3, RollKeepsTable DEF Rotated, Roll

(* AllocateIndex keeps one open epoch, forgets nothing, and takes an index *)
(* that was still free: at or above next_idx before, below it afterwards,  *)
(* with the expiry of the credential on record.                            *)
LEMMA AllocateKeepsTable ==
    ASSUME NEW t, Booted(t), NEW exp \in Nat, CanAllocate(t)
    PROVE  /\ Booted(Allocated(t, exp)) /\ Grows(t, Allocated(t, exp))
           /\ AllocEpoch(t) \in EpochNumbers /\ AllocIdx(t) \in Nat
           /\ t[AllocEpoch(t)].next <= AllocIdx(t)
           /\ AllocIdx(t) < Allocated(t, exp)[AllocEpoch(t)].next
           /\ exp <= Allocated(t, exp)[AllocEpoch(t)].lastExp
<1> DEFINE u == Allocated(t, exp)
<1>1. PICK n \in EpochNumbers : Last(t, n)
    BY DEF Booted
<1>2. CurrentEpoch(t) = n /\ t \in Table /\ t[n] \in Row
    BY <1>1, CurrentIsLast DEF Booted, Table
<1>3. CASE Exhausted(t[n])
  <2> DEFINE new == Bumped(OpenRow(MaxIndices), exp)
  <2>1. n + 1 \in EpochNumbers
      BY <1>2, <1>3 DEF CanAllocate, CanRotate
  <2>2. MaxIndices \in Nat /\ 1 <= MaxIndices
      BY EpochAssumption
  <2>3. /\ new \in Row /\ new.state = "open" /\ new.max = MaxIndices /\ new.next = 1
        /\ exp <= new.lastExp
    <3>1. OpenRow(MaxIndices) \in Row
        BY <2>2, WrittenRows
    <3>2. /\ OpenRow(MaxIndices).state = "open" /\ OpenRow(MaxIndices).next = 0
          /\ OpenRow(MaxIndices).max = MaxIndices
        BY DEF OpenRow
    <3>3. QED
        BY <3>1, <3>2, WrittenRows
  <2>4. u = Roll(t, n, new)
      BY <1>2, <1>3, <2>1 DEF Allocated, Rotated, Table, Roll
  <2>5. Booted(u) /\ Grows(t, u) /\ u[n + 1] = new
    <3>1. new.next <= new.max
        BY <2>2, <2>3
    <3>2. QED
        BY <1>1, <2>1, <2>3, <2>4, <3>1, RollKeepsTable
  <2>6. AllocEpoch(t) = n + 1 /\ AllocIdx(t) = 0
      BY <1>2, <1>3 DEF AllocEpoch, AllocIdx
  <2>7. t[n + 1].next = 0
      BY <1>1, <2>1 DEF Last, Absent, EpochNumbers
  <2>8. QED
      BY <2>1, <2>3, <2>5, <2>6, <2>7
<1>4. CASE ~Exhausted(t[n])
  <2> DEFINE new == Bumped(t[n], exp)
  <2>1. u = [t EXCEPT ![n] = new]
      BY <1>2, <1>4 DEF Allocated
  <2>2. /\ new \in Row /\ new.state = t[n].state /\ new.max = t[n].max
        /\ new.next = t[n].next + 1
        /\ t[n].lastExp <= new.lastExp /\ exp <= new.lastExp
      BY <1>2, WrittenRows
  <2>3. t[n].next \in Nat /\ t[n].max \in Nat /\ t[n].next < t[n].max
      BY <1>2, <1>4 DEF Exhausted, Row
  <2>4. \A m \in EpochNumbers : u[m] = IF m = n THEN new ELSE t[m]
      BY <1>2, <2>1 DEF Table
  <2>5. u \in Table
      BY <1>2, <2>1, <2>2 DEF Table
  <2>6. Last(u, n)
      BY <1>1, <2>2, <2>4 DEF Last, EpochNumbers
  <2>7. \A m \in EpochNumbers : u[m].next <= u[m].max
      BY <2>2, <2>3, <2>4 DEF Booted
  <2>8. Grows(t, u)
    <3>1. \A m \in EpochNumbers : t[m].next \in Nat /\ t[m].lastExp \in Nat
        BY <1>2 DEF Table, Row
    <3>2. QED
        BY <2>2, <2>4, <3>1 DEF Grows
  <2>9. AllocEpoch(t) = n /\ AllocIdx(t) = t[n].next
      BY <1>2, <1>4 DEF AllocEpoch, AllocIdx
  <2>10. QED
      BY <2>2, <2>3, <2>4, <2>5, <2>6, <2>7, <2>8, <2>9 DEF Booted
<1>5. QED
    BY <1>3, <1>4
-----------------------------------------------------------------------------
(* The issuer.                                                             *)

\* Most leaves are first-order reasoning about sets and functions; the rest
\* need arithmetic.
USE Zenon, SMTT(10)

\* The epoch of a JWS counts its index and outlives it.
OnRecord(j) == j.idx < epochs[j.epoch].next /\ j.exp <= epochs[j.epoch].lastExp

SameSlot(j, l) == j.epoch = l.epoch /\ j.idx = l.idx

\* What request r has minted, and that it may.
MintInv(r) ==
    /\ pc[r] \in {"idle", "lookup", "authz", "hook", "park", "alloc"} => minted[r] = NoJws
    /\ pc[r] = "put" => minted[r] # NoJws
    /\ minted[r] # NoJws => minted[r].key = key[r] /\ OnRecord(minted[r])
    /\ Hook = "queue" /\ pc[r] \in {"alloc", "put", "reread"} => key[r] \in signedOff

\* What request r has answered.
ServeInv(r) ==
    Issued(r) => credentials[key[r]] # NoJws /\ resp[r].jws = credentials[key[r]]

\* Two requests never mint for the same slot.
SlotInv ==
    \A r, s \in Requests :
        r # s /\ minted[r] # NoJws /\ minted[s] # NoJws => ~SameSlot(minted[r], minted[s])

\* A stored credential was minted by some request for its key.
StoredInv(k) ==
    credentials[k] # NoJws => \E r \in Requests : key[r] = k /\ minted[r] = credentials[k]

\* An operator stands behind an approved ceremony and what it minted.
SignInv(k) ==
    /\ pendings[k] = "approved" => k \in signedOff
    /\ Hook = "queue" /\ credentials[k] # NoJws => k \in signedOff

IInv ==
    /\ TypeOK
    /\ Booted(epochs)
    /\ SlotInv
    /\ \A r \in Requests : MintInv(r) /\ ServeInv(r)
    /\ \A k \in Keys : StoredInv(k) /\ SignInv(k)

-----------------------------------------------------------------------------
(* The server starts with one open epoch, no credential and no request.    *)
LEMMA InitInv == Init => IInv
<1> SUFFICES ASSUME Init PROVE IInv
    OBVIOUS
<1>1. OpenRow(MaxIndices) \in Row /\ Absent \in Row /\ 1 \in EpochNumbers
    BY EpochAssumption, WrittenRows DEF Row, Absent, EpochNumbers
<1>2. epochs \in Table
    BY <1>1 DEF Init, Table
<1>3. TypeOK
    BY <1>2 DEF Init, TypeOK, Kinds
<1>4. Last(epochs, 1)
    BY <1>1 DEF Init, Last, OpenRow, Absent, EpochNumbers
<1>5. \A m \in EpochNumbers : epochs[m].next <= epochs[m].max
    BY EpochAssumption DEF Init, OpenRow, Absent
<1>6. Booted(epochs)
    BY <1>1, <1>2, <1>4, <1>5 DEF Booted
<1>7. SlotInv
    BY DEF Init, SlotInv
<1>8. \A r \in Requests : MintInv(r) /\ ServeInv(r)
    BY DEF Init, MintInv, ServeInv, Issued
<1>9. \A k \in Keys : StoredInv(k) /\ SignInv(k)
    BY DEF Init, StoredInv, SignInv
<1>10. QED
    BY <1>3, <1>6, <1>7, <1>8, <1>9 DEF IInv

(* An AllocateIndex of request r keeps the table well formed and takes a   *)
(* slot no JWS has, while every slot that is taken stays on record.        *)
LEMMA AllocFacts ==
    ASSUME IInv, NEW r \in Requests, CanAllocate(epochs),
           epochs' = Allocated(epochs, iat[r] + CredLifetime)
    PROVE  /\ Booted(epochs') /\ Grows(epochs, epochs')
           /\ AllocEpoch(epochs) \in EpochNumbers /\ AllocIdx(epochs) \in Nat
           /\ epochs[AllocEpoch(epochs)].next <= AllocIdx(epochs)
           /\ AllocIdx(epochs) < epochs'[AllocEpoch(epochs)].next
           /\ iat[r] + CredLifetime <= epochs'[AllocEpoch(epochs)].lastExp
           /\ iat[r] + CredLifetime \in Nat
<1>1. iat[r] + CredLifetime \in Nat
    BY IssuerAssumption DEF IInv, TypeOK
<1>2. Booted(epochs)
    BY DEF IInv
<1>3. QED
    BY <1>1, <1>2, AllocateKeepsTable

(* What is on record stays on record while the table only grows.           *)
LEMMA RecordKept ==
    ASSUME IInv, Booted(epochs'), Grows(epochs, epochs'), NEW j \in Jws, OnRecord(j)
    PROVE  OnRecord(j)'
<1>1. /\ j.epoch \in EpochNumbers /\ j.idx \in Nat /\ j.exp \in Nat
      /\ epochs[j.epoch] \in Row /\ epochs'[j.epoch] \in Row
    BY DEF Jws, IInv, Booted, Table
<1>2. QED
    BY <1>1 DEF OnRecord, Grows, Row

(* A request moves on without minting or storing anything: only what is    *)
(* known of that request needs to be shown again.                          *)
LEMMA LocalStep ==
    ASSUME IInv, NEW r \in Requests, TypeOK',
           UNCHANGED <<epochs, credentials, key, minted, signedOff>>,
           \A s \in Requests \ {r} : pc'[s] = pc[s] /\ resp'[s] = resp[s],
           MintInv(r)', ServeInv(r)',
           \A k \in Keys : pendings'[k] = "approved" => pendings[k] = "approved"
    PROVE  IInv'
<1>1. Booted(epochs)' /\ SlotInv'
    BY DEF IInv, SlotInv, SameSlot
<1>2. ASSUME NEW s \in Requests PROVE MintInv(s)' /\ ServeInv(s)'
    BY DEF IInv, MintInv, ServeInv, OnRecord, Issued
<1>3. ASSUME NEW k \in Keys PROVE StoredInv(k)' /\ SignInv(k)'
    BY DEF IInv, StoredInv, SignInv
<1>4. QED
    BY <1>1, <1>2, <1>3 DEF IInv

-----------------------------------------------------------------------------
(* Steps of a request that neither mint nor store.                         *)

(* Answering a request keeps the types of pc and resp.                     *)
LEMMA RespondTypes ==
    ASSUME TypeOK, NEW r \in Requests, NEW kind \in Kinds, NEW jws \in Jws \cup {NoJws},
           RespondJws(r, kind, jws)
    PROVE  /\ pc' \in [Requests -> {"idle", "lookup", "authz", "hook", "park", "alloc",
                                    "put", "reread", "done"}]
           /\ resp' \in [Requests -> [kind : Kinds, jws : Jws \cup {NoJws}]]
<1>1. [kind |-> kind, jws |-> jws] \in [kind : Kinds, jws : Jws \cup {NoJws}]
    OBVIOUS
<1>2. QED
    BY <1>1 DEF TypeOK, RespondJws

(* The outcomes a handler answers with.                                    *)
LEMMA KindTypes ==
    /\ "issued" \in Kinds /\ "pending" \in Kinds /\ "rejected" \in Kinds
    /\ "refused" \in Kinds /\ "error" \in Kinds
    /\ NoJws \in Jws \cup {NoJws}
BY DEF Kinds

(* Reading the CSR picks its exp or refuses it; nothing is minted yet.     *)
LEMMA PostInv ==
    ASSUME IInv, NEW r \in Requests, Post(r) PROVE IInv'
<1>1. TypeOK'
  <2>1. \A e \in now..(now + CsrLifetime) : e \in Nat
      BY IssuerAssumption DEF IInv, TypeOK
  <2>2. CASE Goto(r, "lookup") /\ \E e \in now..(now + CsrLifetime) :
                                     csrExp' = [csrExp EXCEPT ![r] = e]
      BY <2>1, <2>2 DEF Post, Goto, IInv, TypeOK, store
  <2>3. CASE Respond(r, "refused") /\ UNCHANGED csrExp
      BY <2>3, RespondTypes, KindTypes DEF Post, Respond, IInv, TypeOK, store
  <2>4. QED
      BY <2>2, <2>3 DEF Post
<1>2. MintInv(r)' /\ ServeInv(r)'
    BY DEF Post, Goto, Respond, RespondJws, IInv, TypeOK, store, MintInv, ServeInv,
           OnRecord, Issued
<1>3. QED
    BY <1>1, <1>2, LocalStep DEF Post, Goto, Respond, RespondJws, store, IInv, TypeOK

(* GetByIdempotencyKey serves the stored row or goes on.                   *)
LEMMA LookupInv ==
    ASSUME IInv, NEW r \in Requests, LookupCredential(r) PROVE IInv'
<1>1. TypeOK'
  <2>1. credentials[key[r]] \in Jws \cup {NoJws}
      BY DEF IInv, TypeOK
  <2>2. CASE RespondJws(r, "issued", credentials[key[r]])
      BY <2>1, <2>2, RespondTypes, KindTypes DEF LookupCredential, IInv, TypeOK, store, local
  <2>3. CASE Goto(r, "authz")
      BY <2>3 DEF LookupCredential, Goto, IInv, TypeOK, store, local
  <2>4. QED
      BY <2>2, <2>3 DEF LookupCredential
<1>2. MintInv(r)' /\ ServeInv(r)'
    BY DEF LookupCredential, Goto, RespondJws, IInv, TypeOK, store, local, MintInv,
           ServeInv, OnRecord, Issued
<1>3. QED
    BY <1>1, <1>2, LocalStep DEF LookupCredential, Goto, RespondJws, store, local, IInv, TypeOK

(* The authorization of the issuer changes nothing but the request.        *)
LEMMA AuthorizeInv ==
    ASSUME IInv, NEW r \in Requests, Authorize(r) PROVE IInv'
<1>1. TypeOK'
    BY DEF Authorize, Goto, Respond, RespondJws, IInv, TypeOK, store, local, Kinds
<1>2. MintInv(r)' /\ ServeInv(r)'
    BY DEF Authorize, Goto, Respond, RespondJws, IInv, TypeOK, store, local, MintInv,
           ServeInv, OnRecord, Issued
<1>3. QED
    BY <1>1, <1>2, LocalStep
       DEF Authorize, Goto, Respond, RespondJws, store, local, IInv, TypeOK

(* The dev hook approves; only the queue hook needs an operator.           *)
LEMMA EvaluateDevInv ==
    ASSUME IInv, NEW r \in Requests, EvaluateDev(r) PROVE IInv'
<1>1. TypeOK'
    BY DEF EvaluateDev, BeginApprove, Goto, IInv, TypeOK, store
<1>2. MintInv(r)' /\ ServeInv(r)'
    BY DEF EvaluateDev, BeginApprove, Goto, IInv, TypeOK, store, MintInv, ServeInv,
           OnRecord, Issued
<1>3. QED
    BY <1>1, <1>2, LocalStep DEF EvaluateDev, BeginApprove, Goto, store, IInv, TypeOK

(* The queue hook lets a request mint only behind an approved ceremony,    *)
(* and an approved ceremony has an operator behind it.                     *)
LEMMA EvaluateQueueInv ==
    ASSUME IInv, NEW r \in Requests, EvaluateQueue(r) PROVE IInv'
<1>1. TypeOK'
  <2>1. CASE BeginApprove(r)
      BY <2>1 DEF EvaluateQueue, BeginApprove, Goto, IInv, TypeOK, store
  <2>2. CASE Goto(r, "park") /\ UNCHANGED iat
      BY <2>2 DEF EvaluateQueue, Goto, IInv, TypeOK, store
  <2>3. ASSUME NEW kind \in {"rejected", "pending"}, Respond(r, kind), UNCHANGED iat
        PROVE  TypeOK'
      BY <2>3, RespondTypes, KindTypes DEF EvaluateQueue, Respond, IInv, TypeOK, store
  <2>4. QED
      BY <2>1, <2>2, <2>3 DEF EvaluateQueue
<1>2. MintInv(r)' /\ ServeInv(r)'
  <2>1. key[r] \in Keys
      BY DEF IInv, TypeOK
  <2>2. pendings[key[r]] = "approved" => key[r] \in signedOff
      BY <2>1 DEF IInv, SignInv
  <2>3. /\ pendings[key[r]] \in {"none", "new", "approved", "rejected"}
        /\ pendings[key[r]] # "none" /\ DecisionForPending[pendings[key[r]]] = "approve" =>
              pendings[key[r]] = "approved"
      BY <2>1 DEF IInv, TypeOK, DecisionForPending
  <2>4. QED
      BY <2>1, <2>2, <2>3 DEF EvaluateQueue, BeginApprove, Goto, Respond, RespondJws, IInv, TypeOK,
                        store, MintInv, ServeInv, OnRecord, Issued
<1>3. QED
    BY <1>1, <1>2, LocalStep
       DEF EvaluateQueue, BeginApprove, Goto, Respond, RespondJws, store, IInv, TypeOK

(* PutPending adds a row in state new, which approves nothing.             *)
LEMMA ParkInv ==
    ASSUME IInv, NEW r \in Requests, Park(r) PROVE IInv'
<1>1. TypeOK'
  <2>1. /\ pendings' \in [Keys -> {"none", "new", "approved", "rejected"}]
        /\ expiry' \in [Keys -> Nat]
      BY DEF Park, ParkRow, IInv, TypeOK
  <2>2. ASSUME NEW kind \in {"pending", "error"}, Respond(r, kind) PROVE TypeOK'
      BY <2>1, <2>2, RespondTypes, KindTypes DEF Park, Respond, IInv, TypeOK, local
  <2>3. QED
      BY <2>2 DEF Park
<1>2. MintInv(r)' /\ ServeInv(r)'
    BY DEF Park, Respond, RespondJws, IInv, TypeOK, local, MintInv, ServeInv, OnRecord, Issued
<1>3. \A k \in Keys : pendings'[k] = "approved" => pendings[k] = "approved"
    BY DEF Park, ParkRow, IInv, TypeOK
<1>4. QED
    BY <1>1, <1>2, <1>3, LocalStep DEF Park, Respond, RespondJws, local, IInv, TypeOK

(* After a failed PutCredential the request serves the stored row or none. *)
LEMMA RereadInv ==
    ASSUME IInv, NEW r \in Requests, RereadCredential(r) PROVE IInv'
<1>1. TypeOK'
  <2>1. credentials[key[r]] \in Jws \cup {NoJws}
      BY DEF IInv, TypeOK
  <2>2. CASE RespondJws(r, "issued", credentials[key[r]])
      BY <2>1, <2>2, RespondTypes, KindTypes DEF RereadCredential, IInv, TypeOK, store, local
  <2>3. CASE Respond(r, "error")
      BY <2>3, RespondTypes, KindTypes DEF RereadCredential, Respond, IInv, TypeOK, store, local
  <2>4. QED
      BY <2>2, <2>3 DEF RereadCredential
<1>2. MintInv(r)' /\ ServeInv(r)'
    BY DEF RereadCredential, Respond, RespondJws, IInv, TypeOK, store, local, MintInv,
           ServeInv, OnRecord, Issued
<1>3. QED
    BY <1>1, <1>2, LocalStep
       DEF RereadCredential, Respond, RespondJws, store, local, IInv, TypeOK

-----------------------------------------------------------------------------
(* Steps that change the epochs or the credentials.                        *)

(* The epochs grow while nothing is minted or stored: an AllocateIndex     *)
(* whose answer is lost, or a rotation.                                    *)
LEMMA EpochsGrow ==
    ASSUME IInv, TypeOK', Booted(epochs'), Grows(epochs, epochs'),
           UNCHANGED <<credentials, key, minted, signedOff, pendings>>,
           \A s \in Requests :
              \/ pc'[s] = pc[s] /\ resp'[s] = resp[s]
              \/ pc'[s] = "done" /\ ~Issued(s)'
    PROVE  IInv'
<1>1. SlotInv'
    BY DEF IInv, SlotInv, SameSlot
<1>2. ASSUME NEW s \in Requests PROVE MintInv(s)' /\ ServeInv(s)'
  <2>1. minted[s] # NoJws => OnRecord(minted[s])'
    <3> SUFFICES ASSUME minted[s] # NoJws PROVE OnRecord(minted[s])'
        OBVIOUS
    <3>1. minted[s] \in Jws /\ OnRecord(minted[s])
        BY DEF IInv, TypeOK, MintInv
    <3>2. QED
        BY <3>1, RecordKept DEF OnRecord
  <2>2. MintInv(s)'
      BY <2>1 DEF IInv, MintInv
  <2>3. ServeInv(s)'
      BY DEF IInv, ServeInv, Issued
  <2>4. QED
      BY <2>2, <2>3
<1>3. ASSUME NEW k \in Keys PROVE StoredInv(k)' /\ SignInv(k)'
    BY DEF IInv, StoredInv, SignInv
<1>4. QED
    BY <1>1, <1>2, <1>3 DEF IInv

(* AllocateIndex and Mint: the new JWS has a slot that no other JWS has.   *)
LEMMA AllocateInv ==
    ASSUME IInv, NEW r \in Requests, AllocateIndex(r) PROVE IInv'
<1> DEFINE e == AllocEpoch(epochs)
           i == AllocIdx(epochs)
           x == iat[r] + CredLifetime
           j == [key |-> key[r], epoch |-> e, idx |-> i, exp |-> x]
<1>1. /\ Booted(epochs') /\ Grows(epochs, epochs') /\ e \in EpochNumbers /\ i \in Nat
      /\ epochs[e].next <= i /\ i < epochs'[e].next /\ x <= epochs'[e].lastExp /\ x \in Nat
    BY AllocFacts DEF AllocateIndex
<1>2. /\ pc[r] = "alloc" /\ minted[r] = NoJws /\ key[r] \in Keys
      /\ minted' = [minted EXCEPT ![r] = j] /\ j \in Jws
      /\ pc' = [pc EXCEPT ![r] = "put"] /\ resp' = resp
    BY <1>1 DEF AllocateIndex, Goto, IInv, TypeOK, MintInv, Jws
<1>3. TypeOK'
    BY <1>1, <1>2 DEF AllocateIndex, IInv, TypeOK, Booted
<1>4. j # NoJws
    BY <1>2, IssuerAssumption
<1>5. ASSUME NEW s \in Requests, s # r, minted[s] # NoJws
      PROVE  minted'[s] = minted[s] /\ ~SameSlot(minted[s], j) /\ OnRecord(minted[s])'
  <2>1. minted[s] \in Jws /\ OnRecord(minted[s])
      BY <1>5 DEF IInv, TypeOK, MintInv
  <2>2. minted[s].epoch \in EpochNumbers /\ minted[s].idx \in Nat
      BY <2>1 DEF Jws
  <2>3. epochs[e].next \in Nat
      BY <1>1 DEF IInv, TypeOK, Table, Row
  <2>4. ~SameSlot(minted[s], j)
      BY <1>1, <2>1, <2>2, <2>3 DEF OnRecord, SameSlot
  <2>5. minted'[s] = minted[s]
      BY <1>2, <1>5 DEF IInv, TypeOK
  <2>6. OnRecord(minted[s])'
    <3>1. ASSUME NEW l \in Jws, OnRecord(l) PROVE OnRecord(l)'
        BY <1>1, <3>1, RecordKept
    <3>2. QED
        BY <2>1, <2>5, <3>1 DEF OnRecord
  <2>7. QED
      BY <2>4, <2>5, <2>6
<1>6. minted'[r] = j
    BY <1>2 DEF IInv, TypeOK
<1>7. SlotInv'
  <2> SUFFICES ASSUME NEW s \in Requests, NEW t \in Requests, s # t,
                      minted'[s] # NoJws, minted'[t] # NoJws
               PROVE  ~SameSlot(minted'[s], minted'[t])
      BY DEF SlotInv, SameSlot
  <2>1. CASE s = r
      BY <1>2, <1>5, <1>6, <2>1 DEF SameSlot, IInv, TypeOK
  <2>2. CASE t = r
      BY <1>2, <1>5, <1>6, <2>2 DEF SameSlot, IInv, TypeOK
  <2>3. CASE s # r /\ t # r
      BY <1>2, <2>3 DEF IInv, TypeOK, SlotInv
  <2>4. QED
      BY <2>1, <2>2, <2>3
<1>8. ASSUME NEW s \in Requests PROVE MintInv(s)' /\ ServeInv(s)'
  <2>1. ServeInv(s)'
      BY <1>2 DEF AllocateIndex, IInv, ServeInv, Issued
  <2>2. CASE s = r
    <3>1. OnRecord(minted[s])' /\ minted'[s].key = key[r]
        BY <1>1, <1>6, <2>2 DEF OnRecord
    <3>2. QED
        BY <1>2, <1>4, <1>6, <2>1, <2>2, <3>1 DEF AllocateIndex, IInv, TypeOK, MintInv
  <2>3. CASE s # r
    <3>1. minted'[s] = minted[s] /\ pc'[s] = pc[s]
        BY <1>2, <2>3 DEF IInv, TypeOK
    <3>2. minted[s] # NoJws => OnRecord(minted[s])'
        BY <1>5, <2>3
    <3>3. QED
        BY <2>1, <3>1, <3>2 DEF AllocateIndex, IInv, MintInv
  <2>4. QED
      BY <2>2, <2>3
<1>9. ASSUME NEW k \in Keys PROVE StoredInv(k)' /\ SignInv(k)'
  <2>1. \A s \in Requests : minted[s] # NoJws => minted'[s] = minted[s]
      BY <1>2 DEF IInv, TypeOK
  <2>2. QED
      BY <2>1 DEF AllocateIndex, IInv, StoredInv, SignInv
<1>10. QED
    BY <1>1, <1>3, <1>7, <1>8, <1>9 DEF IInv

(* A row is inserted in issuer_credentials under a key that had none: what *)
(* was served before is still what is stored.                              *)
LEMMA StoreCredential ==
    ASSUME IInv, NEW r \in Requests, pc[r] = "put", TypeOK',
           credentials[key[r]] = NoJws,
           credentials' = [credentials EXCEPT ![key[r]] = minted[r]],
           UNCHANGED <<epochs, key, minted, signedOff, pendings>>,
           \A s \in Requests \ {r} : pc'[s] = pc[s] /\ resp'[s] = resp[s],
           MintInv(r)', ServeInv(r)'
    PROVE  IInv'
<1>1. key[r] \in Keys /\ minted[r] # NoJws
    BY DEF IInv, TypeOK, MintInv
<1>2. /\ credentials'[key[r]] = minted[r]
      /\ \A k \in Keys : k # key[r] => credentials'[k] = credentials[k]
    BY <1>1 DEF IInv, TypeOK
<1>3. Booted(epochs)' /\ SlotInv'
    BY DEF IInv, SlotInv, SameSlot
<1>4. ASSUME NEW s \in Requests, s # r PROVE MintInv(s)' /\ ServeInv(s)'
  <2>1. MintInv(s)'
      BY <1>4 DEF IInv, MintInv, OnRecord
  <2>2. ServeInv(s)'
      BY <1>2, <1>4 DEF IInv, TypeOK, ServeInv, Issued
  <2>3. QED
      BY <2>1, <2>2
<1>5. ASSUME NEW k \in Keys PROVE StoredInv(k)' /\ SignInv(k)'
  <2>1. CASE k = key[r]
      BY <1>1, <1>2, <2>1 DEF IInv, StoredInv, SignInv, MintInv
  <2>2. CASE k # key[r]
      BY <1>2, <2>2 DEF IInv, StoredInv, SignInv
  <2>3. QED
      BY <2>1, <2>2
<1>6. QED
    BY <1>3, <1>4, <1>5 DEF IInv

(* PutCredential stores and serves the minted JWS, or finds the key taken. *)
LEMMA PutInv ==
    ASSUME IInv, NEW r \in Requests, PutCredential(r) PROVE IInv'
<1>1. /\ pc[r] = "put" /\ minted[r] # NoJws /\ minted[r] \in Jws /\ key[r] \in Keys
      /\ UNCHANGED <<epochs, pendings, expiry, revoked, now, key, csrExp, iat, minted,
                     signedOff>>
    BY DEF PutCredential, local, IInv, TypeOK, MintInv
<1>2. CASE /\ credentials[key[r]] = NoJws
           /\ credentials' = [credentials EXCEPT ![key[r]] = minted[r]]
           /\ RespondJws(r, "issued", minted[r])
  <2>1. TypeOK'
      BY <1>1, <1>2, RespondTypes, KindTypes DEF IInv, TypeOK
  <2>2. MintInv(r)'
      BY <1>1, <1>2 DEF IInv, TypeOK, MintInv, OnRecord, RespondJws
  <2>3. ServeInv(r)'
    <3>1. credentials'[key[r]] = minted[r] /\ resp'[r].jws = minted[r]
        BY <1>1, <1>2 DEF IInv, TypeOK, RespondJws
    <3>2. QED
        BY <1>1, <3>1 DEF ServeInv
  <2>4. QED
      BY <1>1, <1>2, <2>1, <2>2, <2>3, StoreCredential DEF RespondJws, IInv, TypeOK
<1>3. CASE Goto(r, "reread") /\ UNCHANGED credentials
  <2>1. TypeOK'
      BY <1>1, <1>3 DEF Goto, IInv, TypeOK
  <2>2. MintInv(r)' /\ ServeInv(r)'
      BY <1>1, <1>3 DEF Goto, IInv, TypeOK, MintInv, ServeInv, OnRecord, Issued
  <2>3. QED
      BY <1>1, <1>3, <2>1, <2>2, LocalStep DEF Goto, IInv, TypeOK
<1>4. QED
    BY <1>2, <1>3 DEF PutCredential

(* A store call that fails, with or without effect, keeps the invariant:   *)
(* at worst an index is used up or a credential waits to be served.        *)
LEMMA StoreFailsInv ==
    ASSUME IInv, NEW r \in Requests, StoreFails(r) PROVE IInv'
<1>1. UNCHANGED <<now, key, csrExp, iat, signedOff>> /\ key[r] \in Keys
    BY DEF StoreFails, IInv, TypeOK
<1>2. ASSUME Respond(r, "error")
      PROVE  /\ pc'[r] = "done" /\ ~Issued(r)'
             /\ \A s \in Requests \ {r} : pc'[s] = pc[s] /\ resp'[s] = resp[s]
    BY <1>2 DEF Respond, RespondJws, Issued, IInv, TypeOK
<1>3. CASE Respond(r, "error") /\ UNCHANGED <<store, minted>>
  <2>1. TypeOK'
      BY <1>1, <1>3, RespondTypes, KindTypes DEF Respond, store, IInv, TypeOK
  <2>2. MintInv(r)' /\ ServeInv(r)'
      BY <1>1, <1>2, <1>3 DEF store, IInv, MintInv, ServeInv, OnRecord
  <2>3. QED
      BY <1>1, <1>2, <1>3, <2>1, <2>2, LocalStep DEF store
<1>4. CASE /\ ParkRow(r) /\ Respond(r, "error")
           /\ UNCHANGED <<epochs, credentials, revoked, minted>>
  <2>1. /\ pendings' \in [Keys -> {"none", "new", "approved", "rejected"}]
        /\ expiry' \in [Keys -> Nat]
        /\ \A k \in Keys : pendings'[k] = "approved" => pendings[k] = "approved"
      BY <1>1, <1>4 DEF ParkRow, IInv, TypeOK
  <2>2. TypeOK'
      BY <1>1, <1>4, <2>1, RespondTypes, KindTypes DEF Respond, IInv, TypeOK
  <2>3. MintInv(r)' /\ ServeInv(r)'
      BY <1>1, <1>2, <1>4 DEF IInv, MintInv, ServeInv, OnRecord
  <2>4. QED
      BY <1>1, <1>2, <1>4, <2>1, <2>2, <2>3, LocalStep
<1>5. CASE /\ CanAllocate(epochs) /\ epochs' = Allocated(epochs, iat[r] + CredLifetime)
           /\ Respond(r, "error")
           /\ UNCHANGED <<credentials, pendings, expiry, revoked, minted>>
  <2>1. Booted(epochs') /\ Grows(epochs, epochs')
      BY <1>5, AllocFacts
  <2>2. TypeOK'
      BY <1>1, <1>5, <2>1, RespondTypes, KindTypes DEF Respond, IInv, TypeOK, Booted
  <2>3. QED
      BY <1>1, <1>2, <1>5, <2>1, <2>2, EpochsGrow
<1>6. CASE /\ pc[r] = "put" /\ Goto(r, "reread")
           /\ \/ credentials' = credentials
              \/ /\ credentials[key[r]] = NoJws
                 /\ credentials' = [credentials EXCEPT ![key[r]] = minted[r]]
           /\ UNCHANGED <<epochs, pendings, expiry, revoked, minted>>
  <2>1. TypeOK'
      BY <1>1, <1>6 DEF Goto, IInv, TypeOK
  <2>2. MintInv(r)'
      BY <1>1, <1>6 DEF Goto, IInv, TypeOK, MintInv, OnRecord
  <2>3. ServeInv(r)'
      BY <1>1, <1>6 DEF Goto, IInv, TypeOK, ServeInv, Issued
  <2>4. \A s \in Requests \ {r} : pc'[s] = pc[s] /\ resp'[s] = resp[s]
      BY <1>6 DEF Goto, IInv, TypeOK
  <2>5. QED
      BY <1>1, <1>6, <2>1, <2>2, <2>3, <2>4, LocalStep, StoreCredential
<1>7. QED
    BY <1>3, <1>4, <1>5, <1>6 DEF StoreFails

-----------------------------------------------------------------------------
(* The admin commands and the clock leave requests and credentials alone.  *)
LEMMA AdminInv ==
    ASSUME IInv, Admin \/ Tick PROVE IInv'
<1>1. ASSUME NEW k \in Keys, Approve(k) PROVE IInv'
  <2>1. TypeOK' /\ Booted(epochs)' /\ SlotInv'
      BY <1>1 DEF Approve, local, IInv, TypeOK, SlotInv, SameSlot
  <2>2. ASSUME NEW s \in Requests PROVE MintInv(s)' /\ ServeInv(s)'
      BY <1>1 DEF Approve, local, IInv, MintInv, ServeInv, OnRecord, Issued
  <2>3. ASSUME NEW l \in Keys PROVE StoredInv(l)' /\ SignInv(l)'
      BY <1>1 DEF Approve, local, IInv, TypeOK, StoredInv, SignInv
  <2>4. QED
      BY <2>1, <2>2, <2>3 DEF IInv
<1>2. ASSUME NEW k \in Keys, Reject(k) PROVE IInv'
  <2>1. TypeOK' /\ Booted(epochs)' /\ SlotInv'
      BY <1>2 DEF Reject, local, IInv, TypeOK, SlotInv, SameSlot
  <2>2. ASSUME NEW s \in Requests PROVE MintInv(s)' /\ ServeInv(s)'
      BY <1>2 DEF Reject, local, IInv, MintInv, ServeInv, OnRecord, Issued
  <2>3. ASSUME NEW l \in Keys PROVE StoredInv(l)' /\ SignInv(l)'
      BY <1>2 DEF Reject, local, IInv, TypeOK, StoredInv, SignInv
  <2>4. QED
      BY <2>1, <2>2, <2>3 DEF IInv
<1>3. ASSUME NEW e \in EpochNumbers, NEW i \in 0..(epochs[e].max - 1), SetRevoked(e, i)
      PROVE  IInv'
  <2>1. i \in Nat
      BY DEF IInv, TypeOK, Table, Row
  <2>2. TypeOK'
      BY <1>3, <2>1 DEF SetRevoked, local, IInv, TypeOK
  <2>3. Grows(epochs, epochs')
      BY <1>3 DEF SetRevoked, Grows, IInv, TypeOK, Table, Row
  <2>4. QED
      BY <1>3, <2>2, <2>3, EpochsGrow DEF SetRevoked, local, IInv
<1>4. ASSUME RotateEpoch PROVE IInv'
  <2>1. Booted(epochs') /\ Grows(epochs, epochs')
      BY <1>4, RotateKeepsTable, IssuerAssumption DEF RotateEpoch, IInv
  <2>2. TypeOK'
      BY <1>4, <2>1 DEF RotateEpoch, local, IInv, TypeOK, Booted
  <2>3. QED
      BY <1>4, <2>1, <2>2, EpochsGrow DEF RotateEpoch, local
<1>5. ASSUME Tick PROVE IInv'
  <2>1. TypeOK'
      BY <1>5 DEF Tick, store, local, IInv, TypeOK
  <2>2. Grows(epochs, epochs')
      BY <1>5 DEF Tick, store, Grows, IInv, TypeOK, Table, Row
  <2>3. QED
      BY <1>5, <2>1, <2>2, EpochsGrow DEF Tick, store, local, IInv
<1>6. QED
    BY <1>1, <1>2, <1>3, <1>4, <1>5 DEF Admin

(* Every step of the server, of the admin and of the clock keeps IInv.     *)
LEMMA NextInv == IInv /\ [Next]_vars => IInv'
<1> SUFFICES ASSUME IInv, [Next]_vars PROVE IInv'
    OBVIOUS
<1>1. CASE UNCHANGED vars
  <2>1. TypeOK'
      BY <1>1 DEF vars, store, local, IInv, TypeOK
  <2>2. Grows(epochs, epochs')
      BY <1>1 DEF vars, store, Grows, IInv, TypeOK, Table, Row
  <2>3. QED
      BY <1>1, <2>1, <2>2, EpochsGrow DEF vars, store, local, IInv
<1>2. ASSUME NEW r \in Requests, Handle(r) PROVE IInv'
    BY <1>2, LookupInv, AuthorizeInv, EvaluateDevInv, EvaluateQueueInv, ParkInv,
       AllocateInv, PutInv, RereadInv DEF Handle
<1>3. ASSUME NEW r \in Requests, Post(r) \/ StoreFails(r) PROVE IInv'
    BY <1>3, PostInv, StoreFailsInv
<1>4. QED
    BY <1>1, <1>2, <1>3, AdminInv DEF Next, Finished

-----------------------------------------------------------------------------
(* The tables and the requests keep their types, whatever the handlers,    *)
(* the admin commands and the store failures do.                           *)
THEOREM TypeCorrect == Spec => []TypeOK
<1>1. IInv => TypeOK
    BY DEF IInv
<1>2. QED
    BY <1>1, InitInv, NextInv, PTL DEF Spec

(* Whatever 200s concurrent and repeated POSTs of one CSR get, they carry  *)
(* one and the same JWS.                                                   *)
THEOREM IssueIsIdempotent == Spec => []IdempotentIssue
<1>1. IInv => IdempotentIssue
    BY DEF IInv, ServeInv, IdempotentIssue
<1>2. QED
    BY <1>1, InitInv, NextInv, PTL DEF Spec

(* serveIssue and handleApprove serve only what issuer_credentials holds,  *)
(* and it holds it for good.                                               *)
THEOREM ServedStaysStored == Spec => []ServedIsStored
<1>1. IInv => ServedIsStored
    BY DEF IInv, ServeInv, ServedIsStored
<1>2. QED
    BY <1>1, InitInv, NextInv, PTL DEF Spec

(* No two credentials share a bit of a status list, through any number of  *)
(* rolls, rotations and lost answers of AllocateIndex.                     *)
THEOREM SlotsAreExclusive == Spec => []OneCredentialPerIndex
<1>1. IInv => OneCredentialPerIndex
  <2> SUFFICES ASSUME IInv, NEW k \in Keys, NEW l \in Keys, k # l,
                      credentials[k] # NoJws, credentials[l] # NoJws
               PROVE  ~SameSlot(credentials[k], credentials[l])
      BY DEF OneCredentialPerIndex, SameSlot
  <2>1. PICK r \in Requests : key[r] = k /\ minted[r] = credentials[k]
      BY DEF IInv, StoredInv
  <2>2. PICK s \in Requests : key[s] = l /\ minted[s] = credentials[l]
      BY DEF IInv, StoredInv
  <2>3. QED
      BY <2>1, <2>2 DEF IInv, SlotInv
<1>2. QED
    BY <1>1, InitInv, NextInv, PTL DEF Spec

(* serveStatus always has a bit for every stored credential, and the epoch *)
(* is on record as needed until the credential expires.                    *)
THEOREM StatusAlwaysCovers == Spec => []StatusCoversIssued
<1>1. IInv => StatusCoversIssued
  <2> SUFFICES ASSUME IInv, NEW k \in Keys, credentials[k] # NoJws
               PROVE  /\ epochs[credentials[k].epoch] # Absent
                      /\ credentials[k].idx \in DOMAIN StatusBits(credentials[k].epoch)
                      /\ credentials[k].exp <= epochs[credentials[k].epoch].lastExp
      BY DEF StatusCoversIssued
  <2>1. PICK r \in Requests : key[r] = k /\ minted[r] = credentials[k]
      BY DEF IInv, StoredInv
  <2> DEFINE c == credentials[k]
             max == epochs[c.epoch].max
  <2>2. c \in Jws /\ OnRecord(c)
      BY <2>1 DEF IInv, TypeOK, MintInv
  <2>3. c.epoch \in EpochNumbers /\ c.idx \in Nat
      BY <2>2 DEF Jws
  <2>4. epochs[c.epoch].next \in Nat /\ max \in Nat /\ epochs[c.epoch].next <= max
      BY <2>3 DEF IInv, Booted, Table, Row
  <2>5. c.idx < epochs[c.epoch].next
      BY <2>2 DEF OnRecord
  <2>6. max <= 8 * ((max + 7) \div 8)
      BY <2>4
  <2>7. c.idx \in 0..(8 * ((max + 7) \div 8) - 1)
      BY <2>3, <2>4, <2>5, <2>6
  <2>8. epochs[c.epoch] # Absent
      BY <2>3, <2>5 DEF Absent
  <2>9. QED
      BY <2>2, <2>7, <2>8 DEF StatusBits, OnRecord
<1>2. QED
    BY <1>1, InitInv, NextInv, PTL DEF Spec

(* With the queue hook every stored credential has an operator's approval  *)
(* behind it, whichever approvals, rejections and re-POSTs raced.          *)
THEOREM NothingMintedUnsigned == Spec => []MintedOnlyIfSignedOff
<1>1. IInv => MintedOnlyIfSignedOff
    BY DEF IInv, SignInv, MintedOnlyIfSignedOff
<1>2. QED
    BY <1>1, InitInv, NextInv, PTL DEF Spec
=============================================================================
