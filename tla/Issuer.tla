------------------------------- MODULE Issuer -------------------------------
(***************************************************************************)
(* The Issuer server: serveIssue and handleApprove for concurrent CSR      *)
(* POSTs, the dev and queue hooks, the store's tables, and the admin CLI,  *)
(* which runs as processes of its own against the same store.              *)
(*                                                                         *)
(* A request is one run of the handler.  Each store call is one action, so *)
(* any other request or admin command may run between two calls of a       *)
(* request.  AllocateIndex and RotateEpoch are the atomic operations that  *)
(* PgEpochs implements.  A CSR is known by its idempotency key, the hash   *)
(* of (iss, aud, req); the handle of a parked ceremony is random and is    *)
(* stored under a UNIQUE idempotency key, so the key stands for it too.    *)
(***************************************************************************)
EXTENDS EpochTable, FiniteSets

CONSTANTS Requests,        \* runs of the handler
          FaultyRequests,  \* requests that die or whose store calls may fail, also
                           \* as PgEpochs shows AllocateIndex to fail at a roll
          Keys,            \* idempotency keys
          Hook,            \* "dev" or "queue"
          Ceilings,        \* values of admin rotate-epoch --max-indices
          CsrLifetime,     \* longest time from a POST to the exp of its CSR
          CredLifetime,    \* 7 days
          TimeBound,       \* bound: the clock stops here
          RotateBound,     \* bound: the admin rotates no later epoch
          RevokeBound,     \* bound: the admin revokes no more indices
          NoJws            \* "no row in issuer_credentials"

Jws == [key : Keys, epoch : EpochNumbers, idx : Nat, exp : Nat]

ASSUME IssuerAssumption ==
    /\ FaultyRequests \subseteq Requests
    /\ Hook \in {"dev", "queue"}
    /\ Ceilings \subseteq Nat
    /\ CsrLifetime \in Nat /\ CredLifetime \in Nat /\ TimeBound \in Nat
    /\ RotateBound \in Nat /\ RevokeBound \in Nat
    /\ NoJws \notin Jws

VARIABLES epochs,       \* issuer_epochs
          credentials,  \* issuer_credentials: key -> JWS or NoJws
          pendings,     \* issuer_pendings: key -> status, "none" if no row
          expiry,       \* issuer_pendings: key -> ceremony_expiry
          revoked,      \* issuer_revocations: set of <<epoch, idx>>
          now,          \* the clock
          pc,           \* the call each request makes next
          key,          \* the idempotency key of its CSR
          csrExp,       \* the exp of its CSR
          iat,          \* the time handleApprove read
          minted,       \* the JWS handleApprove minted
          resp,         \* the answer: its kind and, for a 200, the JWS
          signedOff     \* history: keys an operator has approved

store == <<epochs, credentials, pendings, expiry, revoked>>
local == <<key, csrExp, iat, minted>>
vars == <<store, now, pc, local, resp, signedOff>>

Kinds == {"none", "issued", "pending", "rejected", "refused", "error"}

Init ==
    /\ epochs = [n \in EpochNumbers |-> IF n = 1 THEN OpenRow(MaxIndices) ELSE Absent]
    /\ credentials = [k \in Keys |-> NoJws]
    /\ pendings = [k \in Keys |-> "none"]
    /\ expiry = [k \in Keys |-> 0]
    /\ revoked = {}
    /\ now = 0
    /\ pc = [r \in Requests |-> "idle"]
    /\ key \in [Requests -> Keys]
    /\ csrExp = [r \in Requests |-> 0]
    /\ iat = [r \in Requests |-> 0]
    /\ minted = [r \in Requests |-> NoJws]
    /\ resp = [r \in Requests |-> [kind |-> "none", jws |-> NoJws]]
    /\ signedOff = {}

-----------------------------------------------------------------------------
Goto(r, label) == pc' = [pc EXCEPT ![r] = label] /\ UNCHANGED resp

RespondJws(r, kind, jws) ==
    /\ pc' = [pc EXCEPT ![r] = "done"]
    /\ resp' = [resp EXCEPT ![r] = [kind |-> kind, jws |-> jws]]

Respond(r, kind) == RespondJws(r, kind, NoJws)

\* The body is read and the CSR parsed and verified; only its exp and its
\* key matter afterwards.
Post(r) ==
    /\ pc[r] = "idle"
    /\ \/ /\ Goto(r, "lookup")
          /\ \E e \in now..(now + CsrLifetime) : csrExp' = [csrExp EXCEPT ![r] = e]
       \/ Respond(r, "refused") /\ UNCHANGED csrExp
    /\ UNCHANGED <<store, now, key, iat, minted, signedOff>>

\* GetByIdempotencyKey: a stored credential is returned verbatim.
LookupCredential(r) ==
    /\ pc[r] = "lookup"
    /\ \/ /\ credentials[key[r]] # NoJws
          /\ RespondJws(r, "issued", credentials[key[r]])
       \/ credentials[key[r]] = NoJws /\ Goto(r, "authz")
    /\ UNCHANGED <<store, now, local, signedOff>>

\* The audience, the authorization of this issuer for req.org and the key of
\* the subject.  The outcome depends on DNS, which may change at any time.
Authorize(r) ==
    /\ pc[r] = "authz"
    /\ Goto(r, "hook") \/ Respond(r, "refused")
    /\ UNCHANGED <<store, now, local, signedOff>>

\* handleApprove begins by reading the clock.
BeginApprove(r) == Goto(r, "alloc") /\ iat' = [iat EXCEPT ![r] = now]

\* AutoApproveHook.Evaluate
EvaluateDev(r) ==
    /\ Hook = "dev"
    /\ pc[r] = "hook"
    /\ BeginApprove(r)
    /\ UNCHANGED <<store, now, key, csrExp, minted, signedOff>>

\* Slips: a new row is minted at once; an approved one is still pending.
ApproveNew == [new |-> "approve", approved |-> "approve", rejected |-> "rejected"]
ApprovedStillPending == [new |-> "pending", approved |-> "pending", rejected |-> "rejected"]

\* decisionForPending: from the status of the row to the outcome.
DecisionForPending == [new |-> "pending", approved |-> "approve", rejected |-> "rejected"]

\* queue.Hook.Evaluate up to GetPendingByIdempotencyKey, and the handler's
\* switch on the outcome.
EvaluateQueue(r) ==
    /\ Hook = "queue"
    /\ pc[r] = "hook"
    /\ LET status == pendings[key[r]]
       IN  \/ status = "none" /\ Goto(r, "park") /\ UNCHANGED iat
           \/ /\ status # "none"
              /\ \/ DecisionForPending[status] = "approve" /\ BeginApprove(r)
                 \/ /\ DecisionForPending[status] \in {"pending", "rejected"}
                    /\ Respond(r, DecisionForPending[status])
                    /\ UNCHANGED iat
    /\ UNCHANGED <<store, now, key, csrExp, minted, signedOff>>

ParkRow(r) == /\ pendings' = [pendings EXCEPT ![key[r]] = "new"]
              /\ expiry' = [expiry EXCEPT ![key[r]] = csrExp[r]]

\* PutPending with a fresh handle; the UNIQUE key refuses a second row.
Park(r) ==
    /\ pc[r] = "park"
    /\ \/ pendings[key[r]] = "none" /\ ParkRow(r) /\ Respond(r, "pending")
       \/ /\ pendings[key[r]] # "none"
          /\ Respond(r, "error")
          /\ UNCHANGED <<pendings, expiry>>
    /\ UNCHANGED <<epochs, credentials, revoked, now, local, signedOff>>

\* AllocateIndex, then Mint, which fixes the JWS.
AllocateIndex(r) ==
    /\ pc[r] = "alloc"
    /\ CanAllocate(epochs)
    /\ epochs' = Allocated(epochs, iat[r] + CredLifetime)
    /\ minted' = [minted EXCEPT ![r] =
                    [key |-> key[r], epoch |-> AllocEpoch(epochs),
                     idx |-> AllocIdx(epochs), exp |-> iat[r] + CredLifetime]]
    /\ Goto(r, "put")
    /\ UNCHANGED <<credentials, pendings, expiry, revoked, now,
                   key, csrExp, iat, signedOff>>

\* A slip: the row is replaced on conflict.
PutCredentialUpsert(r) ==
    /\ pc[r] = "put"
    /\ credentials' = [credentials EXCEPT ![key[r]] = minted[r]]
    /\ RespondJws(r, "issued", minted[r])
    /\ UNCHANGED <<epochs, pendings, expiry, revoked, now, local, signedOff>>

\* PutCredential: the primary key refuses a second row for the key.
PutCredential(r) ==
    /\ pc[r] = "put"
    /\ \/ /\ credentials[key[r]] = NoJws
          /\ credentials' = [credentials EXCEPT ![key[r]] = minted[r]]
          /\ RespondJws(r, "issued", minted[r])
       \/ /\ credentials[key[r]] # NoJws
          /\ Goto(r, "reread")
          /\ UNCHANGED credentials
    /\ UNCHANGED <<epochs, pendings, expiry, revoked, now, local, signedOff>>

\* A slip: the loser of the race serves what it minted itself.
ServeOwnCredential(r) ==
    /\ pc[r] = "reread"
    /\ RespondJws(r, "issued", minted[r])
    /\ UNCHANGED <<store, now, local, signedOff>>

\* After any PutCredential error: serve what is stored, or give up.
RereadCredential(r) ==
    /\ pc[r] = "reread"
    /\ \/ /\ credentials[key[r]] # NoJws
          /\ RespondJws(r, "issued", credentials[key[r]])
       \/ credentials[key[r]] = NoJws /\ Respond(r, "error")
    /\ UNCHANGED <<store, now, local, signedOff>>

\* A store call fails: the deadline of the request, a lost connection, or
\* the end of the server process, which ends every request it runs.  A write
\* may have taken effect all the same.
StoreFails(r) ==
    /\ r \in FaultyRequests
    /\ \/ /\ pc[r] \in {"lookup", "hook", "park", "alloc", "put", "reread"}
          /\ Respond(r, "error")
          /\ UNCHANGED <<store, minted>>
       \/ /\ pc[r] = "park" /\ pendings[key[r]] = "none"
          /\ ParkRow(r) /\ Respond(r, "error")
          /\ UNCHANGED <<epochs, credentials, revoked, minted>>
       \/ /\ pc[r] = "alloc" /\ CanAllocate(epochs)
          /\ epochs' = Allocated(epochs, iat[r] + CredLifetime)
          /\ Respond(r, "error")
          /\ UNCHANGED <<credentials, pendings, expiry, revoked, minted>>
       \/ /\ pc[r] = "put"
          /\ \/ credentials' = credentials
             \/ /\ credentials[key[r]] = NoJws
                /\ credentials' = [credentials EXCEPT ![key[r]] = minted[r]]
          /\ Goto(r, "reread")
          /\ UNCHANGED <<epochs, pendings, expiry, revoked, minted>>
    /\ UNCHANGED <<now, key, csrExp, iat, signedOff>>

-----------------------------------------------------------------------------
\* admin approve and admin reject: UpdatePendingStatus looks only for the row.
Approve(k) ==
    /\ pendings[k] # "none"
    /\ pendings' = [pendings EXCEPT ![k] = "approved"]
    /\ signedOff' = signedOff \cup {k}
    /\ UNCHANGED <<epochs, credentials, expiry, revoked, now, pc, local, resp>>

Reject(k) ==
    /\ pendings[k] # "none"
    /\ pendings' = [pendings EXCEPT ![k] = "rejected"]
    /\ UNCHANGED <<epochs, credentials, expiry, revoked, now, pc, local, resp,
                   signedOff>>

\* admin revoke: SetRevoked checks the epoch and the range of the index.
SetRevoked(e, i) ==
    /\ epochs[e] # Absent
    /\ i < epochs[e].max
    /\ Cardinality(revoked) < RevokeBound
    /\ revoked' = revoked \cup {<<e, i>>}
    /\ UNCHANGED <<epochs, credentials, pendings, expiry, now, pc, local, resp,
                   signedOff>>

\* admin rotate-epoch
RotateEpoch ==
    /\ CurrentEpoch(epochs) < RotateBound
    /\ CanRotate(epochs)
    /\ \E max \in Ceilings : epochs' = Rotated(epochs, max)
    /\ UNCHANGED <<credentials, pendings, expiry, revoked, now, pc, local, resp,
                   signedOff>>

Tick == /\ now < TimeBound
        /\ now' = now + 1
        /\ UNCHANGED <<store, pc, local, resp, signedOff>>

Handle(r) == \/ LookupCredential(r) \/ Authorize(r) \/ EvaluateDev(r)
             \/ EvaluateQueue(r) \/ Park(r) \/ AllocateIndex(r)
             \/ PutCredential(r) \/ RereadCredential(r)

Admin == \/ \E k \in Keys : Approve(k) \/ Reject(k)
         \/ \E e \in EpochNumbers : \E i \in 0..(epochs[e].max - 1) : SetRevoked(e, i)
         \/ RotateEpoch

\* Every request has been answered; the server waits for the next one.
Finished == (\A r \in Requests : pc[r] = "done") /\ UNCHANGED vars

Next == \/ \E r \in Requests : Post(r) \/ Handle(r) \/ StoreFails(r)
        \/ Admin
        \/ Tick
        \/ Finished

Fairness == \A r \in Requests : WF_vars(Handle(r))

Spec == Init /\ [][Next]_vars
FairSpec == Spec /\ Fairness
-----------------------------------------------------------------------------
\* A slip: the number of bytes is rounded down.
StatusBitsFloor(e) ==
    [i \in 0..(8 * (epochs[e].max \div 8) - 1) |-> IF <<e, i>> \in revoked THEN 1 ELSE 0]

\* serveStatus and LoadStatusBits: whole bytes, one bit per index.
StatusBits(e) ==
    [i \in 0..(8 * ((epochs[e].max + 7) \div 8) - 1) |->
        IF <<e, i>> \in revoked THEN 1 ELSE 0]

\* The tables and the answers keep their types: only the store's own words for
\* the status of a ceremony reach issuer_pendings.
TypeOK ==
    /\ epochs \in Table
    /\ credentials \in [Keys -> Jws \cup {NoJws}]
    /\ pendings \in [Keys -> {"none", "new", "approved", "rejected"}]
    /\ expiry \in [Keys -> Nat]
    /\ revoked \subseteq EpochNumbers \X Nat
    /\ now \in Nat
    /\ pc \in [Requests -> {"idle", "lookup", "authz", "hook", "park", "alloc",
                            "put", "reread", "done"}]
    /\ key \in [Requests -> Keys]
    /\ csrExp \in [Requests -> Nat]
    /\ iat \in [Requests -> Nat]
    /\ minted \in [Requests -> Jws \cup {NoJws}]
    /\ resp \in [Requests -> [kind : Kinds, jws : Jws \cup {NoJws}]]
    /\ signedOff \subseteq Keys

Issued(r) == resp[r].kind = "issued"

(* Every 200 a subject ever gets for one CSR carries the same JWS, however *)
(* many POSTs of it run at once and whatever store calls fail: the loser   *)
(* of a race serves the winner's credential, never the one it minted.      *)
IdempotentIssue ==
    \A r, s \in Requests :
        Issued(r) /\ Issued(s) /\ key[r] = key[s] => resp[r].jws = resp[s].jws

(* A credential is stored before it is served, and stays: what a 200       *)
(* carried can be found under its key from then on.                        *)
ServedIsStored ==
    \A r \in Requests : Issued(r) => /\ resp[r].jws = credentials[key[r]]
                                     /\ resp[r].jws # NoJws

(* Credentials of different CSRs never share a revocation slot, so setting *)
(* one bit of a status list revokes one credential.                        *)
OneCredentialPerIndex ==
    \A k, l \in Keys :
        k # l /\ credentials[k] # NoJws /\ credentials[l] # NoJws =>
            \/ credentials[k].epoch # credentials[l].epoch
            \/ credentials[k].idx # credentials[l].idx

(* The status list of a stored credential's epoch can be served, it has a  *)
(* bit for the credential, and the epoch is kept at least until the        *)
(* credential expires, whichever order the allocations committed in.       *)
StatusCoversIssued ==
    \A k \in Keys : credentials[k] # NoJws =>
        LET c == credentials[k]
        IN  /\ epochs[c.epoch] # Absent
            /\ c.idx \in DOMAIN StatusBits(c.epoch)
            /\ c.exp <= epochs[c.epoch].lastExp

(* With the queue hook nothing is minted that no operator has approved.    *)
MintedOnlyIfSignedOff ==
    Hook = "queue" => \A k \in Keys : credentials[k] # NoJws => k \in signedOff

(* PendingApproved: "the next CSR re-POST will mint the credential",       *)
(* unless the authorization fails or the operator changes their mind.      *)
ApprovedRepostMints ==
    \A r \in Requests \ FaultyRequests :
        (pc[r] = "lookup" /\ pendings[key[r]] = "approved")
            ~> (Issued(r) \/ resp[r].kind = "refused" \/ pendings[key[r]] # "approved")
=============================================================================
