------------------------------ MODULE Paywall -------------------------------
(***************************************************************************)
(* The x402 resource server: Paywall.process with the in-process nonce and *)
(* budget stores, for concurrent requests of several identities, the       *)
(* operator's deny-list and the issuer's revocations.                      *)
(*                                                                         *)
(* A request is one run of process.  A FastAPI endpoint declared with def  *)
(* runs it in a thread pool, so other requests run between any two of its  *)
(* calls and between the read and the write of record; an async def one    *)
(* runs it without a break: Serial is TRUE.                                *)
(***************************************************************************)
EXTENDS Integers, FiniteSets

CONSTANTS Requests,
          Subs,       \* subjects of credentials, the identity keys
          Nonces,     \* bound: the tokens that issue may draw
          NoNonce,    \* "the request has no nonce"
          Price, Cap, \* settings.price_micro and cap_micro
          Ttl,        \* nonce_ttl_seconds
          Serial,     \* whether requests run one after the other
          Truthful,   \* whether the facilitator reports every payment it made
          TimeBound   \* bound: the clock stops here

ASSUME PaywallAssumption ==
    /\ IsFiniteSet(Requests) /\ NoNonce \notin Nonces
    /\ Price \in Nat /\ Cap \in Nat /\ Ttl \in Nat /\ TimeBound \in Nat
    /\ Serial \in BOOLEAN /\ Truthful \in BOOLEAN

VARIABLES clock,
          entries,    \* the nonce store's dict: nonce -> [sub, expiry]
          issued,     \* history: every entry it has ever held
          spent,      \* the budget store's _spent
          denied,     \* its deny-list
          revoked,    \* subjects whose credential the issuer has revoked
          charged,    \* history: requests whose payment was really made
          pc,         \* the next call of each request
          sub, nonce, \* its credential's subject and the nonce of its PoP
          seen,       \* the amount record has read and not yet written
          result,     \* its answer
          barred      \* history: what has stood against it since it began

stores == <<entries, issued, spent, denied>>
world == <<clock, revoked>>
vars == <<stores, world, charged, pc, sub, nonce, seen, result, barred>>

Init == /\ clock = 0
        /\ entries = << >> /\ issued = << >>
        /\ spent = [s \in Subs |-> 0]
        /\ denied = {} /\ revoked = {}
        /\ charged = {}
        /\ pc = [r \in Requests |-> "idle"]
        /\ sub \in [Requests -> Subs]
        /\ nonce = [r \in Requests |-> NoNonce]
        /\ seen = [r \in Requests |-> 0]
        /\ result = [r \in Requests |-> "none"]
        /\ barred = [r \in Requests |-> {}]

Active(r) == pc[r] \notin {"idle", "done"}
-----------------------------------------------------------------------------
Goto(r, label) == pc' = [pc EXCEPT ![r] = label] /\ UNCHANGED result
Finish(r, answer) == /\ pc' = [pc EXCEPT ![r] = "done"]
                     /\ result' = [result EXCEPT ![r] = answer]

\* What stands against a payment by s over nonce n.
Against(s, n) ==
    {why \in {"denied", "revoked", "expired"} :
        CASE why = "denied"  -> s \in denied
          [] why = "revoked" -> s \in revoked
          [] why = "expired" -> n \in DOMAIN issued /\ issued[n].expiry < clock}

\* A request arrives, with X-PAYMENT and a proof over some nonce or without.
Begin(r) ==
    /\ pc[r] = "idle"
    /\ Serial => \A q \in Requests : ~Active(q)
    /\ \/ Goto(r, "allowed") /\ UNCHANGED <<nonce, barred>>
       \/ \E n \in Nonces : /\ Goto(r, "gate")
                            /\ nonce' = [nonce EXCEPT ![r] = n]
                            /\ barred' = [barred EXCEPT ![r] = Against(sub[r], n)]
    /\ UNCHANGED <<stores, world, charged, sub, seen>>

\* _challenge: the credential verifies and the deny-list lets it pass.
Allowed(r) ==
    /\ pc[r] = "allowed"
    /\ \/ sub[r] \notin denied /\ Goto(r, "status")
       \/ Finish(r, "refused")
    /\ UNCHANGED <<stores, world, charged, sub, nonce, seen, barred>>

\* _challenge: the status list does not say revoked.
Unrevoked(r) ==
    /\ pc[r] = "status"
    /\ \/ sub[r] \notin revoked /\ Goto(r, "issue")
       \/ Finish(r, "refused")
    /\ UNCHANGED <<stores, world, charged, sub, nonce, seen, barred>>

\* self._entries[n] = (identity_key, clock() + ttl)
WithEntry(dict, n, s) ==
    [m \in DOMAIN dict \cup {n} |->
        IF m = n THEN [sub |-> s, expiry |-> clock + Ttl] ELSE dict[m]]

\* NonceStore.issue: the token is random, so it is new.
IssueNonce(r) ==
    /\ pc[r] = "issue"
    /\ \E n \in Nonces \ DOMAIN issued :
          /\ entries' = WithEntry(entries, n, sub[r])
          /\ issued' = WithEntry(issued, n, sub[r])
    /\ Finish(r, "challenge")
    /\ UNCHANGED <<spent, denied, world, charged, sub, nonce, seen, barred>>

\* _settle: run_identity_gate, whose other checks may refuse as well.
Gate(r) ==
    /\ pc[r] = "gate"
    /\ \/ sub[r] \notin revoked /\ Goto(r, "consume")
       \/ Finish(r, "refused")
    /\ UNCHANGED <<stores, world, charged, sub, nonce, seen, barred>>

\* Slip: the expiry is not compared with the clock.
UsableForever(n, s) == n \in DOMAIN entries /\ entries[n].sub = s

\* NonceStore.consume raises no ReplayError.
Usable(n, s) == /\ n \in DOMAIN entries
                /\ entries[n].expiry >= clock
                /\ entries[n].sub = s

\* Slip: the entry is looked up and left in place.
NotPopped(n) == entries

\* self._entries.pop(n)
Popped(n) == [m \in DOMAIN entries \ {n} |-> entries[m]]

\* NonceStore.consume: dict.pop takes the entry whether it is usable or not.
Consume(r) ==
    /\ pc[r] = "consume"
    /\ entries' = Popped(nonce[r])
    /\ \/ Usable(nonce[r], sub[r]) /\ Goto(r, "reserve")
       \/ ~Usable(nonce[r], sub[r]) /\ Finish(r, "refused")
    /\ UNCHANGED <<issued, spent, denied, world, charged, sub, nonce, seen, barred>>

\* Slip: the amount about to be paid is left out of the comparison.
AffordableBefore(s) == s \notin denied /\ spent[s] <= Cap

\* BudgetStore.reserve lets the payment pass; nothing is set aside.
Affordable(s) == s \notin denied /\ spent[s] + Price <= Cap

\* enforce_agreed_equals_paid, where any payment may fail, and reserve.
Reserve(r) ==
    /\ pc[r] = "reserve"
    /\ \/ Affordable(sub[r]) /\ Goto(r, "settle")
       \/ Finish(r, "refused")
    /\ UNCHANGED <<stores, world, charged, sub, nonce, seen, barred>>

\* Slip: an unsuccessful outcome is not told from a successful one.
SettleAnyOutcome(r) ==
    /\ pc[r] = "settle"
    /\ charged' \in {charged, charged \cup {r}}
    /\ Goto(r, "record")
    /\ UNCHANGED <<stores, world, sub, nonce, seen, barred>>

\* Facilitator.settle: the payment is made, or fails, or is made and reported
\* as failed, as when its confirmation comes too late.
Settle(r) ==
    /\ pc[r] = "settle"
    /\ \/ charged' = charged \cup {r} /\ Goto(r, "record")
       \/ UNCHANGED charged /\ Finish(r, "refused")
       \/ ~Truthful /\ charged' = charged \cup {r} /\ Finish(r, "refused")
    /\ UNCHANGED <<stores, world, sub, nonce, seen, barred>>

\* BudgetStore.record reads _spent, and
RecordRead(r) ==
    /\ pc[r] = "record"
    /\ seen' = [seen EXCEPT ![r] = spent[sub[r]]]
    /\ Goto(r, "write")
    /\ UNCHANGED <<stores, world, charged, sub, nonce, barred>>

\* Slip: the payment replaces the amount instead of adding to it.
RecordLast(r) ==
    /\ pc[r] = "write"
    /\ spent' = [spent EXCEPT ![sub[r]] = Price]
    /\ seen' = [seen EXCEPT ![r] = 0]
    /\ Finish(r, "settled")
    /\ UNCHANGED <<entries, issued, denied, world, charged, sub, nonce, barred>>

\* writes it back.
RecordWrite(r) ==
    /\ pc[r] = "write"
    /\ spent' = [spent EXCEPT ![sub[r]] = seen[r] + Price]
    /\ seen' = [seen EXCEPT ![r] = 0]
    /\ Finish(r, "settled")
    /\ UNCHANGED <<entries, issued, denied, world, charged, sub, nonce, barred>>
-----------------------------------------------------------------------------
\* The operator's kill switch, and its release.
Revoke(s) ==
    /\ denied' = denied \cup {s}
    /\ UNCHANGED <<entries, issued, spent, world, charged, pc, sub, nonce, seen, result, barred>>

Restore(s) ==
    /\ denied' = denied \ {s}
    /\ barred' = [r \in Requests |-> IF sub[r] = s THEN barred[r] \ {"denied"} ELSE barred[r]]
    /\ UNCHANGED <<entries, issued, spent, world, charged, pc, sub, nonce, seen, result>>

\* The issuer revokes a credential.
IssuerRevokes(s) ==
    /\ revoked' = revoked \cup {s}
    /\ UNCHANGED <<stores, clock, charged, pc, sub, nonce, seen, result, barred>>

Tick == /\ clock < TimeBound
        /\ clock' = clock + 1
        /\ UNCHANGED <<stores, revoked, charged, pc, sub, nonce, seen, result, barred>>

Process(r) == \/ Allowed(r) \/ Unrevoked(r) \/ IssueNonce(r)
              \/ Gate(r) \/ Consume(r) \/ Reserve(r) \/ Settle(r)
              \/ RecordRead(r) \/ RecordWrite(r)

\* Every request has been answered.
Finished == (\A r \in Requests : pc[r] = "done") /\ UNCHANGED vars

Next == \/ \E r \in Requests : Begin(r) \/ Process(r)
        \/ \E s \in Subs : Revoke(s) \/ Restore(s) \/ IssuerRevokes(s)
        \/ Tick
        \/ Finished

Spec == Init /\ [][Next]_vars
-----------------------------------------------------------------------------
\* The variables keep their types: a stored nonce is bound to a subject.
TypeOK ==
    /\ clock \in 0..TimeBound
    /\ DOMAIN entries \subseteq Nonces /\ DOMAIN issued \subseteq Nonces
    /\ \A n \in DOMAIN entries : entries[n] \in [sub : Subs, expiry : Nat]
    /\ \A n \in DOMAIN issued : issued[n] \in [sub : Subs, expiry : Nat]
    /\ spent \in [Subs -> Nat] /\ seen \in [Requests -> Nat]
    /\ denied \subseteq Subs /\ revoked \subseteq Subs /\ charged \subseteq Requests
    /\ pc \in [Requests -> {"idle", "allowed", "status", "issue", "gate", "consume",
                            "reserve", "settle", "record", "write", "done"}]
    /\ sub \in [Requests -> Subs] /\ nonce \in [Requests -> Nonces \cup {NoNonce}]
    /\ result \in [Requests -> {"none", "challenge", "settled", "refused"}]
    /\ barred \in [Requests -> SUBSET {"denied", "revoked", "expired"}]

\* What is served was paid for, and a nonce buys at most one payment, and only
\* by the identity it was issued to, however the requests that present it
\* interleave with each other (Paywall._settle consumes, charges and serves).
NonceBuysOnce ==
    /\ \A r \in Requests : result[r] = "settled" => r \in charged
    /\ \A r \in charged : /\ nonce[r] \in DOMAIN issued
                          /\ issued[nonce[r]].sub = sub[r]
                          /\ \A q \in charged : nonce[q] = nonce[r] => q = r

\* The kill switch and the expiry: no payment is made by a request that began
\* when its credential was revoked or its nonce expired, or when its identity
\* was on the deny-list, unless the operator has restored it since.
BarredNeverPays == \A r \in charged : barred[r] = {}

\* What the requests in R have paid for s.
PaidBy(s, R) == Price * Cardinality({r \in R : sub[r] = s})

\* The budget store never counts a payment that was not made, or one twice,
\* even when payments are recorded concurrently.
NeverOvercounted == \A s \in Subs : spent[s] <= PaidBy(s, charged)

\* The per-identity spend cap: no identity pays more than Cap.
SpendCap == \A s \in Subs : PaidBy(s, charged) <= Cap

\* Between requests the budget store has counted exactly what was paid.
LedgerAgrees ==
    (\A r \in Requests : ~Active(r)) =>
        \A s \in Subs : spent[s] = PaidBy(s, charged)
=============================================================================
