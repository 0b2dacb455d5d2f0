------------------------------ MODULE Checkout ------------------------------
(***************************************************************************)
(* An agent enrols with an issuer and buys with the credential it gets:    *)
(* the CSR client (csr.py), the issuer server, ShadowX402Client and the    *)
(* paywall behind an HTTP endpoint, over a network that loses and delays   *)
(* requests and answers, and repeats GETs as proxies may.                  *)
(*                                                                         *)
(* Issuer and Paywall model what the two servers do when requests overlap. *)
(* Here each runs one request after the other; the paywall's second step   *)
(* is the facilitator's, and it may be restarted before, with other        *)
(* settings and without what its stores held in memory.                    *)
(***************************************************************************)
EXTENDS Documents

CONSTANTS Setups,       \* the configurations to look at
          CsrLifetime,  \* 600 s
          PopLifetime,  \* 120 s
          NonceTtl,     \* nonce_ttl_seconds
          Nonces        \* bound: the tokens that issue may draw

\* A credential that the issuer of setup w minted for subject s by time t, when
\* size indices were handed out.
MintedFor(w, c, s, t, size) ==
    /\ c.form = "ok" /\ c.kind = "org_affiliation" /\ c.iss = w.issuer /\ c.sub = s
    /\ c.iat \in Int /\ c.exp \in Int /\ c.iat <= t /\ c.exp - c.iat <= CredLifetime
    /\ c.key = w.issuerKey /\ c.epoch = "e1" /\ c.idx \in Nat /\ c.idx < size
    /\ IssuerAuthorized(w.issuer, c.org, w.dns)

\* The issuer is a domain whose record lists the key it signs with first;
\* credential.Mint refuses a longer validity; a buyer starts with nothing, or
\* with what the issuer gave it before.
ASSUME CheckoutAssumption ==
    /\ PopLifetime \in Nat /\ None # "403"
    /\ \A w \in Setups :
           /\ w.sends \in Nat /\ w.until \in Nat /\ w.taken \in Nat /\ w.prices \subseteq Nat
           /\ w.validity \in Nat /\ w.validity <= CredLifetime
           /\ ~is_public_key_identifier(w.issuer) /\ w.issuerKey = IssuerKey(w.issuer, w.dns)
           /\ \A b \in DOMAIN w.calls :
                  LET c == w.calls[b]
                  IN  c.key # None /\ (c.holds # None => MintedFor(w, c.holds, c.sub, 0, w.taken))

\* Bounds: a buyer makes setup.sends requests, the clock stops at setup.until.
VARIABLES setup, now,
          buyer,        \* what each buyer's client is at
          net,          \* requests on their way
          issuer,       \* per buyer: the parked ceremony and the credential
          status,       \* the issuer's status lists
          server,       \* the paywall's settings and stores
          issued,       \* history: what each nonce was quoted with
          chain         \* the transfers made

vars == <<setup, now, buyer, net, issuer, status, server, issued, chain>>
world == <<issuer, status>>
sold == <<server, issued, chain>>

Call(b) == setup.calls[b]
Goto(b, pc) == buyer' = [buyer EXCEPT ![b].pc = pc]
Done(b, out) == buyer' = [buyer EXCEPT ![b].pc = "done", ![b].out = out]

\* The answer to r reaches its client, unless it is lost, nobody waits for
\* it any more, or r is a copy.
Answer(r, code, body) ==
    \/ /\ ~r.copy /\ buyer[r.b].pc = r.kind /\ buyer[r.b].n = r.n
       /\ buyer' = [buyer EXCEPT ![r.b].pc = "read", ![r.b].code = code, ![r.b].body = body]
    \/ UNCHANGED buyer

\* Whether the status list has a credential's bit set.
Revoked(c) == c # None /\ is_revoked(status[c.epoch], c.idx)

\* A client sends r and waits for the answer.
Send(b, r) ==
    /\ buyer[b].n < setup.sends
    /\ net' = net \cup {[b |-> b, n |-> buyer[b].n + 1, copy |-> FALSE, repeated |-> FALSE,
                         kind |-> r.kind, body |-> r.body, barred |-> Revoked(buyer[b].cred)]}
    /\ buyer' = [buyer EXCEPT ![b].pc = r.kind, ![b].last = r.kind, ![b].n = @ + 1, ![b].at = now,
                              ![b].code = None, ![b].body = None]
-----------------------------------------------------------------------------
(* Enrolment.                                                              *)

\* mint_csr raises otherwise.
CsrMintable(life) == 0 < life /\ life <= CsrLifetime

\* mint_csr, or csr.Mint of the Go core, which also sets kid.
Csr(b) == [iss |-> Call(b).sub, kid |-> Call(b).kid, aud |-> Call(b).aud,
           org |-> Call(b).org, iat |-> now, exp |-> now + Call(b).life, key |-> Call(b).key]

\* submit_csr
SubmitCsr(b) ==
    /\ buyer[b].pc = "enrol"
    /\ \/ ~CsrMintable(Call(b).life) /\ Done(b, "csr_error") /\ UNCHANGED net
       \/ CsrMintable(Call(b).life) /\ Send(b, [kind |-> "issue", body |-> Csr(b)])
    /\ UNCHANGED <<setup, now, world, sold>>

\* verify_csr, as the Go core's csr.Verify, for the subject's key k.
verify_csr(csr, k, aud) ==
    csr.aud = aud /\ InTime(csr, CsrLifetime, now) /\ csr.key = k

\* parseAndVerifyCSR takes the key from kid, which must be there.
WellFormedCsr(csr) ==
    /\ csr.kid # None /\ is_public_key_identifier(csr.kid)
    /\ verify_csr(csr, csr.kid.key, setup.issuer)

\* A slip: the index after the one that was allocated.
MintedPast(csr) ==
    [form |-> "ok", kind |-> "org_affiliation", iss |-> setup.issuer, sub |-> csr.iss,
     org |-> csr.org, iat |-> now, exp |-> now + setup.validity, key |-> setup.issuerKey,
     epoch |-> "e1", idx |-> status["e1"].size + 1]

\* handleApprove mints for the next index of the epoch.
Minted(csr) ==
    [form |-> "ok", kind |-> "org_affiliation", iss |-> setup.issuer, sub |-> csr.iss,
     org |-> csr.org, iat |-> now, exp |-> now + setup.validity, key |-> setup.issuerKey,
     epoch |-> "e1", idx |-> status["e1"].size]

\* What serveIssue checks before it asks the hook; a Shadowname's key is not
\* looked up.
IssueRefusal(csr) ==
    IF ~IssuerAuthorized(setup.issuer, csr.org, setup.dns) THEN "403"
    ELSE IF ~is_public_key_identifier(csr.iss) THEN "400" ELSE "ok"

\* serveIssue with the queue hook; a stored credential is returned verbatim.
Issue(r) ==
    /\ r.kind = "issue" /\ net' = net \ {r}
    /\ LET row == issuer[r.b]
           refusal == IF ~WellFormedCsr(r.body) THEN "400"
                      ELSE IF row.cred # None THEN "ok" ELSE IssueRefusal(r.body)
       IN  \/ refusal # "ok" /\ Answer(r, refusal, None) /\ UNCHANGED world
           \/ refusal = "ok" /\ row.cred # None /\ Answer(r, "200", row.cred) /\ UNCHANGED world
           \/ /\ refusal = "ok" /\ row.cred = None
              /\ \/ /\ row.pending = "none" /\ Answer(r, "409", None)
                    /\ issuer' = [issuer EXCEPT ![r.b].pending = "new"]
                    /\ UNCHANGED status
                 \/ row.pending = "new" /\ Answer(r, "409", None) /\ UNCHANGED world
                 \/ row.pending = "rejected" /\ Answer(r, "403", None) /\ UNCHANGED world
                 \/ /\ row.pending = "approved" /\ Answer(r, "200", Minted(r.body))
                    /\ issuer' = [issuer EXCEPT ![r.b].cred = Minted(r.body)]
                    /\ status' = [status EXCEPT !["e1"].size = @ + 1]
    /\ UNCHANGED <<setup, now, sold>>

\* The operator decides on a parked ceremony.
Review(b) ==
    /\ issuer[b].pending = "new"
    /\ \E d \in {"approved", "rejected"} : issuer' = [issuer EXCEPT ![b].pending = d]
    /\ UNCHANGED <<setup, now, buyer, net, status, sold>>

\* _interpret_response of csr.py; after 409 the caller submits again.
ReadIssuance(b) ==
    /\ buyer[b].pc = "read" /\ buyer[b].last = "issue"
    /\ \/ /\ buyer[b].code = "200"
          /\ buyer' = [buyer EXCEPT ![b].pc = "get", ![b].cred = buyer[b].body]
       \/ buyer[b].code = "409" /\ Goto(b, "enrol")
       \/ buyer[b].code = "403" /\ Done(b, "ceremony_failed")
       \/ buyer[b].code = "400" /\ Done(b, "csr_error")
    /\ UNCHANGED <<setup, now, net, world, sold>>
-----------------------------------------------------------------------------
(* The purchase.                                                           *)

\* ShadowX402Client.get: the first request carries the credential alone.
Ask(b) ==
    /\ buyer[b].pc = "get"
    /\ Send(b, [kind |-> "ask", body |-> [cred |-> buyer[b].cred, url |-> Call(b).url]])
    /\ UNCHANGED <<setup, now, world, sold>>

\* build_payment_requirements raises without a payee.
CanQuote == server.payTo # None
Requirements == [amount |-> server.price, payTo |-> server.payTo]

\* NonceStore.issue
WithNonce(n, s) ==
    [m \in DOMAIN server.nonces \cup {n} |->
        IF m = n THEN [sub |-> s, expiry |-> now + NonceTtl] ELSE server.nonces[m]]

\* Paywall._challenge; status 500 stands for an exception nobody catches.
Challenge(r) ==
    /\ r.kind = "ask" /\ server.busy = None /\ net' = net \ {r}
    /\ LET c == r.body.cred
           refusal == IF c = None THEN "401"
                      ELSE IF ~verify_credential(c, setup.dns, now) \/ c.sub \in server.denied THEN "403"
                      ELSE IF check_revocation(c, status) = "StatusListError" THEN "403"
                      ELSE IF check_revocation(c, status) = "raises" THEN "500" ELSE "ok"
       IN  \/ refusal # "ok" /\ Answer(r, refusal, None) /\ UNCHANGED <<server, issued>>
           \/ /\ refusal = "ok"
              /\ \E n \in Nonces \ DOMAIN issued :
                     /\ server' = [server EXCEPT !.nonces = WithNonce(n, c.sub)]
                     /\ \/ ~CanQuote /\ Answer(r, "500", None) /\ UNCHANGED issued
                        \/ /\ CanQuote
                           /\ Answer(r, "402", [nonce |-> n, terms |-> Requirements])
                           /\ issued' = [m \in DOMAIN issued \cup {n} |->
                                   IF m = n THEN [sub |-> c.sub, terms |-> Requirements]
                                   ELSE issued[m]]
    /\ UNCHANGED <<setup, now, world, chain>>

\* mint_pop
Pop(b, nonce) == [sub |-> Call(b).sub, aud |-> Call(b).url, nonce |-> nonce, iat |-> now,
                  exp |-> now + PopLifetime, key |-> Call(b).key]

\* _stub_payment pays what is quoted; another build_payment may not.
Payment(b, terms) == IF Call(b).pays = None THEN terms ELSE Call(b).pays

\* The rest of get: anything but a challenge is returned as it is.
PayOrReturn(b) ==
    /\ buyer[b].pc = "read" /\ buyer[b].last = "ask"
    /\ LET q == buyer[b].body
       IN  \/ buyer[b].code # "402" /\ Done(b, buyer[b].code) /\ UNCHANGED net
           \/ /\ buyer[b].code = "402"
              /\ Send(b, [kind |-> "pay",
                          body |-> [cred |-> buyer[b].cred, url |-> Call(b).url,
                                    pop |-> Pop(b, q.nonce), terms |-> Payment(b, q.terms)]])
    /\ UNCHANGED <<setup, now, world, sold>>

\* A slip: the leeway is not handed on.
VerifyPopStrictly(pop, sub, url) ==
    /\ is_public_key_identifier(sub) /\ pop.key = sub.key
    /\ pop.aud = url /\ pop.sub = sub
    /\ pop.exp > now /\ pop.iat <= now

\* verify_pop; a Shadowname has no key here.
verify_pop(pop, sub, url) ==
    /\ is_public_key_identifier(sub) /\ pop.key = sub.key
    /\ pop.aud = url /\ pop.sub = sub
    /\ pop.exp > now - Leeway /\ pop.iat <= now + Leeway

\* A slip: the status list is not looked at again.
GateOnce(r) ==
    LET c == r.body.cred
    IN  IF ~verify_credential(c, setup.dns, now) THEN "403"
        ELSE IF ~satisfies_policy({c}, setup.trust, {"org_affiliation"}) THEN "403"
        ELSE IF ~verify_pop(r.body.pop, c.sub, setup.resource[r.body.url]) THEN "403" ELSE "ok"

\* run_identity_gate: "ok" when it lets the caller pass.
Gate(r) ==
    LET c == r.body.cred
    IN  IF ~verify_credential(c, setup.dns, now) THEN "403"
        ELSE IF check_revocation(c, status) = "raises" THEN "500"
        ELSE IF check_revocation(c, status) # "ok" THEN "403"
        ELSE IF ~satisfies_policy({c}, setup.trust, {"org_affiliation"}) THEN "403"
        ELSE IF ~verify_pop(r.body.pop, c.sub, setup.resource[r.body.url]) THEN "403" ELSE "ok"

\* A slip: the nonce stays.
NotPopped(n) == server.nonces

\* NonceStore.consume: what is left, and whether it may be used.
Popped(n) == [m \in DOMAIN server.nonces \ {n} |-> server.nonces[m]]
Usable(n, s) == /\ n \in DOMAIN server.nonces
                /\ server.nonces[n].expiry >= now /\ server.nonces[n].sub = s

\* BudgetStore.reserve
Affordable(s) == s \notin server.denied /\ server.spent[s] + server.price <= setup.cap

\* enforce_agreed_equals_paid
AgreedEqualsPaid(terms) == terms = Requirements

\* Paywall._settle up to the facilitator.
Settle(r) ==
    /\ r.kind = "pay" /\ server.busy = None /\ net' = net \ {r}
    /\ LET n == r.body.pop.nonce
           s == r.body.cred.sub
           consumed == [server EXCEPT !.nonces = Popped(n)]
       IN  \/ Gate(r) # "ok" /\ Answer(r, Gate(r), None) /\ UNCHANGED server
           \/ Gate(r) = "ok" /\ ~Usable(n, s) /\ Answer(r, "409", None) /\ server' = consumed
           \/ /\ Gate(r) = "ok" /\ Usable(n, s)
              /\ LET paid == CanQuote /\ AgreedEqualsPaid(r.body.terms) /\ Affordable(s)
                 IN  \/ /\ ~paid /\ server' = consumed
                        /\ Answer(r, IF CanQuote THEN "402" ELSE "500", None)
                     \/ paid /\ server' = [consumed EXCEPT !.busy = r] /\ UNCHANGED buyer
    /\ UNCHANGED <<setup, now, world, issued, chain>>

Transfer(r, reported) ==
    [b |-> r.b, n |-> r.n, copy |-> r.copy, nonce |-> r.body.pop.nonce, sub |-> r.body.cred.sub,
     terms |-> r.body.terms, barred |-> r.barred, reported |-> reported]

\* A slip: outcome.success is not looked at.
FacilitateUnchecked ==
    /\ server.busy # None
    /\ LET r == server.busy
       IN  /\ chain' \in {chain, chain \cup {Transfer(r, TRUE)}}
           /\ server' = [server EXCEPT !.busy = None, !.spent[r.body.cred.sub] = @ + server.price]
           /\ Answer(r, "200", None)
    /\ UNCHANGED <<setup, now, net, world, issued>>

\* Facilitator.settle, record and the answer: the payment is made, or fails,
\* or is made and reported as failed.
Facilitate ==
    /\ server.busy # None
    /\ LET r == server.busy
       IN  \/ /\ chain' = chain \cup {Transfer(r, TRUE)}
              /\ server' = [server EXCEPT !.busy = None, !.spent[r.body.cred.sub] = @ + server.price]
              /\ Answer(r, "200", None)
           \/ /\ chain' \in {chain, chain \cup {Transfer(r, FALSE)}}
              /\ server' = [server EXCEPT !.busy = None]
              /\ Answer(r, "402", None)
    /\ UNCHANGED <<setup, now, net, world, issued>>

\* The answer to the second request is returned as it is.
Return(b) ==
    /\ buyer[b].pc = "read" /\ buyer[b].last = "pay"
    /\ Done(b, buyer[b].code)
    /\ UNCHANGED <<setup, now, net, world, sold>>

\* A request or its answer is lost: httpx raises.
Fail(b) ==
    /\ buyer[b].pc \in {"issue", "ask", "pay"}
    /\ Done(b, "transport")
    /\ UNCHANGED <<setup, now, net, world, sold>>

\* Where the caller starts, and starts again, with what it has.
Beginning(b, cred) == IF cred = None /\ Call(b).enrols THEN "enrol" ELSE "get"
Again(b) ==
    /\ buyer[b].pc = "done" /\ buyer[b].n < setup.sends
    /\ buyer' = [buyer EXCEPT ![b].pc = Beginning(b, buyer[b].cred), ![b].out = None]
    /\ UNCHANGED <<setup, now, net, world, sold>>
-----------------------------------------------------------------------------
(* The network, the operators and the clock.                               *)

\* A proxy repeats a GET.
Repeat(r) ==
    /\ setup.repeats /\ r.kind \in {"ask", "pay"} /\ ~r.repeated
    /\ net' = (net \ {r}) \cup {[r EXCEPT !.repeated = TRUE], [r EXCEPT !.repeated = TRUE, !.copy = TRUE]}
    /\ UNCHANGED <<setup, now, buyer, world, sold>>

\* BudgetStore.revoke, and the issuer's admin revoke.
Deny(s) ==
    /\ server.busy = None /\ setup.denies
    /\ server' = [server EXCEPT !.denied = @ \cup {s}, !.everDenied = @ \cup {s}]
    /\ UNCHANGED <<setup, now, buyer, net, world, issued, chain>>
RevokeCredential(b) ==
    /\ setup.revokes /\ issuer[b].cred # None
    /\ status' = [status EXCEPT ![issuer[b].cred.epoch].revoked = @ \cup {issuer[b].cred.idx}]
    /\ UNCHANGED <<setup, now, buyer, net, issuer, sold>>

Subs == {Call(b).sub : b \in DOMAIN setup.calls}
Fresh(price) == [price |-> price, payTo |-> setup.payTo, nonces |-> <<>>, denied |-> {},
                 spent |-> [s \in Subs |-> 0], busy |-> None, everDenied |-> {}]

\* The server restarts, perhaps at another price, perhaps while it settles:
\* the stores are empty, and nobody answers what was under way.
Restart ==
    /\ setup.restarts
    /\ \E p \in setup.prices :
           server' = [Fresh(p) EXCEPT !.everDenied = server.everDenied]
    /\ \/ UNCHANGED chain
       \/ server.busy # None /\ chain' = chain \cup {Transfer(server.busy, FALSE)}
    /\ UNCHANGED <<setup, now, buyer, net, world, issued>>

Tick == /\ now < setup.until
        /\ now' = now + 1
        /\ UNCHANGED <<setup, buyer, net, world, sold>>
-----------------------------------------------------------------------------
Init ==
    /\ setup \in Setups /\ now = 0
    /\ buyer = [b \in DOMAIN setup.calls |->
                  [pc |-> Beginning(b, Call(b).holds), cred |-> Call(b).holds, n |-> 0, at |-> 0,
                   last |-> None, code |-> None, body |-> None, out |-> None]]
    /\ net = {}
    /\ issuer = [b \in DOMAIN setup.calls |-> [pending |-> "none", cred |-> Call(b).holds]]
    /\ status = [e1 |-> [body |-> "ok", size |-> setup.taken, revoked |-> {}]]
    /\ server \in {Fresh(p) : p \in setup.prices}
    /\ issued = <<>> /\ chain = {}

Client(b) == \/ SubmitCsr(b) \/ ReadIssuance(b) \/ Ask(b) \/ PayOrReturn(b)
             \/ Return(b) \/ Fail(b) \/ Again(b)
Next ==
    \/ \E b \in DOMAIN setup.calls : Client(b) \/ Review(b) \/ RevokeCredential(b)
    \/ \E r \in net : Issue(r) \/ Challenge(r) \/ Settle(r) \/ Repeat(r)
    \/ Facilitate
    \/ \E s \in Subs : Deny(s)
    \/ Restart
    \/ Tick

Spec == Init /\ [][Next]_vars
-----------------------------------------------------------------------------
\* The stores keep their types: a client has a credential when it has enrolled
\* only, of its own subject, and the lists cover every index handed out.
TypeOK ==
    /\ setup \in Setups /\ now \in 0..setup.until
    /\ \A b \in DOMAIN buyer :
           /\ buyer[b].pc \in {"enrol", "issue", "get", "ask", "pay", "read", "done"}
           /\ buyer[b].n \in 0..setup.sends
           /\ buyer[b].cred # None => /\ buyer[b].cred = issuer[b].cred
                                      /\ buyer[b].cred.sub = Call(b).sub
                                      /\ buyer[b].cred.idx < status["e1"].size
    /\ DOMAIN server.nonces \subseteq Nonces /\ server.spent \in [Subs -> Nat]

\* The transfers are purchases: whatever is lost, repeated or restarted, a
\* challenge is paid for once at most, on the terms quoted in it, by the
\* identity it was made to (Paywall.process).
P == INSTANCE Purchases WITH
         quotes <- issued,
         ledger <- {[b |-> t.b, n |-> t.n, copy |-> t.copy, nonce |-> t.nonce, sub |-> t.sub,
                     terms |-> t.terms] : t \in chain}
PurchasesSpec == P!Spec

\* A client that is served has paid, and one that is refused has not, unless
\* the facilitator kept it to itself or a repeated request was served instead
\* (ShadowX402Client.get, Paywall._settle).
AnswerIsTrue ==
    \A b \in DOMAIN buyer :
        LET mine == {t \in chain : t.b = b /\ t.n = buyer[b].n}
        IN  buyer[b].pc = "done" /\ buyer[b].last = "pay" =>
               /\ buyer[b].out = "200" => \E t \in mine : t.reported
               /\ buyer[b].out \in {"402", "403", "409", "500"} =>
                      \A t \in mine : ~t.reported \/ t.copy

\* Nothing is paid by a request sent after the issuer revoked its credential,
\* whatever the server forgot in between (run_identity_gate).
RevokedNeverPays == \A t \in chain : ~t.barred

\* A client with its own key and a credential the issuer gave it is let in, at
\* the address the server knows, until the credential expires or is revoked,
\* the operator denies it or its proof gets old.
EnrolledNotRefused ==
    \A b \in DOMAIN buyer :
        buyer[b].out = "403" /\ buyer[b].cred # None =>
            \/ Revoked(buyer[b].cred) \/ now > buyer[b].cred.exp + Leeway
            \/ Call(b).sub \in server.everDenied
            \/ buyer[b].last = "pay" /\ now >= buyer[b].at + PopLifetime + Leeway
            \/ Call(b).sub # KeyId(Call(b).key) \/ setup.resource[Call(b).url] # Call(b).url
            \/ ~satisfies_policy({buyer[b].cred}, setup.trust, {"org_affiliation"})
=============================================================================
