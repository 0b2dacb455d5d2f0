--------------------------- MODULE CheckoutProofs ---------------------------
(***************************************************************************)
(* Proofs about Checkout, for any buyers, configurations and lifetimes:    *)
(* what is paid are purchases, a revoked credential pays for nothing, the  *)
(* clients are told the truth about what they paid, and none that enrolled *)
(* is refused without a reason.                                            *)
(***************************************************************************)
EXTENDS Checkout, TLAPS

USE Zenon, SMTT(10)

\* The paywall's record has its fields.
ServerShape ==
    server = [price |-> server.price, payTo |-> server.payTo, nonces |-> server.nonces,
              denied |-> server.denied, spent |-> server.spent, busy |-> server.busy,
              everDenied |-> server.everDenied]

\* A nonce the store still has was quoted at the present terms to the subject
\* it is kept for, and nobody has paid for it.
StoredUnpaid ==
    \A n \in DOMAIN server.nonces :
        /\ \A t \in chain : t.nonce # n
        /\ CanQuote => /\ n \in DOMAIN issued
                       /\ issued[n] = [sub |-> server.nonces[n].sub, terms |-> Requirements]

PaidQuoted == \A t \in chain : t.nonce \in DOMAIN issued

\* What the facilitator is about to settle was quoted and is not paid yet.
BusyUnpaid ==
    server.busy # None =>
        LET n == server.busy.body.pop.nonce
        IN  /\ n \in DOMAIN issued /\ n \notin DOMAIN server.nonces
            /\ issued[n] = [sub |-> server.busy.body.cred.sub, terms |-> server.busy.body.terms]
            /\ \A t \in chain : t.nonce # n

PurchaseInv == ServerShape /\ StoredUnpaid /\ PaidQuoted /\ BusyUnpaid

ledger == {[b |-> t.b, n |-> t.n, copy |-> t.copy, nonce |-> t.nonce, sub |-> t.sub,
            terms |-> t.terms] : t \in chain}

\* A paywall that starts has no nonce and settles nothing.
LEMMA FreshServer ==
    ASSUME NEW p
    PROVE  /\ DOMAIN Fresh(p).nonces = {} /\ Fresh(p).busy = None
           /\ Fresh(p) = [price |-> Fresh(p).price, payTo |-> Fresh(p).payTo,
                  nonces |-> Fresh(p).nonces, denied |-> Fresh(p).denied, spent |-> Fresh(p).spent,
                  busy |-> Fresh(p).busy, everDenied |-> Fresh(p).everDenied]
BY SMTT(30) DEF Fresh

\* The first state satisfies the invariant.
LEMMA InitPurchase == Init => PurchaseInv
<1> SUFFICES ASSUME Init PROVE PurchaseInv OBVIOUS
<1>1. PICK p : server = Fresh(p)
  BY DEF Init
<1>2. chain = {}
  BY DEF Init
<1> QED BY <1>1, <1>2, FreshServer DEF PurchaseInv, ServerShape, StoredUnpaid, PaidQuoted, BusyUnpaid

\* Steps that leave the paywall and the chain alone keep the invariant.
LEMMA SoldKept == PurchaseInv /\ UNCHANGED sold => PurchaseInv'
BY DEF PurchaseInv, ServerShape, StoredUnpaid, PaidQuoted, BusyUnpaid, sold, CanQuote, Requirements

\* A challenge draws a nonce that was never quoted.
LEMMA ChallengeKeeps ==
    ASSUME PurchaseInv, NEW r \in net, Challenge(r)
    PROVE  PurchaseInv' /\ (UNCHANGED <<issued, chain>> \/ (UNCHANGED chain /\ P!Quote))
<1> USE DEF PurchaseInv
<1>1. CASE UNCHANGED <<server, issued>>
  BY <1>1, SoldKept DEF Challenge, sold
<1>2. CASE ~UNCHANGED <<server, issued>>
  <2> DEFINE s == r.body.cred.sub
  <2>1. PICK n \in Nonces \ DOMAIN issued :
            /\ server' = [server EXCEPT !.nonces = WithNonce(n, s)]
            /\ \/ ~CanQuote /\ UNCHANGED issued
               \/ /\ CanQuote
                  /\ issued' = [m \in DOMAIN issued \cup {n} |->
                          IF m = n THEN [sub |-> s, terms |-> Requirements] ELSE issued[m]]
    BY <1>2, Zenon DEF Challenge
  <2>2. chain' = chain /\ server.busy = None
    BY DEF Challenge
  <2>3. /\ ServerShape' /\ server'.nonces = WithNonce(n, s) /\ server'.busy = None
        /\ server'.price = server.price /\ server'.payTo = server.payTo
    BY <2>1, <2>2 DEF ServerShape
  <2>4. /\ DOMAIN server'.nonces = DOMAIN server.nonces \cup {n}
        /\ server'.nonces[n].sub = s
        /\ \A m \in DOMAIN server.nonces \ {n} : server'.nonces[m] = server.nonces[m]
    BY SMTT(30), <2>3 DEF WithNonce
  <2>5. Requirements' = Requirements /\ (CanQuote' <=> CanQuote)
    BY <2>3 DEF Requirements, CanQuote
  <2>6. /\ DOMAIN issued \subseteq DOMAIN issued'
        /\ \A m \in DOMAIN issued : issued'[m] = issued[m]
        /\ CanQuote => /\ n \in DOMAIN issued'
                       /\ issued'[n] = [sub |-> s, terms |-> Requirements]
                       /\ DOMAIN issued' = DOMAIN issued \cup {n}
        /\ ~CanQuote => issued' = issued
    BY <2>1
  <2>7. PaidQuoted'
    BY <2>2, <2>6 DEF PaidQuoted
  <2>8. StoredUnpaid'
    <3> SUFFICES ASSUME NEW m \in DOMAIN server'.nonces
                 PROVE  /\ \A t \in chain' : t.nonce # m
                        /\ CanQuote' => /\ m \in DOMAIN issued'
                                        /\ issued'[m] = [sub |-> server'.nonces[m].sub,
                                                         terms |-> Requirements']
      BY DEF StoredUnpaid
    <3>1. CASE m = n
      BY <3>1, <2>2, <2>1, <2>4, <2>5, <2>6 DEF PaidQuoted
    <3>2. CASE m # n
      <4>1. m \in DOMAIN server.nonces /\ server'.nonces[m] = server.nonces[m]
        BY <3>2, <2>4
      <4> QED BY <4>1, <2>2, <2>5, <2>6 DEF StoredUnpaid
    <3> QED BY <3>1, <3>2
  <2>9. BusyUnpaid'
    BY <2>3 DEF BusyUnpaid
  <2>10. UNCHANGED issued \/ P!Quote
    <3>1. CASE CanQuote
      <4>1. n \in DOMAIN issued' \ DOMAIN issued
        BY <2>1, <2>6, <3>1
      <4>2. ledger' = ledger
        BY <2>2 DEF ledger
      <4> QED BY <4>1, <4>2, <2>6, <3>1, <2>2 DEF P!Quote
    <3> QED BY <3>1, <2>6
  <2> QED BY <2>2, <2>3, <2>7, <2>8, <2>9, <2>10
<1> QED BY <1>1, <1>2

\* Settling a request takes its nonce out of the store before the facilitator
\* is called, whatever comes of it.
LEMMA SettleKeeps ==
    ASSUME PurchaseInv, NEW r \in net, Settle(r)
    PROVE  PurchaseInv' /\ UNCHANGED <<issued, chain>>
<1> USE DEF PurchaseInv
<1>0. UNCHANGED <<issued, chain>>
  BY DEF Settle
<1>1. CASE UNCHANGED server
  BY <1>1, <1>0, SoldKept DEF sold
<1>2. CASE ~UNCHANGED server
  <2> DEFINE n == r.body.pop.nonce
             s == r.body.cred.sub
             consumed == [server EXCEPT !.nonces = Popped(n)]
  <2>1. \/ server' = consumed
        \/ /\ server' = [consumed EXCEPT !.busy = r]
           /\ Usable(n, s) /\ CanQuote /\ AgreedEqualsPaid(r.body.terms)
    BY <1>2, Zenon DEF Settle
  <2>2. server.busy = None
    BY DEF Settle
  <2>3. /\ ServerShape' /\ server'.nonces = Popped(n)
        /\ server'.price = server.price /\ server'.payTo = server.payTo
        /\ server'.busy = None \/ server'.busy = r
    BY <2>1, <2>2 DEF ServerShape
  <2>4. /\ DOMAIN server'.nonces = DOMAIN server.nonces \ {n}
        /\ \A m \in DOMAIN server'.nonces : server'.nonces[m] = server.nonces[m]
    BY <2>3 DEF Popped
  <2>5. Requirements' = Requirements /\ (CanQuote' <=> CanQuote)
    BY <2>3 DEF Requirements, CanQuote
  <2>6. StoredUnpaid' /\ PaidQuoted'
    BY <1>0, <2>4, <2>5 DEF StoredUnpaid, PaidQuoted
  <2>7. BusyUnpaid'
    <3>1. CASE server' = consumed
      BY <3>1, <2>2 DEF BusyUnpaid, ServerShape
    <3>2. CASE /\ server' = [consumed EXCEPT !.busy = r]
               /\ Usable(n, s) /\ CanQuote /\ AgreedEqualsPaid(r.body.terms)
      <4>1. server'.busy = r
        BY <3>2 DEF ServerShape
      <4>2. n \in DOMAIN server.nonces /\ server.nonces[n].sub = s /\ r.body.terms = Requirements
        BY <3>2 DEF Usable, AgreedEqualsPaid
      <4>3. /\ n \in DOMAIN issued /\ \A t \in chain : t.nonce # n
            /\ issued[n] = [sub |-> s, terms |-> r.body.terms]
        BY <4>2, <3>2 DEF StoredUnpaid
      <4> QED BY <4>1, <4>3, <2>4, <1>0 DEF BusyUnpaid
    <3> QED BY <3>1, <3>2, <2>1
  <2> QED BY <1>0, <2>3, <2>6, <2>7
<1> QED BY <1>1, <1>2

\* What is transferred for the request at hand is a payment of its quote.
LEMMA TransferPays ==
    ASSUME PurchaseInv, NEW reported, server.busy # None,
           chain' = chain \cup {Transfer(server.busy, reported)}, UNCHANGED issued
    PROVE  /\ P!Pay /\ PaidQuoted'
           /\ \A t \in chain' : t \in chain \/ t.nonce = server.busy.body.pop.nonce
<1> DEFINE r == server.busy
           p == [b |-> r.b, n |-> r.n, copy |-> r.copy, nonce |-> r.body.pop.nonce,
                 sub |-> r.body.cred.sub, terms |-> r.body.terms]
           T == Transfer(server.busy, reported)
<1>1. /\ p.nonce \in DOMAIN issued /\ \A t \in chain : t.nonce # p.nonce
      /\ issued[p.nonce] = [sub |-> p.sub, terms |-> p.terms]
  BY DEF PurchaseInv, BusyUnpaid
<1>2. /\ T.b = p.b /\ T.n = p.n /\ T.copy = p.copy /\ T.nonce = p.nonce /\ T.sub = p.sub
      /\ T.terms = p.terms
  BY DEF Transfer
<1>3. ledger' = ledger \cup {p}
  <2>1. p = [b |-> T.b, n |-> T.n, copy |-> T.copy, nonce |-> T.nonce, sub |-> T.sub,
             terms |-> T.terms]
    BY <1>2
  <2> HIDE DEF p, T
  <2>2. chain' = chain \cup {T}
    BY DEF T
  <2> QED BY <2>1, <2>2 DEF ledger
<1>4. \A o \in ledger : o.nonce # p.nonce
  BY SMTT(30), <1>1 DEF ledger
<1>5. p \in ledger' \ ledger
  BY <1>3, <1>4
<1>6. P!Pay
  <2> HIDE DEF p
  <2> QED BY <1>1, <1>3, <1>4, <1>5 DEF P!Pay, ledger
<1>7. \A t \in chain' : t \in chain \/ t.nonce = p.nonce
  BY <1>2
<1>8. PaidQuoted'
  BY <1>7, <1>1 DEF PurchaseInv, PaidQuoted
<1> QED BY <1>6, <1>7, <1>8

\* The facilitator's step pays the quote at hand, or nothing.
LEMMA FacilitateKeeps ==
    ASSUME PurchaseInv, Facilitate
    PROVE  PurchaseInv' /\ (UNCHANGED <<issued, chain>> \/ P!Pay)
<1> DEFINE r == server.busy
<1>1. r # None /\ UNCHANGED issued
  BY DEF Facilitate
<1>2. UNCHANGED chain \/ \E reported \in BOOLEAN : chain' = chain \cup {Transfer(r, reported)}
  BY DEF Facilitate
<1>3. /\ ServerShape' /\ server'.busy = None /\ server'.nonces = server.nonces
      /\ server'.price = server.price /\ server'.payTo = server.payTo
  <2> HIDE DEF r
  <2>1. \/ server' = [server EXCEPT !.busy = None, !.spent[r.body.cred.sub] = @ + server.price]
        \/ server' = [server EXCEPT !.busy = None]
    BY DEF Facilitate, r
  <2> QED BY <2>1 DEF PurchaseInv, ServerShape
<1>4. Requirements' = Requirements /\ (CanQuote' <=> CanQuote)
  BY <1>3 DEF Requirements, CanQuote
<1>5. BusyUnpaid'
  BY <1>3 DEF BusyUnpaid
<1>6. CASE UNCHANGED chain
  BY <1>1, <1>3, <1>4, <1>5, <1>6 DEF PurchaseInv, StoredUnpaid, PaidQuoted
<1>7. CASE \E reported \in BOOLEAN : chain' = chain \cup {Transfer(r, reported)}
  <2>1. /\ P!Pay /\ PaidQuoted'
        /\ \A t \in chain' : t \in chain \/ t.nonce = r.body.pop.nonce
    BY <1>1, <1>7, TransferPays
  <2>2. r.body.pop.nonce \notin DOMAIN server.nonces
    BY <1>1 DEF PurchaseInv, BusyUnpaid
  <2>3. StoredUnpaid'
    BY <1>1, <1>3, <1>4, <2>1, <2>2 DEF PurchaseInv, StoredUnpaid
  <2> QED BY <1>3, <1>5, <2>1, <2>3 DEF PurchaseInv
<1> QED BY <1>2, <1>6, <1>7

\* A restart forgets the nonces, and may leave one payment behind.
LEMMA RestartKeeps ==
    ASSUME PurchaseInv, Restart
    PROVE  PurchaseInv' /\ (UNCHANGED <<issued, chain>> \/ P!Pay)
<1>1. PICK p : server' = [Fresh(p) EXCEPT !.everDenied = server.everDenied]
  BY DEF Restart
<1>2. ServerShape' /\ server'.busy = None /\ DOMAIN server'.nonces = {}
  <2> DEFINE F == Fresh(p)
  <2>1. /\ DOMAIN F.nonces = {} /\ F.busy = None
        /\ F = [price |-> F.price, payTo |-> F.payTo, nonces |-> F.nonces, denied |-> F.denied,
                spent |-> F.spent, busy |-> F.busy, everDenied |-> F.everDenied]
    BY FreshServer
  <2>2. server' = [F EXCEPT !.everDenied = server.everDenied]
    BY <1>1
  <2> HIDE DEF F
  <2> QED BY <2>1, <2>2 DEF ServerShape
<1>3. UNCHANGED issued
  BY DEF Restart
<1>4. PaidQuoted' /\ (UNCHANGED chain \/ P!Pay)
  <2>1. CASE UNCHANGED chain
    BY <2>1, <1>3 DEF PurchaseInv, PaidQuoted
  <2>2. CASE server.busy # None /\ chain' = chain \cup {Transfer(server.busy, FALSE)}
    BY <2>2, <1>3, TransferPays
  <2> QED BY <2>1, <2>2 DEF Restart
<1> QED BY <1>2, <1>3, <1>4 DEF PurchaseInv, StoredUnpaid, BusyUnpaid

\* A denial changes the deny-list only.
LEMMA DenyKeeps ==
    ASSUME PurchaseInv, NEW s, Deny(s)
    PROVE  PurchaseInv' /\ UNCHANGED <<issued, chain>>
<1>1. /\ ServerShape' /\ server'.busy = server.busy /\ server'.nonces = server.nonces
      /\ server'.price = server.price /\ server'.payTo = server.payTo
  BY DEF Deny, PurchaseInv, ServerShape
<1>2. Requirements' = Requirements /\ (CanQuote' <=> CanQuote)
  BY <1>1 DEF Requirements, CanQuote
<1> QED BY <1>1, <1>2 DEF Deny, PurchaseInv, StoredUnpaid, PaidQuoted, BusyUnpaid

\* Every step keeps the invariant and is a quote, a payment or neither.
LEMMA NextPurchase ==
    ASSUME PurchaseInv, [Next]_vars
    PROVE  PurchaseInv' /\ [P!Quote \/ P!Pay]_<<issued, ledger>>
<1>0. UNCHANGED chain => UNCHANGED ledger
  BY DEF ledger
<1>1. ASSUME NEW b \in DOMAIN setup.calls, Client(b) \/ Review(b) \/ RevokeCredential(b)
      PROVE  UNCHANGED sold
  BY <1>1 DEF Client, SubmitCsr, ReadIssuance, Ask, PayOrReturn, Return, Fail, Again, Review,
              RevokeCredential
<1>2. ASSUME NEW r \in net, Issue(r) \/ Repeat(r)
      PROVE  UNCHANGED sold
  BY <1>2 DEF Issue, Repeat
<1>3. CASE Tick \/ UNCHANGED vars
  BY <1>3, <1>0, SoldKept DEF Tick, vars, sold
<1>4. CASE UNCHANGED sold
  BY <1>4, <1>0, SoldKept DEF sold
<1>5. ASSUME NEW r \in net, Challenge(r) PROVE PurchaseInv' /\ [P!Quote \/ P!Pay]_<<issued, ledger>>
  BY <1>5, <1>0, ChallengeKeeps
<1>6. ASSUME NEW r \in net, Settle(r) PROVE PurchaseInv' /\ [P!Quote \/ P!Pay]_<<issued, ledger>>
  BY <1>6, <1>0, SettleKeeps
<1>7. CASE Facilitate
  BY <1>7, <1>0, FacilitateKeeps
<1>8. CASE Restart
  BY <1>8, <1>0, RestartKeeps
<1>9. ASSUME NEW s \in Subs, Deny(s) PROVE PurchaseInv' /\ [P!Quote \/ P!Pay]_<<issued, ledger>>
  BY <1>9, <1>0, DenyKeeps
<1> QED BY <1>1, <1>2, <1>3, <1>4, <1>5, <1>6, <1>7, <1>8, <1>9 DEF Next

\* The enrolment, purchase and settlement protocol implements Purchases: in
\* every behaviour a quote is paid at most once, on its terms and by the
\* identity it was made to, whatever is lost, repeated or restarted.
THEOREM CheckoutImplementsPurchases == Spec => PurchasesSpec
<1>1. Init => P!Init
  BY DEF Init, P!Init
<1>2. PurchaseInv /\ [Next]_vars => PurchaseInv' /\ [P!Quote \/ P!Pay]_<<issued, ledger>>
  BY NextPurchase
<1> QED BY <1>1, <1>2, InitPurchase, PTL DEF Spec, PurchasesSpec, P!Spec, ledger

-----------------------------------------------------------------------------
(* Revocation.                                                             *)

\* Requests and status lists have their fields.
RequestShape ==
    \A r \in net : r = [b |-> r.b, n |-> r.n, copy |-> r.copy, repeated |-> r.repeated,
                        kind |-> r.kind, body |-> r.body, barred |-> r.barred]
StatusShape ==
    /\ status = [e \in {"e1"} |-> status[e]]
    /\ status["e1"] = [body |-> status["e1"].body, size |-> status["e1"].size,
                       revoked |-> status["e1"].revoked]

\* A request sent after the revocation carries a credential that the status
\* list still revokes; such a request is never handed to the facilitator.
BarredRevoked ==
    \A r \in net : r.kind = "pay" /\ r.barred /\ r.body.cred.epoch = "e1" => Revoked(r.body.cred)
BusyNotBarred == server.busy # None => ~server.busy.barred

RevocationInv ==
    RequestShape /\ StatusShape /\ BarredRevoked /\ ServerShape /\ BusyNotBarred /\ RevokedNeverPays

\* No step clears a bit of a status list.
LEMMA RevokedForGood ==
    ASSUME RevocationInv, [Next]_vars
    PROVE  StatusShape' /\ \A c : c.epoch = "e1" /\ Revoked(c) => Revoked(c)'
<1> SUFFICES ASSUME Next, ~UNCHANGED status
             PROVE  StatusShape' /\ \A c : c.epoch = "e1" /\ Revoked(c) => Revoked(c)'
  BY DEF RevocationInv, StatusShape, Revoked, is_revoked, vars
<1>1. \/ status' = [status EXCEPT !["e1"].size = @ + 1]
      \/ \E e, i : status' = [status EXCEPT ![e].revoked = @ \cup {i}]
  <2>1. ASSUME NEW b \in DOMAIN setup.calls, RevokeCredential(b)
        PROVE  \E e, i : status' = [status EXCEPT ![e].revoked = @ \cup {i}]
    BY <2>1 DEF RevokeCredential
  <2>2. ASSUME NEW r \in net, Issue(r)
        PROVE  status' = [status EXCEPT !["e1"].size = @ + 1]
    BY <2>2 DEF Issue, world
  <2>3. ASSUME NEW b \in DOMAIN setup.calls, Client(b) \/ Review(b)
        PROVE  UNCHANGED status
    BY <2>3 DEF Client, SubmitCsr, ReadIssuance, Ask, PayOrReturn, Return, Fail, Again, Review, world
  <2>4. ASSUME NEW r \in net, Challenge(r) \/ Settle(r) \/ Repeat(r)
        PROVE  UNCHANGED status
    BY <2>4 DEF Challenge, Settle, Repeat, world
  <2>5. ASSUME Facilitate \/ Restart \/ Tick \/ \E s \in Subs : Deny(s)
        PROVE  UNCHANGED status
    BY <2>5 DEF Facilitate, Restart, Tick, Deny, world
  <2> QED BY <2>1, <2>2, <2>3, <2>4, <2>5 DEF Next
<1>2. StatusShape' /\ status["e1"].revoked \subseteq status'["e1"].revoked
  <2>1. CASE status' = [status EXCEPT !["e1"].size = @ + 1]
    <3> DEFINE l == status["e1"]
    <3>1. status' = [e \in {"e1"} |-> [l EXCEPT !.size = @ + 1]]
      BY <2>1 DEF RevocationInv, StatusShape
    <3> QED BY <3>1 DEF RevocationInv, StatusShape
  <2>2. CASE \E e, i : status' = [status EXCEPT ![e].revoked = @ \cup {i}]
    <3>1. PICK e, i : status' = [status EXCEPT ![e].revoked = @ \cup {i}]
      BY <2>2
    <3>2. CASE e = "e1"
      <4> DEFINE l == status["e1"]
      <4>1. status' = [x \in {"e1"} |-> [l EXCEPT !.revoked = @ \cup {i}]]
        BY <3>1, <3>2 DEF RevocationInv, StatusShape
      <4> QED BY <4>1 DEF RevocationInv, StatusShape
    <3>3. CASE e # "e1"
      BY <3>1, <3>3 DEF RevocationInv, StatusShape
    <3> QED BY <3>2, <3>3
  <2> QED BY <1>1, <2>1, <2>2
<1> QED BY <1>2 DEF Revoked, is_revoked

\* A client's step sends at most one request, barred when its credential is
\* revoked at that moment.
LEMMA ClientSends ==
    ASSUME RevocationInv, NEW b \in DOMAIN setup.calls, Client(b)
    PROVE  RequestShape' /\ BarredRevoked'
<1>1. UNCHANGED status
  BY DEF Client, SubmitCsr, ReadIssuance, Ask, PayOrReturn, Return, Fail, Again, world
<1>2. \A c : Revoked(c)' <=> Revoked(c)
  BY <1>1 DEF Revoked, is_revoked
<1>3. CASE UNCHANGED net
  BY <1>2, <1>3 DEF RevocationInv, RequestShape, BarredRevoked
<1>4. CASE \E r : /\ Send(b, r)
                  /\ r.kind = "pay" => r.body.cred = buyer[b].cred
  <2>1. PICK r : Send(b, r) /\ (r.kind = "pay" => r.body.cred = buyer[b].cred)
    BY <1>4
  <2> DEFINE m == [b |-> b, n |-> buyer[b].n + 1, copy |-> FALSE, repeated |-> FALSE,
                   kind |-> r.kind, body |-> r.body, barred |-> Revoked(buyer[b].cred)]
  <2>2. net' = net \cup {m}
    BY <2>1 DEF Send
  <2>3. m = [b |-> m.b, n |-> m.n, copy |-> m.copy, repeated |-> m.repeated,
             kind |-> m.kind, body |-> m.body, barred |-> m.barred]
    OBVIOUS
  <2>4. m.kind = "pay" /\ m.barred => Revoked(m.body.cred)
    BY <2>1
  <2> HIDE DEF m
  <2> QED BY <2>2, <2>3, <2>4, <1>2 DEF RevocationInv, RequestShape, BarredRevoked
<1>5. CASE SubmitCsr(b)
  BY SMTT(30), <1>3, <1>4, <1>5 DEF SubmitCsr
<1>6. CASE Ask(b)
  BY SMTT(30), <1>4, <1>6 DEF Ask
<1>7. CASE PayOrReturn(b)
  BY SMTT(30), <1>3, <1>4, <1>7 DEF PayOrReturn
<1> QED BY <1>3, <1>5, <1>6, <1>7 DEF Client, ReadIssuance, Return, Fail, Again

\* Marking a request changes the marks only.
LEMMA RepeatedRequest ==
    ASSUME NEW r, NEW x, NEW y, NEW m,
           r = [b |-> r.b, n |-> r.n, copy |-> r.copy, repeated |-> r.repeated,
                kind |-> r.kind, body |-> r.body, barred |-> r.barred],
           \/ m = [r EXCEPT !.repeated = x]
           \/ m = [r EXCEPT !.repeated = x, !.copy = y]
    PROVE  /\ m = [b |-> m.b, n |-> m.n, copy |-> m.copy, repeated |-> m.repeated,
                   kind |-> m.kind, body |-> m.body, barred |-> m.barred]
           /\ m.kind = r.kind /\ m.body = r.body /\ m.barred = r.barred
OBVIOUS

\* What the network and the servers do to requests: they take one, or repeat
\* it as it is.
LEMMA RequestsKept ==
    ASSUME RevocationInv, [Next]_vars
    PROVE  RequestShape' /\ BarredRevoked'
<1>0. \A c : c.epoch = "e1" /\ Revoked(c) => Revoked(c)'
  BY RevokedForGood
<1>1. CASE net' \subseteq net
  BY <1>0, <1>1 DEF RevocationInv, RequestShape, BarredRevoked
<1>2. ASSUME NEW r \in net, Repeat(r)
      PROVE  RequestShape' /\ BarredRevoked'
  <2> DEFINE one == [r EXCEPT !.repeated = TRUE]
             two == [r EXCEPT !.repeated = TRUE, !.copy = TRUE]
  <2>2. \A m \in net' : m \in net \/ m = one \/ m = two
    BY <1>2 DEF Repeat
  <2>3. \A m \in {one, two} :
            /\ m = [b |-> m.b, n |-> m.n, copy |-> m.copy, repeated |-> m.repeated,
                    kind |-> m.kind, body |-> m.body, barred |-> m.barred]
            /\ m.kind = r.kind /\ m.body = r.body /\ m.barred = r.barred
    <3> TAKE m \in {one, two}
    <3>1. \/ m = [r EXCEPT !.repeated = TRUE]
          \/ m = [r EXCEPT !.repeated = TRUE, !.copy = TRUE]
      BY Zenon
    <3>2. r = [b |-> r.b, n |-> r.n, copy |-> r.copy, repeated |-> r.repeated,
               kind |-> r.kind, body |-> r.body, barred |-> r.barred]
      BY DEF RevocationInv, RequestShape
    <3> QED BY <3>1, <3>2, RepeatedRequest, Zenon
  <2> HIDE DEF one, two
  <2>4. RequestShape'
    BY <2>2, <2>3 DEF RevocationInv, RequestShape
  <2>5. BarredRevoked'
    BY <1>0, <2>2, <2>3 DEF RevocationInv, BarredRevoked
  <2> QED BY <2>4, <2>5
<1>3. ASSUME NEW b \in DOMAIN setup.calls, Review(b) \/ RevokeCredential(b)
      PROVE  net' \subseteq net
  BY <1>3 DEF Review, RevokeCredential
<1>4. ASSUME NEW r \in net, Issue(r) \/ Challenge(r) \/ Settle(r)
      PROVE  net' \subseteq net
  BY <1>4 DEF Issue, Challenge, Settle
<1>5. ASSUME Facilitate \/ Restart \/ Tick \/ (\E s \in Subs : Deny(s)) \/ UNCHANGED vars
      PROVE  net' \subseteq net
  BY <1>5 DEF Facilitate, Restart, Tick, Deny, vars
<1> QED BY <1>1, <1>2, <1>3, <1>4, <1>5, ClientSends DEF Next

\* The gate lets a request through only while its credential is not revoked.
LEMMA GateChecksRevocation ==
    ASSUME StatusShape, NEW r, Gate(r) = "ok"
    PROVE  r.body.cred.epoch = "e1" /\ ~Revoked(r.body.cred)
<1> DEFINE c == r.body.cred
<1>1. check_revocation(c, status) = "ok"
  BY DEF Gate
<1>2. c.epoch \in DOMAIN status /\ ~is_revoked(status[c.epoch], c.idx)
  BY <1>1 DEF check_revocation, fetch_status_list
<1> QED BY <1>2 DEF StatusShape, Revoked

\* The first state satisfies the invariant.
LEMMA InitRevocation == Init => RevocationInv
<1> SUFFICES ASSUME Init PROVE RevocationInv OBVIOUS
<1>1. PICK p : server = Fresh(p)
  BY DEF Init
<1>2. ServerShape /\ BusyNotBarred
  BY <1>1, FreshServer DEF ServerShape, BusyNotBarred
<1>3. StatusShape
  BY DEF Init, StatusShape
<1> QED BY <1>2, <1>3 DEF Init, RevocationInv, RequestShape, BarredRevoked, RevokedNeverPays

\* What a request in the facilitator's hands transfers is not barred.
LEMMA TransferNotBarred ==
    ASSUME RevocationInv, NEW reported, server.busy # None
    PROVE  ~Transfer(server.busy, reported).barred
BY DEF RevocationInv, BusyNotBarred, Transfer

\* The servers keep the chain free of barred requests.
LEMMA ChainKept ==
    ASSUME RevocationInv, [Next]_vars
    PROVE  ServerShape' /\ BusyNotBarred' /\ RevokedNeverPays'
<1>1. CASE UNCHANGED <<server, chain>>
  BY <1>1 DEF RevocationInv, ServerShape, BusyNotBarred, RevokedNeverPays
<1>2. ASSUME NEW r \in net, Challenge(r), ~UNCHANGED server
      PROVE  ServerShape' /\ BusyNotBarred' /\ RevokedNeverPays'
  <2>1. PICK nonces : server' = [server EXCEPT !.nonces = nonces]
    BY <1>2 DEF Challenge
  <2>2. chain' = chain
    BY <1>2 DEF Challenge
  <2> QED BY <2>1, <2>2 DEF RevocationInv, ServerShape, BusyNotBarred, RevokedNeverPays
<1>3. ASSUME NEW r \in net, Settle(r), ~UNCHANGED server
      PROVE  ServerShape' /\ BusyNotBarred' /\ RevokedNeverPays'
  <2> DEFINE consumed == [server EXCEPT !.nonces = Popped(r.body.pop.nonce)]
  <2>1. /\ Gate(r) = "ok" /\ chain' = chain /\ r.kind = "pay"
        /\ server' = consumed \/ server' = [consumed EXCEPT !.busy = r]
    BY <1>3, Zenon DEF Settle
  <2>2. ~r.barred
    BY <2>1, GateChecksRevocation DEF RevocationInv, BarredRevoked
  <2>3. ServerShape' /\ (server'.busy = server.busy \/ server'.busy = r)
    BY <2>1 DEF RevocationInv, ServerShape
  <2> QED BY <2>1, <2>2, <2>3 DEF RevocationInv, BusyNotBarred, RevokedNeverPays
<1>4. CASE Facilitate
  <2>1. server.busy # None
    BY <1>4 DEF Facilitate
  <2>2. \A t \in chain' : t \in chain \/ \E reported : t = Transfer(server.busy, reported)
    BY <1>4 DEF Facilitate
  <2>3. RevokedNeverPays'
    BY <2>1, <2>2, TransferNotBarred DEF RevocationInv, RevokedNeverPays
  <2>4. \/ \E s : server' = [server EXCEPT !.busy = None, !.spent[s] = @ + server.price]
        \/ server' = [server EXCEPT !.busy = None]
    BY <1>4 DEF Facilitate
  <2>5. ServerShape' /\ server'.busy = None
    BY <2>4 DEF RevocationInv, ServerShape
  <2> QED BY <2>3, <2>5 DEF BusyNotBarred
<1>5. CASE Restart
  <2>1. PICK p : server' = [Fresh(p) EXCEPT !.everDenied = server.everDenied]
    BY <1>5 DEF Restart
  <2>2. ServerShape' /\ server'.busy = None
    <3> DEFINE F == Fresh(p)
    <3>1. /\ F.busy = None
          /\ F = [price |-> F.price, payTo |-> F.payTo, nonces |-> F.nonces, denied |-> F.denied,
                  spent |-> F.spent, busy |-> F.busy, everDenied |-> F.everDenied]
      BY FreshServer
    <3>2. server' = [F EXCEPT !.everDenied = server.everDenied]
      BY <2>1
    <3> HIDE DEF F
    <3> QED BY <3>1, <3>2 DEF ServerShape
  <2>3. \/ UNCHANGED chain
        \/ server.busy # None /\ chain' = chain \cup {Transfer(server.busy, FALSE)}
    BY <1>5 DEF Restart
  <2>4. RevokedNeverPays'
    <3>1. server.busy # None => ~Transfer(server.busy, FALSE).barred
      BY TransferNotBarred
    <3> QED BY <2>3, <3>1 DEF RevocationInv, RevokedNeverPays
  <2> QED BY <2>2, <2>4 DEF BusyNotBarred
<1>6. ASSUME NEW s \in Subs, Deny(s)
      PROVE  ServerShape' /\ BusyNotBarred' /\ RevokedNeverPays'
  <2>1. ServerShape' /\ server'.busy = server.busy /\ chain' = chain
    BY <1>6 DEF Deny, RevocationInv, ServerShape
  <2> QED BY <2>1 DEF RevocationInv, BusyNotBarred, RevokedNeverPays
<1>7. ASSUME NEW b \in DOMAIN setup.calls, Client(b) \/ Review(b) \/ RevokeCredential(b)
      PROVE  UNCHANGED <<server, chain>>
  BY <1>7 DEF Client, SubmitCsr, ReadIssuance, Ask, PayOrReturn, Return, Fail, Again, Review,
              RevokeCredential, sold
<1>8. ASSUME NEW r \in net, Issue(r) \/ Repeat(r)
      PROVE  UNCHANGED <<server, chain>>
  BY <1>8 DEF Issue, Repeat, sold
<1>9. ASSUME NEW r \in net, Challenge(r) \/ Settle(r)
      PROVE  UNCHANGED chain
  BY <1>9 DEF Challenge, Settle
<1>10. CASE Tick \/ UNCHANGED vars
  BY <1>1, <1>10 DEF Tick, vars, sold
<1> QED BY <1>1, <1>2, <1>3, <1>4, <1>5, <1>6, <1>7, <1>8, <1>9, <1>10 DEF Next

\* Whatever is delayed, repeated or restarted, no transfer is made for a
\* request that was sent after its credential had been revoked: the gate asks
\* the status list again before it settles, and bits are never cleared.
THEOREM RevocationStopsPayment == Spec => []RevokedNeverPays
<1>1. RevocationInv /\ [Next]_vars => RevocationInv'
  BY RevokedForGood, RequestsKept, ChainKept DEF RevocationInv
<1>2. RevocationInv => RevokedNeverPays
  BY DEF RevocationInv
<1> QED BY <1>1, <1>2, InitRevocation, PTL DEF Spec

-----------------------------------------------------------------------------
(* What the steps do, for the theorems below.                              *)

BuyerFields == {"pc", "cred", "n", "at", "last", "code", "body", "out"}
RequestFields == {"b", "n", "copy", "repeated", "kind", "body", "barred"}
ServerFields == {"price", "payTo", "nonces", "denied", "spent", "busy", "everDenied"}
Kinds == {"issue", "ask", "pay"}

BuyerTyped(b) ==
    /\ DOMAIN buyer[b] = BuyerFields
    /\ buyer[b].pc \in {"enrol", "issue", "get", "ask", "pay", "read", "done"}
    /\ buyer[b].n \in Nat /\ buyer[b].n <= setup.sends
    /\ buyer[b].at \in Nat /\ buyer[b].at <= now
    /\ buyer[b].out # None => buyer[b].pc = "done"
    /\ buyer[b].pc \in Kinds => buyer[b].last = buyer[b].pc

\* A request is one its client has sent.
RequestTyped(r) ==
    /\ DOMAIN r = RequestFields /\ r.b \in DOMAIN setup.calls /\ r.kind \in Kinds
    /\ r.n \in Nat /\ r.n <= buyer[r.b].n /\ r.copy \in BOOLEAN

Typed ==
    /\ setup \in Setups /\ now \in Nat /\ now <= setup.until
    /\ DOMAIN buyer = DOMAIN setup.calls /\ \A b \in DOMAIN setup.calls : BuyerTyped(b)
    /\ \A r \in net : RequestTyped(r)
    /\ DOMAIN issuer = DOMAIN setup.calls
    /\ \A b \in DOMAIN setup.calls : DOMAIN issuer[b] = {"pending", "cred"}
    /\ DOMAIN status = {"e1"} /\ DOMAIN status["e1"] = {"body", "size", "revoked"}
    /\ status["e1"].body = "ok" /\ status["e1"].size \in Nat
    /\ DOMAIN server = ServerFields /\ server.price \in Nat
    /\ DOMAIN server.nonces \subseteq Nonces /\ server.spent \in [Subs -> Nat]
    /\ server.busy # None => RequestTyped(server.busy) /\ server.busy.kind = "pay"

\* Only client b changes.
Only(b) ==
    /\ DOMAIN buyer' = DOMAIN setup.calls /\ DOMAIN buyer'[b] = BuyerFields
    /\ \A c \in DOMAIN setup.calls : c # b => buyer'[c] = buyer[c]

\* What request m of client b carries when it was sent at time t.
Carries(m, b, t) ==
    /\ m.kind = "issue" => m.body.iss = Call(b).sub
    /\ m.kind \in {"ask", "pay"} => m.body.cred = buyer[b].cred
    /\ m.kind = "pay" =>
           /\ m.body.url = Call(b).url
           /\ m.body.pop.sub = Call(b).sub /\ m.body.pop.aud = Call(b).url
           /\ m.body.pop.iat = t /\ m.body.pop.exp = t + PopLifetime
           /\ m.body.pop.key = Call(b).key

\* A client sends, ends, goes on, or hears.
Sent(b, m) ==
    /\ Only(b) /\ net' = net \cup {m}
    /\ DOMAIN m = RequestFields /\ m.b = b /\ m.n = buyer[b].n + 1 /\ m.copy = FALSE
    /\ m.kind \in Kinds /\ Carries(m, b, now)
    /\ buyer[b].pc \in {"enrol", "get", "read"} /\ buyer[b].n < setup.sends
    /\ buyer'[b].pc = m.kind /\ buyer'[b].last = m.kind /\ buyer'[b].n = buyer[b].n + 1
    /\ buyer'[b].at = now /\ buyer'[b].cred = buyer[b].cred /\ buyer'[b].out = buyer[b].out
    /\ UNCHANGED <<setup, now, issuer, status, server, issued, chain>>

Same(b) ==
    /\ buyer'[b].n = buyer[b].n /\ buyer'[b].at = buyer[b].at /\ buyer'[b].last = buyer[b].last

Ended(b) ==
    /\ Only(b) /\ Same(b) /\ buyer[b].pc # "done" /\ buyer'[b].pc = "done"
    /\ buyer'[b].cred = buyer[b].cred
    /\ \/ buyer'[b].out \in {"csr_error", "ceremony_failed", "transport"}
       \/ /\ buyer[b].pc = "read" /\ buyer[b].last \in {"ask", "pay"}
          /\ buyer'[b].out = buyer[b].code
    /\ UNCHANGED <<setup, now, net, issuer, status, server, issued, chain>>

Moved(b) ==
    /\ Only(b) /\ Same(b)
    /\ buyer[b].pc \in {"read", "done"} /\ buyer'[b].pc \in {"enrol", "get"}
    /\ buyer'[b].out = None \/ (buyer[b].pc = "read" /\ buyer'[b].out = buyer[b].out)
    /\ \/ buyer'[b].cred = buyer[b].cred
       \/ /\ buyer[b].pc = "read" /\ buyer[b].last = "issue" /\ buyer[b].code = "200"
          /\ buyer'[b].cred = buyer[b].body
    /\ UNCHANGED <<setup, now, net, issuer, status, server, issued, chain>>

Hears(r, code, body) ==
    /\ ~r.copy /\ buyer[r.b].pc = r.kind /\ buyer[r.b].n = r.n
    /\ Only(r.b) /\ Same(r.b) /\ buyer'[r.b].pc = "read"
    /\ buyer'[r.b].code = code /\ buyer'[r.b].body = body
    /\ buyer'[r.b].cred = buyer[r.b].cred /\ buyer'[r.b].out = buyer[r.b].out
AnswerTo(r, code, body) == UNCHANGED buyer \/ Hears(r, code, body)

\* An answer changes the client as Hears says, or not at all.
LEMMA AnswerAnswers ==
    ASSUME Typed, NEW r, r.b \in DOMAIN setup.calls, NEW code, NEW body, Answer(r, code, body)
    PROVE  AnswerTo(r, code, body)
<1>1. DOMAIN buyer = DOMAIN setup.calls /\ DOMAIN buyer[r.b] = BuyerFields
  BY DEF Typed, BuyerTyped
<1>2. CASE UNCHANGED buyer
  BY <1>2 DEF AnswerTo
<1>3. CASE /\ ~r.copy /\ buyer[r.b].pc = r.kind /\ buyer[r.b].n = r.n
           /\ buyer' = [buyer EXCEPT ![r.b].pc = "read", ![r.b].code = code, ![r.b].body = body]
  <2>1. Only(r.b) /\ Same(r.b)
    BY <1>1, <1>3 DEF Only, Same, BuyerFields
  <2>2. /\ buyer'[r.b].pc = "read" /\ buyer'[r.b].code = code /\ buyer'[r.b].body = body
        /\ buyer'[r.b].cred = buyer[r.b].cred /\ buyer'[r.b].out = buyer[r.b].out
    BY <1>1, <1>3 DEF BuyerFields
  <2> QED BY <1>3, <2>1, <2>2 DEF AnswerTo, Hears
<1> QED BY <1>2, <1>3 DEF Answer

\* Sending a request.
LEMMA SendSends ==
    ASSUME Typed, NEW b \in DOMAIN setup.calls, NEW k \in Kinds, NEW body,
           buyer[b].pc \in {"enrol", "get", "read"}, Send(b, [kind |-> k, body |-> body]),
           Carries([kind |-> k, body |-> body], b, now),
           UNCHANGED <<setup, now, issuer, status, server, issued, chain>>
    PROVE  \E m : Sent(b, m)
<1> DEFINE m == [b |-> b, n |-> buyer[b].n + 1, copy |-> FALSE, repeated |-> FALSE,
                 kind |-> k, body |-> body, barred |-> Revoked(buyer[b].cred)]
           n == buyer[b].n + 1
<1>1. DOMAIN buyer = DOMAIN setup.calls /\ DOMAIN buyer[b] = BuyerFields
  BY DEF Typed, BuyerTyped
<1>2. /\ net' = net \cup {m} /\ buyer[b].n < setup.sends
      /\ buyer' = [buyer EXCEPT ![b].pc = k, ![b].last = k, ![b].n = n, ![b].at = now,
                                ![b].code = None, ![b].body = None]
  BY DEF Send
<1>3. /\ DOMAIN m = RequestFields /\ m.b = b /\ m.n = n /\ m.copy = FALSE
      /\ m.kind = k /\ m.body = body
  BY DEF RequestFields
<1>4. Carries(m, b, now)
  <2> HIDE DEF m
  <2> QED BY <1>3 DEF Carries
<1> HIDE DEF m, n
<1>5. /\ DOMAIN buyer' = DOMAIN setup.calls
      /\ \A c \in DOMAIN setup.calls : c # b => buyer'[c] = buyer[c]
  BY <1>1, <1>2
<1>6. /\ DOMAIN buyer'[b] = BuyerFields
      /\ buyer'[b].pc = k /\ buyer'[b].last = k /\ buyer'[b].n = n /\ buyer'[b].at = now
      /\ buyer'[b].cred = buyer[b].cred /\ buyer'[b].out = buyer[b].out
  BY <1>1, <1>2 DEF BuyerFields
<1>7. n = buyer[b].n + 1
  BY DEF n
<1>8. /\ Only(b) /\ m.n = buyer[b].n + 1 /\ buyer'[b].n = buyer[b].n + 1
      /\ m.kind \in Kinds /\ buyer'[b].pc = m.kind /\ buyer'[b].last = m.kind
  BY <1>3, <1>5, <1>6, <1>7 DEF Only
<1>9. Sent(b, m)
  BY <1>2, <1>3, <1>4, <1>6, <1>8 DEF Sent
<1> QED BY <1>9

\* What a client does by itself.
LEMMA ClientSteps ==
    ASSUME Typed, NEW b \in DOMAIN setup.calls, Client(b)
    PROVE  (\E m : Sent(b, m)) \/ Ended(b) \/ Moved(b)
<1>1. DOMAIN buyer = DOMAIN setup.calls /\ DOMAIN buyer[b] = BuyerFields
  BY DEF Typed, BuyerTyped
<1>2. ASSUME NEW out, Done(b, out)
      PROVE  Only(b) /\ Same(b) /\ buyer'[b].pc = "done" /\ buyer'[b].out = out
             /\ buyer'[b].cred = buyer[b].cred
  BY <1>1, <1>2 DEF Done, Only, Same, BuyerFields
<1>3. CASE SubmitCsr(b)
  <2>1. CASE Done(b, "csr_error") /\ UNCHANGED net
    BY <1>2, <1>3, <2>1 DEF SubmitCsr, Ended, world, sold
  <2>2. CASE Send(b, [kind |-> "issue", body |-> Csr(b)])
    <3>1. Carries([kind |-> "issue", body |-> Csr(b)], b, now)
      BY DEF Carries, Csr
    <3> HIDE DEF Csr
    <3> QED BY SMTT(30), <1>3, <2>2, <3>1, SendSends DEF SubmitCsr, Kinds, world, sold
  <2> QED BY <1>3, <2>1, <2>2 DEF SubmitCsr
<1>4. CASE ReadIssuance(b)
  <2>1. buyer[b].pc = "read" /\ buyer[b].last = "issue"
        /\ UNCHANGED <<setup, now, net, issuer, status, server, issued, chain>>
    BY <1>4 DEF ReadIssuance, world, sold
  <2>2. CASE buyer[b].code = "200" /\ buyer' = [buyer EXCEPT ![b].pc = "get", ![b].cred = buyer[b].body]
    <3>1. /\ Only(b) /\ Same(b) /\ buyer'[b].pc = "get" /\ buyer'[b].cred = buyer[b].body
          /\ buyer'[b].out = buyer[b].out
      BY <1>1, <2>2 DEF Only, Same, BuyerFields
    <3> QED BY <2>1, <2>2, <3>1 DEF Moved
  <2>3. CASE Goto(b, "enrol")
    <3>1. /\ Only(b) /\ Same(b) /\ buyer'[b].pc = "enrol" /\ buyer'[b].cred = buyer[b].cred
          /\ buyer'[b].out = buyer[b].out
      BY <1>1, <2>3 DEF Only, Same, BuyerFields, Goto
    <3> QED BY <2>1, <3>1 DEF Moved
  <2>4. CASE Done(b, "ceremony_failed") \/ Done(b, "csr_error")
    BY <1>2, <2>1, <2>4 DEF Ended
  <2> QED BY <1>4, <2>2, <2>3, <2>4 DEF ReadIssuance
<1>5. CASE Ask(b)
  <2> DEFINE body == [cred |-> buyer[b].cred, url |-> Call(b).url]
  <2>1. Carries([kind |-> "ask", body |-> body], b, now)
    BY DEF Carries
  <2>2. Send(b, [kind |-> "ask", body |-> body]) /\ buyer[b].pc = "get"
        /\ UNCHANGED <<setup, now, issuer, status, server, issued, chain>>
    BY <1>5 DEF Ask, world, sold
  <2> HIDE DEF body
  <2> QED BY SMTT(30), <2>1, <2>2, SendSends DEF Kinds
<1>6. CASE PayOrReturn(b)
  <2>0. buyer[b].pc = "read" /\ buyer[b].last = "ask"
        /\ UNCHANGED <<setup, now, issuer, status, server, issued, chain>>
    BY <1>6 DEF PayOrReturn, world, sold
  <2>1. CASE Done(b, buyer[b].code) /\ UNCHANGED net
    BY <1>2, <2>0, <2>1 DEF Ended
  <2> DEFINE q == buyer[b].body
             body == [cred |-> buyer[b].cred, url |-> Call(b).url,
                      pop |-> Pop(b, q.nonce), terms |-> Payment(b, q.terms)]
  <2>2. CASE Send(b, [kind |-> "pay", body |-> body])
    <3>1. Carries([kind |-> "pay", body |-> body], b, now)
      BY DEF Carries, Pop
    <3> HIDE DEF body
    <3> QED BY SMTT(30), <2>0, <2>2, <3>1, SendSends DEF Kinds
  <2> QED BY <1>6, <2>1, <2>2 DEF PayOrReturn
<1>7. CASE Return(b)
  BY <1>2, <1>7 DEF Return, Ended, world, sold
<1>8. CASE Fail(b)
  BY <1>2, <1>8 DEF Fail, Ended, world, sold
<1>9. CASE Again(b)
  <2>1. /\ Only(b) /\ Same(b) /\ buyer'[b].pc \in {"enrol", "get"} /\ buyer'[b].cred = buyer[b].cred
        /\ buyer'[b].out = None
    BY <1>1, <1>9 DEF Again, Beginning, Only, Same, BuyerFields
  <2> QED BY <1>9, <2>1 DEF Again, Moved, world, sold
<1> QED BY <1>3, <1>4, <1>5, <1>6, <1>7, <1>8, <1>9 DEF Client

\* The issuer answers: with what it has stored, with a new credential, or with
\* a refusal, which may park the ceremony.
Enrolled(r, code, body) ==
    /\ r.kind = "issue" /\ net' = net \ {r} /\ AnswerTo(r, code, body)
    /\ DOMAIN issuer' = DOMAIN issuer
    /\ \A b \in DOMAIN issuer : DOMAIN issuer'[b] = {"pending", "cred"}
    /\ \A b \in DOMAIN issuer : b # r.b => issuer'[b].cred = issuer[b].cred
    /\ \/ /\ issuer'[r.b].cred = issuer[r.b].cred /\ status' = status
          /\ code = "200" => body = issuer[r.b].cred
       \/ /\ issuer[r.b].cred = None /\ issuer'[r.b].cred = Minted(r.body) /\ body = Minted(r.body)
          /\ IssuerAuthorized(setup.issuer, r.body.org, setup.dns)
          /\ status' = [status EXCEPT !["e1"].size = status["e1"].size + 1]
    /\ UNCHANGED <<setup, now, server, issued, chain>>

\* What Issue does.
LEMMA IssueSteps ==
    ASSUME Typed, NEW r \in net, Issue(r)
    PROVE  \E code, body : Enrolled(r, code, body)
<1> DEFINE row == issuer[r.b]
           refusal == IF ~WellFormedCsr(r.body) THEN "400"
                      ELSE IF row.cred # None THEN "ok" ELSE IssueRefusal(r.body)
           min == Minted(r.body)
<1>1. /\ r.b \in DOMAIN setup.calls /\ DOMAIN issuer = DOMAIN setup.calls
      /\ \A b \in DOMAIN issuer : DOMAIN issuer[b] = {"pending", "cred"}
  BY DEF Typed, RequestTyped
<1>2. r.kind = "issue" /\ net' = net \ {r} /\ UNCHANGED <<setup, now, server, issued, chain>>
  BY DEF Issue, sold
<1>3. ASSUME NEW code, NEW body, Answer(r, code, body), UNCHANGED <<issuer, status>>,
             code = "200" => body = row.cred
      PROVE  Enrolled(r, code, body)
  BY <1>1, <1>2, <1>3, AnswerAnswers DEF Enrolled
<1>4. ASSUME NEW p, Answer(r, "409", None), issuer' = [issuer EXCEPT ![r.b].pending = p],
             status' = status
      PROVE  Enrolled(r, "409", None)
  <2>1. /\ DOMAIN issuer' = DOMAIN issuer
        /\ \A b \in DOMAIN issuer : /\ DOMAIN issuer'[b] = {"pending", "cred"}
                                    /\ issuer'[b].cred = issuer[b].cred
    BY <1>1, <1>4
  <2> QED BY <1>1, <1>2, <1>4, <2>1, AnswerAnswers DEF Enrolled
<1>5. ASSUME Answer(r, "200", min), row.cred = None, refusal = "ok",
             issuer' = [issuer EXCEPT ![r.b].cred = min],
             status' = [status EXCEPT !["e1"].size = @ + 1]
      PROVE  Enrolled(r, "200", min)
  <2>0. IssuerAuthorized(setup.issuer, r.body.org, setup.dns)
    BY <1>5 DEF IssueRefusal
  <2> HIDE DEF min
  <2>1. /\ DOMAIN issuer' = DOMAIN issuer /\ issuer'[r.b].cred = min
        /\ \A b \in DOMAIN issuer : /\ DOMAIN issuer'[b] = {"pending", "cred"}
                                    /\ b # r.b => issuer'[b].cred = issuer[b].cred
    BY <1>1, <1>5
  <2>2. AnswerTo(r, "200", min)
    BY <1>1, <1>5, AnswerAnswers
  <2>3. min = Minted(r.body)
    BY DEF min
  <2>4. status' = [status EXCEPT !["e1"].size = status["e1"].size + 1]
    BY <1>5
  <2> QED BY <1>1, <1>2, <1>5, <2>0, <2>1, <2>2, <2>3, <2>4 DEF Enrolled
<1>6. \/ refusal # "ok" /\ Answer(r, refusal, None) /\ UNCHANGED world
      \/ refusal = "ok" /\ row.cred # None /\ Answer(r, "200", row.cred) /\ UNCHANGED world
      \/ /\ refusal = "ok" /\ row.cred = None
         /\ \/ /\ Answer(r, "409", None) /\ issuer' = [issuer EXCEPT ![r.b].pending = "new"]
               /\ UNCHANGED status
            \/ Answer(r, "409", None) /\ UNCHANGED world
            \/ Answer(r, "403", None) /\ UNCHANGED world
            \/ /\ Answer(r, "200", min) /\ issuer' = [issuer EXCEPT ![r.b].cred = min]
               /\ status' = [status EXCEPT !["e1"].size = @ + 1]
  BY DEF Issue
<1>7. refusal \in {"ok", "400", "403"}
  BY DEF IssueRefusal
<1> HIDE DEF row, refusal, min
<1>8. CASE refusal # "ok" /\ Answer(r, refusal, None) /\ UNCHANGED world
  BY <1>3, <1>7, <1>8 DEF world
<1>9. CASE Answer(r, "200", row.cred) /\ UNCHANGED world
  BY <1>3, <1>9 DEF world
<1>10. CASE (Answer(r, "409", None) \/ Answer(r, "403", None)) /\ UNCHANGED world
  BY <1>3, <1>10 DEF world
<1> QED BY <1>4, <1>5, <1>6, <1>8, <1>9, <1>10

\* The paywall's settings and its deny-list stay.
Settings ==
    /\ DOMAIN server' = ServerFields /\ server'.price = server.price
    /\ server'.denied = server.denied /\ server'.everDenied = server.everDenied

\* The first request is answered.
AskRefused(r) ==
    LET c == r.body.cred
    IN  /\ c # None
        /\ \/ ~verify_credential(c, setup.dns, now) \/ c.sub \in server.denied
           \/ check_revocation(c, status) = "StatusListError"
Asked(r, code, body) ==
    /\ r.kind = "ask" /\ net' = net \ {r} /\ AnswerTo(r, code, body)
    /\ code \in {"401", "402", "403", "500"} /\ (code = "403" => AskRefused(r))
    /\ Settings /\ server'.busy = server.busy /\ server'.spent = server.spent
    /\ DOMAIN server'.nonces \subseteq DOMAIN server.nonces \cup Nonces
    /\ UNCHANGED <<setup, now, issuer, status, chain>>

\* What Challenge does.
LEMMA ChallengeSteps ==
    ASSUME Typed, NEW r \in net, Challenge(r)
    PROVE  \E code, body : Asked(r, code, body)
<1> DEFINE c == r.body.cred
           refusal == IF c = None THEN "401"
                      ELSE IF ~verify_credential(c, setup.dns, now) \/ c.sub \in server.denied THEN "403"
                      ELSE IF check_revocation(c, status) = "StatusListError" THEN "403"
                      ELSE IF check_revocation(c, status) = "raises" THEN "500" ELSE "ok"
<1>1. r.b \in DOMAIN setup.calls /\ DOMAIN server = ServerFields
  BY DEF Typed, RequestTyped
<1>2. r.kind = "ask" /\ net' = net \ {r} /\ UNCHANGED <<setup, now, issuer, status, chain>>
  BY DEF Challenge, world
<1>3. \/ refusal # "ok" /\ Answer(r, refusal, None) /\ UNCHANGED <<server, issued>>
      \/ \E n \in Nonces : /\ server' = [server EXCEPT !.nonces = WithNonce(n, c.sub)]
                           /\ \E code \in {"402", "500"} : \E body : Answer(r, code, body)
  BY Zenon DEF Challenge
<1>4. refusal \in {"ok", "401", "403", "500"} /\ (refusal = "403" => AskRefused(r))
  BY DEF AskRefused
<1> HIDE DEF refusal, c
<1>5. CASE refusal # "ok" /\ Answer(r, refusal, None) /\ UNCHANGED <<server, issued>>
  <2>1. Settings /\ server' = server
    BY <1>1, <1>5 DEF Settings
  <2>2. AnswerTo(r, refusal, None)
    BY <1>1, <1>5, AnswerAnswers
  <2>3. Asked(r, refusal, None)
    BY <1>2, <1>4, <1>5, <2>1, <2>2 DEF Asked
  <2> QED BY <2>3
<1>6. ASSUME NEW n \in Nonces, NEW code \in {"402", "500"}, NEW body, Answer(r, code, body),
             server' = [server EXCEPT !.nonces = WithNonce(n, c.sub)]
      PROVE  Asked(r, code, body)
  <2>1. DOMAIN WithNonce(n, c.sub) \subseteq DOMAIN server.nonces \cup Nonces
    BY DEF WithNonce
  <2>2. /\ Settings /\ server'.busy = server.busy /\ server'.spent = server.spent
        /\ server'.nonces = WithNonce(n, c.sub)
    BY <1>1, <1>6 DEF Settings, ServerFields
  <2>3. AnswerTo(r, code, body)
    BY <1>1, <1>6, AnswerAnswers
  <2> QED BY <1>2, <2>1, <2>2, <2>3 DEF Asked
<1> QED BY <1>3, <1>5, <1>6

\* The second request is refused, or handed to the facilitator.
Decided(r, code) ==
    /\ r.kind = "pay" /\ server.busy = None /\ net' = net \ {r}
    /\ \/ /\ AnswerTo(r, code, None) /\ server'.busy = None
          /\ code \in {"402", "403", "409", "500"} /\ (code = "403" => Gate(r) = "403")
       \/ UNCHANGED buyer /\ server'.busy = r
    /\ Settings /\ server'.spent = server.spent
    /\ DOMAIN server'.nonces \subseteq DOMAIN server.nonces
    /\ UNCHANGED <<setup, now, issuer, status, chain>>

\* What Settle does.
LEMMA SettleSteps ==
    ASSUME Typed, NEW r \in net, Settle(r)
    PROVE  \E code : Decided(r, code)
<1> DEFINE n == r.body.pop.nonce
           consumed == [server EXCEPT !.nonces = Popped(n)]
<1>1. r.b \in DOMAIN setup.calls /\ DOMAIN server = ServerFields
  BY DEF Typed, RequestTyped
<1>2. /\ r.kind = "pay" /\ server.busy = None /\ net' = net \ {r}
      /\ UNCHANGED <<setup, now, issuer, status, chain>>
  BY DEF Settle, world
<1>3. \/ Gate(r) # "ok" /\ Answer(r, Gate(r), None) /\ UNCHANGED server
      \/ \E code \in {"402", "409", "500"} : Answer(r, code, None) /\ server' = consumed
      \/ server' = [consumed EXCEPT !.busy = r] /\ UNCHANGED buyer
  BY Zenon DEF Settle
<1>4. Gate(r) \in {"ok", "403", "500"}
  BY DEF Gate
<1>5. CASE Gate(r) # "ok" /\ Answer(r, Gate(r), None) /\ UNCHANGED server
  <2>1. Settings /\ server' = server
    BY <1>1, <1>5 DEF Settings
  <2>2. AnswerTo(r, Gate(r), None)
    BY <1>1, <1>5, AnswerAnswers
  <2>3. Decided(r, Gate(r))
    BY <1>2, <1>4, <1>5, <2>1, <2>2 DEF Decided
  <2> QED BY <2>3
<1>6. ASSUME server' = consumed \/ server' = [consumed EXCEPT !.busy = r]
      PROVE  /\ Settings /\ server'.spent = server.spent
             /\ DOMAIN server'.nonces \subseteq DOMAIN server.nonces
             /\ server' = consumed => server'.busy = server.busy
             /\ server' = [consumed EXCEPT !.busy = r] => server'.busy = r
  <2> DEFINE p == Popped(n)
  <2>1. DOMAIN p \subseteq DOMAIN server.nonces
    BY DEF Popped
  <2> HIDE DEF p, n
  <2>2. \/ server' = [server EXCEPT !.nonces = p]
        \/ server' = [[server EXCEPT !.nonces = p] EXCEPT !.busy = r]
    BY <1>6 DEF p
  <2>3. server'.nonces = p
    BY <1>1, <2>2 DEF ServerFields
  <2> QED BY <1>1, <1>6, <2>1, <2>2, <2>3 DEF Settings, ServerFields
<1>7. ASSUME NEW code \in {"402", "409", "500"}, Answer(r, code, None), server' = consumed
      PROVE  Decided(r, code)
  <2>1. AnswerTo(r, code, None)
    BY <1>1, <1>7, AnswerAnswers
  <2> HIDE DEF consumed
  <2> QED BY <1>2, <1>6, <1>7, <2>1 DEF Decided
<1>8. CASE server' = [consumed EXCEPT !.busy = r] /\ UNCHANGED buyer
  <2>1. server'.busy = r /\ Settings /\ server'.spent = server.spent
        /\ DOMAIN server'.nonces \subseteq DOMAIN server.nonces
    BY <1>6, <1>8
  <2> HIDE DEF consumed
  <2>2. Decided(r, "402")
    BY <1>2, <1>8, <2>1 DEF Decided
  <2> QED BY <2>2
<1> QED BY <1>3, <1>5, <1>7, <1>8

\* The facilitator settles the request at hand, and its client is answered.
Settled(code) ==
    /\ server.busy # None /\ AnswerTo(server.busy, code, None)
    /\ \/ code = "200" /\ chain' = chain \cup {Transfer(server.busy, TRUE)}
       \/ code = "402" /\ chain' \in {chain, chain \cup {Transfer(server.busy, FALSE)}}
    /\ Settings /\ server'.busy = None /\ server'.nonces = server.nonces
    /\ server'.spent \in [Subs -> Nat]
    /\ UNCHANGED <<setup, now, net, issuer, status>>

\* What Facilitate does.
LEMMA FacilitateSteps ==
    ASSUME Typed, Facilitate
    PROVE  \E code : Settled(code)
<1> DEFINE r == server.busy
           s == r.body.cred.sub
           spent == [server.spent EXCEPT ![s] = server.spent[s] + server.price]
<1>1. /\ r # None /\ r.b \in DOMAIN setup.calls /\ DOMAIN server = ServerFields
      /\ server.spent \in [Subs -> Nat] /\ server.price \in Nat
      /\ UNCHANGED <<setup, now, net, issuer, status>>
  BY DEF Typed, RequestTyped, Facilitate, world
<1>2. spent \in [Subs -> Nat]
  <2>1. \A x \in Subs : server.spent[x] + server.price \in Nat
    BY SMTT(30), <1>1
  <2> HIDE DEF s
  <2> QED BY <1>1, <2>1
<1>3. \/ /\ chain' = chain \cup {Transfer(r, TRUE)} /\ Answer(r, "200", None)
         /\ server' = [server EXCEPT !.busy = None, !.spent = spent]
      \/ /\ chain' \in {chain, chain \cup {Transfer(r, FALSE)}} /\ Answer(r, "402", None)
         /\ server' = [server EXCEPT !.busy = None]
  BY DEF Facilitate
<1> HIDE DEF spent, s
<1>4. /\ Settings /\ server'.busy = None /\ server'.nonces = server.nonces
      /\ server'.spent \in [Subs -> Nat]
  BY <1>1, <1>2, <1>3 DEF Settings, ServerFields
<1>5. CASE chain' = chain \cup {Transfer(r, TRUE)} /\ Answer(r, "200", None)
  <2>1. AnswerTo(r, "200", None)
    BY <1>1, <1>5, AnswerAnswers
  <2>2. Settled("200")
    BY <1>1, <1>4, <1>5, <2>1 DEF Settled
  <2> QED BY <2>2
<1>6. CASE chain' \in {chain, chain \cup {Transfer(r, FALSE)}} /\ Answer(r, "402", None)
  <2>1. AnswerTo(r, "402", None)
    BY <1>1, <1>6, AnswerAnswers
  <2>2. Settled("402")
    BY <1>1, <1>4, <1>6, <2>1 DEF Settled
  <2> QED BY <2>2
<1> QED BY <1>3, <1>5, <1>6

\* The paywall starts anew; the payment under way may be made.
Restarted ==
    /\ DOMAIN server' = ServerFields /\ server'.price \in Nat
    /\ DOMAIN server'.nonces = {} /\ server'.spent \in [Subs -> Nat] /\ server'.busy = None
    /\ server'.denied = {} /\ server'.everDenied = server.everDenied
    /\ \/ chain' = chain
       \/ server.busy # None /\ chain' = chain \cup {Transfer(server.busy, FALSE)}
    /\ UNCHANGED <<setup, now, buyer, net, issuer, status>>

\* What Restart does.
LEMMA RestartSteps ==
    ASSUME Typed, Restart
    PROVE  Restarted
<1>1. PICK p \in setup.prices : server' = [Fresh(p) EXCEPT !.everDenied = server.everDenied]
  BY DEF Restart
<1> DEFINE F == Fresh(p)
<1>2. /\ DOMAIN F = ServerFields /\ F.price = p /\ DOMAIN F.nonces = {} /\ F.busy = None
      /\ F.denied = {} /\ F.spent \in [Subs -> Nat]
  BY SMTT(30) DEF Fresh, ServerFields
<1>3. p \in Nat
  BY CheckoutAssumption DEF Typed
<1> HIDE DEF F
<1>4. server' = [F EXCEPT !.everDenied = server.everDenied]
  BY <1>1 DEF F
<1>5. /\ DOMAIN server' = ServerFields /\ server'.price = p /\ server'.nonces = F.nonces
      /\ server'.spent = F.spent /\ server'.busy = None /\ server'.denied = {}
      /\ server'.everDenied = server.everDenied
  BY <1>2, <1>4 DEF ServerFields
<1> QED BY <1>2, <1>3, <1>5 DEF Restart, Restarted, world

\* A proxy doubles a request: the one stays what it was, the other is a copy.
Repeated(r, one, two) ==
    /\ net' = (net \ {r}) \cup {one, two} /\ r.kind \in {"ask", "pay"}
    /\ DOMAIN one = RequestFields /\ one.b = r.b /\ one.n = r.n /\ one.kind = r.kind
    /\ one.body = r.body /\ one.copy = r.copy
    /\ DOMAIN two = RequestFields /\ two.b = r.b /\ two.n = r.n /\ two.kind = r.kind
    /\ two.body = r.body /\ two.copy = TRUE
    /\ UNCHANGED <<setup, now, buyer, issuer, status, server, chain>>

\* What Repeat does.
LEMMA RepeatSteps ==
    ASSUME Typed, NEW r \in net, Repeat(r)
    PROVE  \E one, two : Repeated(r, one, two)
<1> DEFINE one == [r EXCEPT !.repeated = TRUE]
           two == [r EXCEPT !.repeated = TRUE, !.copy = TRUE]
<1>1. DOMAIN r = RequestFields
  BY DEF Typed, RequestTyped
<1>2. /\ DOMAIN one = RequestFields /\ one.b = r.b /\ one.n = r.n /\ one.kind = r.kind
      /\ one.body = r.body /\ one.copy = r.copy
  BY <1>1 DEF RequestFields
<1>3. /\ DOMAIN two = RequestFields /\ two.b = r.b /\ two.n = r.n /\ two.kind = r.kind
      /\ two.body = r.body /\ two.copy = TRUE
  BY <1>1 DEF RequestFields
<1>4. /\ net' = (net \ {r}) \cup {one, two} /\ r.kind \in {"ask", "pay"}
      /\ UNCHANGED <<setup, now, buyer, issuer, status, server, chain>>
  BY DEF Repeat, world, sold
<1> HIDE DEF one, two
<1>5. Repeated(r, one, two)
  BY <1>2, <1>3, <1>4 DEF Repeated
<1> QED BY <1>5

\* Steps of the operators and of the clock.
Background ==
    /\ UNCHANGED <<setup, buyer, net, chain>>
    /\ now' = now \/ (now' = now + 1 /\ now' <= setup.until)
    /\ DOMAIN issuer' = DOMAIN issuer
    /\ \A b \in DOMAIN issuer : DOMAIN issuer'[b] = {"pending", "cred"}
                                /\ issuer'[b].cred = issuer[b].cred
    /\ DOMAIN status' = {"e1"} /\ DOMAIN status'["e1"] = {"body", "size", "revoked"}
    /\ status'["e1"].body = status["e1"].body /\ status'["e1"].size = status["e1"].size
    /\ status["e1"].revoked \subseteq status'["e1"].revoked
    /\ DOMAIN server' = ServerFields /\ server'.price = server.price
    /\ server'.nonces = server.nonces /\ server'.spent = server.spent
    /\ server'.busy = server.busy
    /\ \E D : server'.denied = server.denied \cup D /\ server'.everDenied = server.everDenied \cup D

\* What they do.
LEMMA BackgroundSteps ==
    ASSUME Typed,
           \/ \E b \in DOMAIN setup.calls : Review(b) \/ RevokeCredential(b)
           \/ (\E s \in Subs : Deny(s)) \/ Tick
    PROVE  Background
<1>0. /\ DOMAIN issuer = DOMAIN setup.calls
      /\ \A b \in DOMAIN setup.calls : DOMAIN issuer[b] = {"pending", "cred"}
      /\ DOMAIN status = {"e1"} /\ DOMAIN status["e1"] = {"body", "size", "revoked"}
      /\ DOMAIN server = ServerFields
  BY DEF Typed
<1>1. server.denied = server.denied \cup {} /\ server.everDenied = server.everDenied \cup {}
  OBVIOUS
<1>2. ASSUME UNCHANGED server
      PROVE  \E D : server'.denied = server.denied \cup D /\ server'.everDenied = server.everDenied \cup D
  BY <1>1, <1>2
<1>3. CASE Tick
  <2>1. /\ now' = now + 1 /\ now < setup.until
        /\ UNCHANGED <<setup, buyer, net, issuer, status, server, chain>>
    BY <1>3 DEF Tick, world, sold
  <2>2. now + 1 <= setup.until
    BY SMTT(30), <2>1, CheckoutAssumption DEF Typed
  <2> QED BY <1>0, <1>2, <2>1, <2>2 DEF Background
<1>4. ASSUME NEW b \in DOMAIN setup.calls, Review(b) PROVE Background
  <2>1. PICK d : issuer' = [issuer EXCEPT ![b].pending = d]
    BY <1>4 DEF Review
  <2>2. UNCHANGED <<setup, now, buyer, net, status, server, chain>>
    BY <1>4 DEF Review, sold
  <2>3. /\ DOMAIN issuer' = DOMAIN issuer
        /\ \A c \in DOMAIN issuer : DOMAIN issuer'[c] = {"pending", "cred"}
                                    /\ issuer'[c].cred = issuer[c].cred
    BY <1>0, <2>1
  <2> QED BY <1>0, <1>2, <2>2, <2>3 DEF Background
<1>5. ASSUME NEW b \in DOMAIN setup.calls, RevokeCredential(b) PROVE Background
  <2> DEFINE e == issuer[b].cred.epoch
             i == issuer[b].cred.idx
             R == status[e].revoked \cup {i}
  <2>1. status' = [status EXCEPT ![e].revoked = R]
    BY <1>5 DEF RevokeCredential
  <2>2. UNCHANGED <<setup, now, buyer, net, issuer, server, chain>>
    BY <1>5 DEF RevokeCredential, sold
  <2>3. status[e].revoked \subseteq R
    OBVIOUS
  <2> HIDE DEF e, R
  <2>4. /\ DOMAIN status' = {"e1"} /\ DOMAIN status'["e1"] = {"body", "size", "revoked"}
        /\ status'["e1"].body = status["e1"].body /\ status'["e1"].size = status["e1"].size
        /\ status["e1"].revoked \subseteq status'["e1"].revoked
    <3>1. CASE e = "e1"
      BY <1>0, <2>1, <2>3, <3>1
    <3>2. CASE e # "e1"
      BY <1>0, <2>1, <3>2
    <3> QED BY <3>1, <3>2
  <2> QED BY <1>0, <1>2, <2>2, <2>4 DEF Background
<1>6. ASSUME NEW s \in Subs, Deny(s) PROVE Background
  <2> DEFINE D == server.denied \cup {s}
             E == server.everDenied \cup {s}
  <2>1. server' = [server EXCEPT !.denied = D, !.everDenied = E]
    BY <1>6 DEF Deny
  <2>2. UNCHANGED <<setup, now, buyer, net, issuer, status, chain>>
    BY <1>6 DEF Deny, world
  <2> HIDE DEF D, E
  <2>3. /\ DOMAIN server' = ServerFields /\ server'.price = server.price
        /\ server'.nonces = server.nonces /\ server'.spent = server.spent
        /\ server'.busy = server.busy /\ server'.denied = D /\ server'.everDenied = E
    BY <1>0, <2>1 DEF ServerFields
  <2>4. \E X : server'.denied = server.denied \cup X /\ server'.everDenied = server.everDenied \cup X
    BY <2>3 DEF D, E
  <2> QED BY <1>0, <2>2, <2>3, <2>4 DEF Background
<1> QED BY <1>3, <1>4, <1>5, <1>6

\* Every step is one of these.
LEMMA Steps ==
    ASSUME Typed, Next
    PROVE  \/ \E b \in DOMAIN setup.calls : (\E m : Sent(b, m)) \/ Ended(b) \/ Moved(b)
           \/ \E r \in net : \/ \E code, body : Enrolled(r, code, body) \/ Asked(r, code, body)
                             \/ \E code : Decided(r, code)
                             \/ \E one, two : Repeated(r, one, two)
           \/ \E code : Settled(code)
           \/ Restarted
           \/ Background
<1>1. CASE \E b \in DOMAIN setup.calls : Client(b) \/ Review(b) \/ RevokeCredential(b)
  BY <1>1, ClientSteps, BackgroundSteps
<1>2. ASSUME NEW r \in net, Issue(r) \/ Challenge(r) \/ Settle(r) \/ Repeat(r)
      PROVE  \/ \E code, body : Enrolled(r, code, body) \/ Asked(r, code, body)
             \/ \E code : Decided(r, code)
             \/ \E one, two : Repeated(r, one, two)
  BY <1>2, IssueSteps, ChallengeSteps, SettleSteps, RepeatSteps
<1>3. CASE Facilitate
  BY <1>3, FacilitateSteps
<1>4. CASE Restart
  BY <1>4, RestartSteps
<1>5. CASE (\E s \in Subs : Deny(s)) \/ Tick
  BY <1>5, BackgroundSteps
<1> QED BY <1>1, <1>2, <1>3, <1>4, <1>5 DEF Next

\* Why client r.b hears code and body in answer to r.
Cause(r, code, body) ==
    \/ r \in net /\ (Enrolled(r, code, body) \/ Asked(r, code, body))
    \/ /\ r \in net /\ Decided(r, code)
       /\ code \in {"402", "403", "409", "500"} /\ (code = "403" => Gate(r) = "403")
    \/ r = server.busy /\ Settled(code)

\* What may become of a client in a step.
LEMMA Fates ==
    ASSUME Typed, Next, NEW t \in DOMAIN setup.calls
    PROVE  \/ buyer'[t] = buyer[t]
           \/ (\E m : Sent(t, m)) \/ Ended(t) \/ Moved(t)
           \/ \E r : \E code, body : r.b = t /\ Hears(r, code, body) /\ Cause(r, code, body)
<1>1. ASSUME NEW b \in DOMAIN setup.calls, (\E m : Sent(b, m)) \/ Ended(b) \/ Moved(b), b # t
      PROVE  buyer'[t] = buyer[t]
  BY <1>1 DEF Sent, Ended, Moved, Only
<1>2. ASSUME NEW r, NEW code, NEW body, AnswerTo(r, code, body)
      PROVE  buyer'[t] = buyer[t] \/ (r.b = t /\ Hears(r, code, body))
  BY <1>2 DEF AnswerTo, Hears, Only
<1>3. ASSUME NEW r \in net, NEW code, NEW body, Enrolled(r, code, body) \/ Asked(r, code, body)
      PROVE  buyer'[t] = buyer[t] \/ (r.b = t /\ Hears(r, code, body) /\ Cause(r, code, body))
  BY <1>2, <1>3 DEF Enrolled, Asked, Cause
<1>4. ASSUME NEW r \in net, NEW code, Decided(r, code)
      PROVE  buyer'[t] = buyer[t] \/ (r.b = t /\ Hears(r, code, None) /\ Cause(r, code, None))
  <2>1. CASE UNCHANGED buyer
    BY <2>1
  <2>2. CASE /\ AnswerTo(r, code, None)
             /\ code \in {"402", "403", "409", "500"} /\ (code = "403" => Gate(r) = "403")
    BY <1>2, <1>4, <2>2 DEF Cause
  <2> QED BY <1>4, <2>1, <2>2 DEF Decided
<1>5. ASSUME NEW code, Settled(code)
      PROVE  \/ buyer'[t] = buyer[t]
             \/ server.busy.b = t /\ Hears(server.busy, code, None) /\ Cause(server.busy, code, None)
  BY <1>2, <1>5 DEF Settled, Cause
<1>6. ASSUME Restarted \/ Background \/ \E r \in net : \E one, two : Repeated(r, one, two)
      PROVE  buyer'[t] = buyer[t]
  BY <1>6 DEF Restarted, Background, Repeated
<1> QED BY Steps, <1>1, <1>3, <1>4, <1>5, <1>6

\* What no step changes, and how the clock moves.
LEMMA Frame ==
    ASSUME Typed, Next
    PROVE  /\ setup' = setup /\ DOMAIN buyer' = DOMAIN setup.calls
           /\ now' = now \/ (now' = now + 1 /\ now' <= setup.until)
           /\ now' \in Nat /\ now' >= now /\ now' <= setup.until
<1>0. /\ now \in Nat /\ setup.until \in Nat /\ now <= setup.until
      /\ DOMAIN buyer = DOMAIN setup.calls
  BY CheckoutAssumption DEF Typed
<1>1. ASSUME NEW b \in DOMAIN setup.calls, (\E m : Sent(b, m)) \/ Ended(b) \/ Moved(b)
      PROVE  setup' = setup /\ DOMAIN buyer' = DOMAIN setup.calls /\ now' = now
  BY <1>1 DEF Sent, Ended, Moved, Only
<1>2. ASSUME NEW r, NEW code, NEW body, AnswerTo(r, code, body)
      PROVE  DOMAIN buyer' = DOMAIN setup.calls
  BY <1>0, <1>2 DEF AnswerTo, Hears, Only
<1>3. ASSUME NEW r \in net, NEW code, NEW body, Enrolled(r, code, body) \/ Asked(r, code, body)
      PROVE  setup' = setup /\ DOMAIN buyer' = DOMAIN setup.calls /\ now' = now
  BY <1>2, <1>3 DEF Enrolled, Asked
<1>4. ASSUME NEW r \in net, NEW code, Decided(r, code)
      PROVE  setup' = setup /\ DOMAIN buyer' = DOMAIN setup.calls /\ now' = now
  BY <1>0, <1>2, <1>4 DEF Decided
<1>5. ASSUME NEW code, Settled(code)
      PROVE  setup' = setup /\ DOMAIN buyer' = DOMAIN setup.calls /\ now' = now
  BY <1>2, <1>5 DEF Settled
<1>6. ASSUME Restarted \/ \E r \in net : \E one, two : Repeated(r, one, two)
      PROVE  setup' = setup /\ DOMAIN buyer' = DOMAIN setup.calls /\ now' = now
  BY <1>0, <1>6 DEF Restarted, Repeated
<1>7. ASSUME Background
      PROVE  /\ setup' = setup /\ DOMAIN buyer' = DOMAIN setup.calls
             /\ now' = now \/ (now' = now + 1 /\ now' <= setup.until)
  BY <1>0, <1>7 DEF Background
<1>8. /\ setup' = setup /\ DOMAIN buyer' = DOMAIN setup.calls
      /\ now' = now \/ (now' = now + 1 /\ now' <= setup.until)
  BY Steps, <1>1, <1>3, <1>4, <1>5, <1>6, <1>7
<1>9. now' \in Nat /\ now' >= now /\ now' <= setup.until
  BY SMTT(30), <1>0, <1>8
<1> QED BY <1>8, <1>9

\* Clients keep their types, and number their requests upwards.
LEMMA BuyerStep ==
    ASSUME Typed, Next, NEW t \in DOMAIN setup.calls
    PROVE  BuyerTyped(t)' /\ buyer[t].n <= buyer'[t].n
<1>0. BuyerTyped(t) /\ setup' = setup /\ now \in Nat /\ now' \in Nat /\ now' >= now
      /\ setup.sends \in Nat
  BY Frame, CheckoutAssumption DEF Typed
<1>1. CASE buyer'[t] = buyer[t]
  BY SMTT(30), <1>0, <1>1 DEF BuyerTyped
<1>2. ASSUME NEW m, Sent(t, m) PROVE BuyerTyped(t)' /\ buyer[t].n <= buyer'[t].n
  <2>1. /\ DOMAIN buyer'[t] = BuyerFields /\ buyer'[t].pc = m.kind /\ buyer'[t].last = m.kind
        /\ m.kind \in Kinds /\ buyer'[t].at = now /\ buyer'[t].n = buyer[t].n + 1
        /\ buyer[t].n < setup.sends /\ buyer'[t].out = buyer[t].out
        /\ buyer[t].pc \in {"enrol", "get", "read"}
    BY <1>2 DEF Sent, Only
  <2>2. buyer'[t].out = None
    BY <1>0, <2>1 DEF BuyerTyped
  <2>3. /\ buyer'[t].n \in Nat /\ buyer'[t].n <= setup.sends /\ buyer[t].n <= buyer'[t].n
        /\ buyer'[t].at \in Nat /\ buyer'[t].at <= now'
    BY SMTT(30), <1>0, <2>1 DEF BuyerTyped
  <2>4. buyer'[t].pc \in {"enrol", "issue", "get", "ask", "pay", "read", "done"}
    BY <2>1 DEF Kinds
  <2> QED BY <1>0, <2>1, <2>2, <2>3, <2>4 DEF BuyerTyped
<1>3. ASSUME DOMAIN buyer'[t] = BuyerFields, Same(t),
             \/ buyer'[t].pc = "done"
             \/ buyer'[t].pc \in {"enrol", "get", "read"} /\ buyer'[t].out = None
      PROVE  BuyerTyped(t)' /\ buyer[t].n <= buyer'[t].n
  <2>1. /\ buyer'[t].n \in Nat /\ buyer'[t].n <= setup.sends /\ buyer[t].n <= buyer'[t].n
        /\ buyer'[t].at \in Nat /\ buyer'[t].at <= now'
    BY SMTT(30), <1>0, <1>3 DEF BuyerTyped, Same
  <2>2. /\ buyer'[t].pc \in {"enrol", "issue", "get", "ask", "pay", "read", "done"}
        /\ buyer'[t].pc \notin Kinds /\ (buyer'[t].out # None => buyer'[t].pc = "done")
    BY <1>3 DEF Kinds
  <2> QED BY <1>0, <1>3, <2>1, <2>2 DEF BuyerTyped
<1>4. CASE Ended(t)
  BY <1>3, <1>4 DEF Ended, Only
<1>5. CASE Moved(t)
  <2>1. buyer'[t].out = None
    BY <1>0, <1>5 DEF Moved, BuyerTyped
  <2> QED BY <1>3, <1>5, <2>1 DEF Moved, Only
<1>6. ASSUME NEW r, NEW code, NEW body, r.b = t, Hears(r, code, body), Cause(r, code, body)
      PROVE  BuyerTyped(t)' /\ buyer[t].n <= buyer'[t].n
  <2>1. r.kind \in Kinds
    BY <1>6 DEF Cause, Enrolled, Asked, Decided, Settled, Typed, RequestTyped
  <2>2. buyer[t].out = None
    BY <1>0, <1>6, <2>1 DEF Hears, BuyerTyped, Kinds
  <2> QED BY <1>3, <1>6, <2>2 DEF Hears, Only
<1> QED BY Fates, <1>1, <1>2, <1>4, <1>5, <1>6

\* Where the requests of the next state come from.
LEMMA NetSteps ==
    ASSUME Typed, Next, NEW q \in net'
    PROVE  \/ q \in net
           \/ q.b \in DOMAIN setup.calls /\ Sent(q.b, q)
           \/ \E r \in net : /\ DOMAIN q = RequestFields /\ q.b = r.b /\ q.n = r.n
                             /\ q.kind = r.kind /\ q.body = r.body /\ q.copy \in {r.copy, TRUE}
                             /\ \E one, two : Repeated(r, one, two)
<1>1. ASSUME NEW b \in DOMAIN setup.calls, NEW m, Sent(b, m)
      PROVE  q \in net \/ (q.b \in DOMAIN setup.calls /\ Sent(q.b, q))
  <2>1. net' = net \cup {m} /\ m.b = b
    BY <1>1 DEF Sent
  <2> QED BY <1>1, <2>1
<1>2. ASSUME NEW b \in DOMAIN setup.calls, Ended(b) \/ Moved(b) PROVE q \in net
  BY <1>2 DEF Ended, Moved
<1>3. ASSUME NEW r \in net, NEW code, NEW body, Enrolled(r, code, body) \/ Asked(r, code, body)
      PROVE  q \in net
  BY <1>3 DEF Enrolled, Asked
<1>4. ASSUME NEW r \in net, NEW code, Decided(r, code) PROVE q \in net
  BY <1>4 DEF Decided
<1>5. ASSUME NEW r \in net, NEW one, NEW two, Repeated(r, one, two)
      PROVE  \/ q \in net
             \/ /\ DOMAIN q = RequestFields /\ q.b = r.b /\ q.n = r.n
                /\ q.kind = r.kind /\ q.body = r.body /\ q.copy \in {r.copy, TRUE}
  BY <1>5 DEF Repeated
<1>6. ASSUME NEW code, Settled(code) PROVE q \in net
  BY <1>6 DEF Settled
<1>7. ASSUME Restarted \/ Background PROVE q \in net
  BY <1>7 DEF Restarted, Background
<1> QED BY Steps, <1>1, <1>2, <1>3, <1>4, <1>5, <1>6, <1>7

\* The paywall, the issuer and the lists keep their types.
LEMMA StoresStep ==
    ASSUME Typed, Next
    PROVE  /\ DOMAIN issuer' = DOMAIN setup.calls
           /\ \A b \in DOMAIN setup.calls : DOMAIN issuer'[b] = {"pending", "cred"}
           /\ DOMAIN status' = {"e1"} /\ DOMAIN status'["e1"] = {"body", "size", "revoked"}
           /\ status'["e1"].body = "ok" /\ status'["e1"].size \in Nat
           /\ status'["e1"].size >= status["e1"].size
           /\ status["e1"].revoked \subseteq status'["e1"].revoked
           /\ DOMAIN server' = ServerFields /\ server'.price \in Nat
           /\ DOMAIN server'.nonces \subseteq Nonces /\ server'.spent \in [Subs -> Nat]
           /\ server'.busy = None \/ server'.busy = server.busy
              \/ \E r \in net : \E code : Decided(r, code) /\ server'.busy = r /\ UNCHANGED buyer
<1> DEFINE Lists ==
               /\ DOMAIN issuer' = DOMAIN setup.calls
               /\ \A b \in DOMAIN setup.calls : DOMAIN issuer'[b] = {"pending", "cred"}
               /\ DOMAIN status' = {"e1"} /\ DOMAIN status'["e1"] = {"body", "size", "revoked"}
               /\ status'["e1"].body = "ok" /\ status'["e1"].size \in Nat
               /\ status'["e1"].size >= status["e1"].size
               /\ status["e1"].revoked \subseteq status'["e1"].revoked
           Stores ==
               /\ DOMAIN server' = ServerFields /\ server'.price \in Nat
               /\ DOMAIN server'.nonces \subseteq Nonces /\ server'.spent \in [Subs -> Nat]
               /\ server'.busy = None \/ server'.busy = server.busy
                  \/ \E r \in net : \E code : Decided(r, code) /\ server'.busy = r /\ UNCHANGED buyer
<1>0. /\ DOMAIN issuer = DOMAIN setup.calls
      /\ \A b \in DOMAIN setup.calls : DOMAIN issuer[b] = {"pending", "cred"}
      /\ DOMAIN status = {"e1"} /\ DOMAIN status["e1"] = {"body", "size", "revoked"}
      /\ status["e1"].body = "ok" /\ status["e1"].size \in Nat
      /\ DOMAIN server = ServerFields /\ server.price \in Nat
      /\ DOMAIN server.nonces \subseteq Nonces /\ server.spent \in [Subs -> Nat]
  BY DEF Typed
<1>1. ASSUME UNCHANGED <<issuer, status>> PROVE Lists
  BY SMTT(30), <1>0, <1>1
<1>2. ASSUME UNCHANGED server PROVE Stores
  BY <1>0, <1>2
<1>3. ASSUME NEW b \in DOMAIN setup.calls, (\E m : Sent(b, m)) \/ Ended(b) \/ Moved(b)
      PROVE  Lists /\ Stores
  <2>1. UNCHANGED <<issuer, status, server>>
    BY <1>3 DEF Sent, Ended, Moved
  <2> QED BY <1>1, <1>2, <2>1
<1>4. ASSUME NEW r \in net, NEW code, NEW body, Enrolled(r, code, body) PROVE Lists /\ Stores
  <2>1. /\ DOMAIN issuer' = DOMAIN setup.calls
        /\ \A b \in DOMAIN setup.calls : DOMAIN issuer'[b] = {"pending", "cred"}
        /\ server' = server
    BY <1>0, <1>4 DEF Enrolled
  <2> DEFINE size == status["e1"].size + 1
  <2>2. status' = status \/ status' = [status EXCEPT !["e1"].size = size]
    BY <1>4 DEF Enrolled
  <2>3. size \in Nat /\ size >= status["e1"].size /\ status["e1"].size >= status["e1"].size
    BY SMTT(30), <1>0
  <2> HIDE DEF size
  <2>4. CASE status' = [status EXCEPT !["e1"].size = size]
    <3>1. /\ DOMAIN status' = {"e1"} /\ DOMAIN status'["e1"] = {"body", "size", "revoked"}
          /\ status'["e1"].body = "ok" /\ status'["e1"].size = size
          /\ status'["e1"].revoked = status["e1"].revoked
      BY <1>0, <2>4
    <3> QED BY <1>2, <2>1, <2>3, <3>1
  <2>5. CASE status' = status
    BY <1>0, <1>2, <2>1, <2>3, <2>5
  <2> QED BY <2>2, <2>4, <2>5
<1>5. ASSUME NEW r \in net, NEW code, NEW body, Asked(r, code, body) PROVE Lists /\ Stores
  <2>1. /\ DOMAIN server' = ServerFields /\ server'.price = server.price
        /\ server'.busy = server.busy /\ server'.spent = server.spent
        /\ DOMAIN server'.nonces \subseteq DOMAIN server.nonces \cup Nonces
        /\ UNCHANGED <<issuer, status>>
    BY <1>5 DEF Asked, Settings
  <2>2. Stores
    BY <1>0, <2>1
  <2> QED BY <1>1, <2>1, <2>2
<1>6. ASSUME NEW r \in net, NEW code, Decided(r, code) PROVE Lists /\ Stores
  <2>1. /\ DOMAIN server' = ServerFields /\ server'.price = server.price
        /\ server'.spent = server.spent /\ DOMAIN server'.nonces \subseteq DOMAIN server.nonces
        /\ UNCHANGED <<issuer, status>>
        /\ server'.busy = None \/ (server'.busy = r /\ UNCHANGED buyer)
    BY <1>6 DEF Decided, Settings
  <2>2. Stores
    BY <1>0, <1>6, <2>1
  <2> QED BY <1>1, <2>1, <2>2
<1>7. ASSUME NEW r \in net, NEW one, NEW two, Repeated(r, one, two) PROVE Lists /\ Stores
  BY <1>1, <1>2, <1>7 DEF Repeated
<1>8. ASSUME NEW code, Settled(code) PROVE Lists /\ Stores
  <2>1. /\ DOMAIN server' = ServerFields /\ server'.price = server.price /\ server'.busy = None
        /\ server'.nonces = server.nonces /\ server'.spent \in [Subs -> Nat]
        /\ UNCHANGED <<issuer, status>>
    BY <1>8 DEF Settled, Settings
  <2>2. Stores
    BY <1>0, <2>1
  <2> QED BY <1>1, <2>1, <2>2
<1>9. ASSUME Restarted PROVE Lists /\ Stores
  <2>1. Stores
    BY <1>9 DEF Restarted
  <2> QED BY <1>1, <1>9, <2>1 DEF Restarted
<1>10. ASSUME Background PROVE Lists /\ Stores
  <2>1. Stores
    BY <1>0, <1>10 DEF Background
  <2>2. Lists
    BY SMTT(30), <1>0, <1>10 DEF Background
  <2> QED BY <2>1, <2>2
<1> HIDE DEF Lists, Stores
<1>11. Lists /\ Stores
  BY Steps, <1>3, <1>4, <1>5, <1>6, <1>7, <1>8, <1>9, <1>10
<1> QED BY <1>11 DEF Lists, Stores

\* Every step keeps the types.
LEMMA TypedStep ==
    ASSUME Typed, [Next]_vars
    PROVE  Typed'
<1>1. CASE UNCHANGED vars
  <2>1. /\ setup' = setup /\ now' = now /\ buyer' = buyer /\ net' = net /\ issuer' = issuer
        /\ status' = status /\ server' = server /\ Subs' = Subs
    BY <1>1 DEF vars, Subs, Call
  <2>2. \A b : BuyerTyped(b)' <=> BuyerTyped(b)
    BY <2>1 DEF BuyerTyped
  <2>3. \A r : RequestTyped(r)' <=> RequestTyped(r)
    BY <2>1 DEF RequestTyped
  <2>4. server.busy # None => RequestTyped(server.busy)'
    BY <2>1 DEF Typed, RequestTyped
  <2> QED BY <2>1, <2>2, <2>3, <2>4 DEF Typed
<1>2. CASE Next
  <2>0. setup' = setup /\ Subs' = Subs
    BY <1>2, Frame DEF Subs, Call
  <2>1. ASSUME NEW r, RequestTyped(r) PROVE RequestTyped(r)'
    <3>1. buyer[r.b].n <= buyer'[r.b].n /\ buyer[r.b].n \in Nat /\ buyer'[r.b].n \in Nat
      BY <1>2, <2>1, BuyerStep DEF RequestTyped, BuyerTyped, Typed
    <3>2. r.n <= buyer'[r.b].n
      BY SMTT(30), <2>1, <3>1 DEF RequestTyped
    <3> QED BY <2>0, <2>1, <3>2 DEF RequestTyped
  <2>2. ASSUME NEW q \in net' PROVE RequestTyped(q)'
    <3>1. CASE q \in net
      BY <2>1, <3>1 DEF Typed
    <3>2. CASE q.b \in DOMAIN setup.calls /\ Sent(q.b, q)
      <4>1. /\ DOMAIN q = RequestFields /\ q.kind \in Kinds /\ q.copy = FALSE
            /\ q.n = buyer[q.b].n + 1 /\ buyer'[q.b].n = buyer[q.b].n + 1
        BY <3>2 DEF Sent
      <4>2. buyer[q.b].n \in Nat
        BY <3>2 DEF Typed, BuyerTyped
      <4>3. q.n \in Nat /\ q.n <= buyer'[q.b].n
        BY SMTT(30), <4>1, <4>2
      <4> QED BY <2>0, <3>2, <4>1, <4>3 DEF RequestTyped
    <3>3. ASSUME NEW r \in net, DOMAIN q = RequestFields, q.b = r.b, q.n = r.n,
                 q.kind = r.kind, q.copy \in {r.copy, TRUE}
          PROVE  RequestTyped(q)'
      <4>1. RequestTyped(q)
        BY <3>3 DEF Typed, RequestTyped
      <4> QED BY <2>1, <4>1
    <3> QED BY <1>2, NetSteps, <3>1, <3>2, <3>3
  <2>3. server'.busy # None => RequestTyped(server.busy)' /\ server'.busy.kind = "pay"
    <3>1. CASE server'.busy = server.busy
      BY <2>1, <3>1 DEF Typed
    <3>2. ASSUME NEW r \in net, NEW code, Decided(r, code), server'.busy = r
          PROVE  RequestTyped(server.busy)' /\ server'.busy.kind = "pay"
      BY <2>1, <3>2 DEF Typed, Decided
    <3> QED BY <1>2, StoresStep, <3>1, <3>2
  <2>4. \A b \in DOMAIN setup.calls : BuyerTyped(b)'
    BY <1>2, BuyerStep
  <2>5. setup \in Setups /\ now' \in Nat /\ now' <= setup.until /\ DOMAIN buyer' = DOMAIN setup.calls
    BY <1>2, Frame DEF Typed
  <2> QED BY <1>2, <2>0, <2>2, <2>3, <2>4, <2>5, StoresStep DEF Typed
<1> QED BY <1>1, <1>2
-----------------------------------------------------------------------------
(* Credentials: a client has what the issuer stored for it, if anything.   *)

Sound(c, b) == MintedFor(setup, c, Call(b).sub, now, status["e1"].size)
Heard200(b) == buyer[b].pc = "read" /\ buyer[b].last = "issue" /\ buyer[b].code = "200"
Holding(b) ==
    /\ issuer[b].cred # None => Sound(issuer[b].cred, b)
    /\ buyer[b].cred # None => buyer[b].cred = issuer[b].cred
    /\ Heard200(b) /\ buyer[b].body # None => buyer[b].body = issuer[b].cred
Credentials ==
    /\ \A b \in DOMAIN setup.calls : Holding(b)
    /\ \A r \in net : r.kind = "issue" => r.body.iss = Call(r.b).sub

\* What the issuer stores for a client.
LEMMA IssuerSteps ==
    ASSUME Typed, Next, NEW t \in DOMAIN setup.calls
    PROVE  \/ issuer'[t].cred = issuer[t].cred
           \/ /\ issuer[t].cred = None
              /\ \E r \in net : \E code, body :
                     r.b = t /\ Enrolled(r, code, body) /\ issuer'[t].cred = Minted(r.body)
                     /\ body = Minted(r.body)
                     /\ IssuerAuthorized(setup.issuer, r.body.org, setup.dns)
                     /\ status' = [status EXCEPT !["e1"].size = status["e1"].size + 1]
<1>0. t \in DOMAIN issuer
  BY DEF Typed
<1>1. ASSUME NEW b \in DOMAIN setup.calls, (\E m : Sent(b, m)) \/ Ended(b) \/ Moved(b)
      PROVE  issuer'[t].cred = issuer[t].cred
  BY <1>1 DEF Sent, Ended, Moved
<1>2. ASSUME NEW r \in net, NEW code, NEW body, Enrolled(r, code, body)
      PROVE  \/ issuer'[t].cred = issuer[t].cred
             \/ /\ issuer[t].cred = None /\ r.b = t /\ issuer'[t].cred = Minted(r.body)
                /\ body = Minted(r.body)
                /\ IssuerAuthorized(setup.issuer, r.body.org, setup.dns)
                /\ status' = [status EXCEPT !["e1"].size = status["e1"].size + 1]
  BY <1>0, <1>2 DEF Enrolled
<1>3. ASSUME NEW r \in net, NEW code, NEW body, Asked(r, code, body) \/ Decided(r, code)
      PROVE  issuer'[t].cred = issuer[t].cred
  BY <1>3 DEF Asked, Decided
<1>4. ASSUME NEW r \in net, NEW one, NEW two, Repeated(r, one, two)
      PROVE  issuer'[t].cred = issuer[t].cred
  BY <1>4 DEF Repeated
<1>5. ASSUME NEW code, Settled(code) PROVE issuer'[t].cred = issuer[t].cred
  BY <1>5 DEF Settled
<1>6. ASSUME Restarted \/ Background PROVE issuer'[t].cred = issuer[t].cred
  BY <1>0, <1>6 DEF Restarted, Background
<1> QED BY Steps, <1>1, <1>2, <1>3, <1>4, <1>5, <1>6

\* A sound credential stays sound.
LEMMA SoundStays ==
    ASSUME Typed, Next, NEW b \in DOMAIN setup.calls, NEW c, Sound(c, b)
    PROVE  Sound(c, b)'
<1>1. /\ setup' = setup /\ now \in Nat /\ now' \in Nat /\ now' >= now
      /\ status["e1"].size \in Nat /\ status'["e1"].size \in Nat
      /\ status'["e1"].size >= status["e1"].size
  BY Frame, StoresStep DEF Typed
<1>2. c.iat \in Int /\ c.iat <= now /\ c.idx \in Nat /\ c.idx < status["e1"].size
  BY DEF Sound, MintedFor
<1>3. c.iat <= now' /\ c.idx < status'["e1"].size
  BY SMTT(30), <1>1, <1>2
<1> QED BY <1>1, <1>3 DEF Sound, MintedFor, Call

\* What the issuer mints is sound.
LEMMA MintedIsSound ==
    ASSUME Typed, NEW r \in net, NEW c, c = Minted(r.body),
           r.body.iss = Call(r.b).sub, now' = now, setup' = setup,
           IssuerAuthorized(setup.issuer, r.body.org, setup.dns),
           status' = [status EXCEPT !["e1"].size = status["e1"].size + 1]
    PROVE  Sound(c, r.b)'
<1> DEFINE size == status["e1"].size
<1>1. /\ c.form = "ok" /\ c.kind = "org_affiliation" /\ c.iss = setup.issuer /\ c.sub = r.body.iss
      /\ c.org = r.body.org /\ c.iat = now /\ c.exp = now + setup.validity
      /\ c.key = setup.issuerKey /\ c.epoch = "e1" /\ c.idx = size
  BY DEF Minted
<1>2. /\ now \in Nat /\ setup.validity \in Nat /\ setup.validity <= CredLifetime
      /\ CredLifetime \in Nat /\ size \in Nat
  BY CheckoutAssumption, DocumentsAssumption DEF Typed
<1>3. status'["e1"].size = size + 1
  BY DEF Typed
<1> HIDE DEF size
<1>4. /\ c.iat \in Int /\ c.exp \in Int /\ c.iat <= now /\ c.exp - c.iat <= CredLifetime
      /\ c.idx \in Nat /\ c.idx < size + 1
  BY SMTT(30), <1>1, <1>2
<1> QED BY <1>1, <1>3, <1>4 DEF Sound, MintedFor, Call

\* Every step keeps the credentials.
LEMMA CredentialsStep ==
    ASSUME Typed, Credentials, [Next]_vars
    PROVE  Credentials'
<1>1. CASE UNCHANGED vars
  BY <1>1 DEF vars, Credentials, Holding, Heard200, Sound, Call
<1>2. CASE Next
  <2>0. setup' = setup
    BY <1>2, Frame
  <2>1. ASSUME NEW t \in DOMAIN setup.calls
        PROVE  /\ issuer'[t].cred # None => Sound(issuer[t].cred, t)'
               /\ issuer[t].cred # None => issuer'[t].cred = issuer[t].cred
    <3>1. CASE issuer'[t].cred = issuer[t].cred
      BY <1>2, <3>1, SoundStays DEF Credentials, Holding, Sound
    <3>2. ASSUME NEW r \in net, NEW code, NEW body, r.b = t, Enrolled(r, code, body),
                 issuer'[t].cred = Minted(r.body),
                 IssuerAuthorized(setup.issuer, r.body.org, setup.dns),
                 status' = [status EXCEPT !["e1"].size = status["e1"].size + 1]
          PROVE  Sound(issuer[t].cred, t)'
      <4>1. /\ r.body.iss = Call(r.b).sub /\ now' = now /\ setup' = setup
        BY <3>2 DEF Enrolled, Credentials
      <4>2. ASSUME NEW c, c = Minted(r.body) PROVE Sound(c, r.b)'
        BY <3>2, <4>1, <4>2, MintedIsSound
      <4> QED BY <3>2, <4>2 DEF Sound
    <3> QED BY <1>2, IssuerSteps, <3>1, <3>2
  <2>2. ASSUME NEW t \in DOMAIN setup.calls PROVE Holding(t)'
    <3>0. /\ buyer[t].cred # None => buyer[t].cred = issuer'[t].cred
          /\ Heard200(t) /\ buyer[t].body # None => buyer[t].body = issuer'[t].cred
      BY <2>1 DEF Credentials, Holding
    <3>1. CASE buyer'[t] = buyer[t]
      BY <2>1, <3>0, <3>1 DEF Holding, Heard200
    <3>2. ASSUME NEW m, Sent(t, m) PROVE Holding(t)'
      <4>1. buyer'[t].cred = buyer[t].cred /\ buyer'[t].pc # "read"
        BY <3>2 DEF Sent, Kinds
      <4> QED BY <2>1, <3>0, <4>1 DEF Holding, Heard200
    <3>3. CASE Ended(t)
      BY <2>1, <3>0, <3>3 DEF Ended, Holding, Heard200
    <3>4. CASE Moved(t)
      <4>1. buyer'[t].pc # "read" /\ (buyer'[t].cred # None => buyer'[t].cred = issuer'[t].cred)
        BY <3>0, <3>4 DEF Moved, Heard200
      <4> QED BY <2>1, <4>1 DEF Holding, Heard200
    <3>5. ASSUME NEW r, NEW code, NEW body, r.b = t, Hears(r, code, body), Cause(r, code, body)
          PROVE  Holding(t)'
      <4>1. /\ buyer'[t].cred = buyer[t].cred /\ buyer'[t].last = buyer[t].last
            /\ buyer'[t].code = code /\ buyer'[t].body = body /\ buyer[t].pc = r.kind
        BY <3>5 DEF Hears, Same
      <4>2. ASSUME Heard200(t)', body # None PROVE body = issuer'[t].cred
        <5>1. r.kind \in Kinds
          BY <3>5 DEF Cause, Enrolled, Asked, Decided, Settled, Typed, RequestTyped
        <5>2. r.kind = "issue" /\ code = "200"
          BY <4>1, <4>2, <5>1 DEF Heard200, Typed, BuyerTyped
        <5>3. Enrolled(r, code, body)
          BY <3>5, <5>2 DEF Cause, Asked, Decided, Settled, Typed
        <5> QED BY <3>5, <5>2, <5>3 DEF Enrolled
      <4> QED BY <2>1, <3>0, <4>1, <4>2 DEF Holding
    <3> QED BY <1>2, Fates, <3>1, <3>2, <3>3, <3>4, <3>5
  <2>3. ASSUME NEW q \in net', q.kind = "issue" PROVE q.body.iss = Call(q.b).sub
    BY <1>2, <2>3, NetSteps DEF Credentials, Sent, Carries
  <2> QED BY <2>0, <2>2, <2>3 DEF Credentials, Call
<1> QED BY <1>1, <1>2

-----------------------------------------------------------------------------
(* Refusals: the request a client waits for carries its credential and its *)
(* proof of possession, which the paywall refuses for a reason only.       *)

Awaited(r) == ~r.copy /\ buyer[r.b].pc = r.kind /\ buyer[r.b].n = r.n
Carried == \A r \in net : Awaited(r) => Carries(r, r.b, buyer[r.b].at)

\* Every step keeps that.
LEMMA CarriedStep ==
    ASSUME Typed, Carried, [Next]_vars
    PROVE  Carried'
<1>1. CASE UNCHANGED vars
  BY <1>1 DEF vars, Carried, Awaited, Carries, Call
<1>2. CASE Next
  <2> SUFFICES ASSUME NEW q \in net', Awaited(q)' PROVE Carries(q, q.b, buyer[q.b].at)'
    BY DEF Carried
  <2> DEFINE t == q.b
  <2>0. setup' = setup
    BY <1>2, Frame
  <2>1. ASSUME NEW r \in net, r.b = t, r.kind = q.kind, r.body = q.body, Awaited(r), buyer'[t] = buyer[t]
        PROVE  Carries(q, t, buyer[t].at)'
    BY <2>0, <2>1 DEF Carried, Carries, Call
  <2>2. CASE q \in net
    <3>0. t \in DOMAIN setup.calls /\ q.n \in Nat /\ q.n <= buyer[t].n /\ buyer[t].n \in Nat
          /\ q.kind \in Kinds
      BY <2>2 DEF Typed, RequestTyped, BuyerTyped
    <3>1. CASE buyer'[t] = buyer[t]
      BY <2>1, <2>2, <3>1 DEF Awaited
    <3>2. ASSUME NEW m, Sent(t, m) PROVE FALSE
      <4>1. buyer'[t].n = buyer[t].n + 1 /\ buyer'[t].n = q.n
        BY <3>2 DEF Sent, Awaited
      <4> QED BY SMTT(30), <3>0, <4>1
    <3>3. ASSUME buyer'[t].pc \in {"done", "enrol", "get", "read"} PROVE FALSE
      BY <3>0, <3>3 DEF Awaited, Kinds
    <3>4. ASSUME Ended(t) \/ Moved(t) \/ \E r, code, body : r.b = t /\ Hears(r, code, body)
          PROVE  FALSE
      BY <3>3, <3>4 DEF Ended, Moved, Hears
    <3> QED BY <1>2, Fates, <3>0, <3>1, <3>2, <3>4
  <2>3. CASE Sent(t, q)
    <3>1. Carries(q, t, now) /\ buyer'[t].cred = buyer[t].cred /\ buyer'[t].at = now
      BY <2>3 DEF Sent
    <3> QED BY <2>0, <3>1 DEF Carries, Call
  <2>4. ASSUME NEW r \in net, q.b = r.b, q.n = r.n, q.kind = r.kind, q.body = r.body,
               q.copy \in {r.copy, TRUE}, \E one, two : Repeated(r, one, two)
        PROVE  Carries(q, t, buyer[t].at)'
    <3>1. UNCHANGED buyer
      BY <2>4 DEF Repeated
    <3>2. ~r.copy
      BY <2>4 DEF Awaited
    <3>3. Awaited(r)
      BY <2>4, <3>1, <3>2 DEF Awaited
    <3> QED BY <2>1, <2>4, <3>1, <3>3
  <2> QED BY <1>2, NetSteps, <2>2, <2>3, <2>4
<1> QED BY <1>1, <1>2

\* Why a client may be refused.
Excuse(b) ==
    \/ Revoked(buyer[b].cred) \/ now > buyer[b].cred.exp + Leeway
    \/ Call(b).sub \in server.everDenied
    \/ buyer[b].last = "pay" /\ now >= buyer[b].at + PopLifetime + Leeway
    \/ Call(b).sub # KeyId(Call(b).key) \/ setup.resource[Call(b).url] # Call(b).url
    \/ ~satisfies_policy({buyer[b].cred}, setup.trust, {"org_affiliation"})
Refusal(b) ==
    \/ buyer[b].out = "403"
    \/ buyer[b].pc = "read" /\ buyer[b].last \in {"ask", "pay"} /\ buyer[b].code = "403"
Excused ==
    /\ server.denied \subseteq server.everDenied
    /\ \A b \in DOMAIN setup.calls : Refusal(b) /\ buyer[b].cred # None => Excuse(b)

\* A credential of the issuer's is refused only when it has expired or is
\* revoked.
LEMMA SoundPasses ==
    ASSUME Typed, NEW b \in DOMAIN setup.calls, NEW c, c # None, Sound(c, b),
           ~verify_credential(c, setup.dns, now) \/ check_revocation(c, status) # "ok"
    PROVE  Revoked(c) \/ now > c.exp + Leeway
<1>1. /\ c.form = "ok" /\ c.kind = "org_affiliation" /\ c.iss = setup.issuer
      /\ c.iat \in Int /\ c.exp \in Int /\ c.iat <= now /\ c.exp - c.iat <= CredLifetime
      /\ c.key = setup.issuerKey /\ c.epoch = "e1" /\ c.idx < status["e1"].size
      /\ IssuerAuthorized(c.iss, c.org, setup.dns)
  BY DEF Sound, MintedFor
<1>2. /\ ~is_public_key_identifier(c.iss) /\ c.key = IssuerKey(c.iss, setup.dns)
      /\ now \in Nat /\ Leeway \in Nat
  BY <1>1, CheckoutAssumption, DocumentsAssumption DEF Typed
<1>3. CASE ~verify_credential(c, setup.dns, now)
  <2>1. ~InTime(c, CredLifetime, now)
    BY <1>1, <1>2, <1>3 DEF verify_credential
  <2>2. ~(c.exp >= now - Leeway /\ c.iat <= now + Leeway)
    BY <1>1, <2>1 DEF InTime
  <2> QED BY SMTT(30), <1>1, <1>2, <2>2
<1>4. CASE check_revocation(c, status) # "ok"
  <2>1. fetch_status_list(c.iss, c.epoch, status) = "ok"
    BY <1>1, <1>2 DEF fetch_status_list, Typed
  <2>2. InRange(status[c.epoch], c.idx)
    BY <1>1 DEF InRange
  <2>3. is_revoked(status[c.epoch], c.idx)
    BY <1>4, <2>1, <2>2 DEF check_revocation
  <2> QED BY <2>3 DEF Revoked
<1> QED BY <1>3, <1>4

\* The paywall refuses an awaited request for a reason.
LEMMA RefusalHasExcuse ==
    ASSUME Typed, Credentials, Carried, Excused, NEW r \in net, Awaited(r),
           buyer[r.b].cred # None,
           (r.kind = "ask" /\ AskRefused(r)) \/ (r.kind = "pay" /\ Gate(r) = "403")
    PROVE  Excuse(r.b)
<1> DEFINE b == r.b
           c == buyer[b].cred
           p == r.body.pop
<1>0. b \in DOMAIN setup.calls /\ buyer[b].last = r.kind
  BY DEF Typed, RequestTyped, BuyerTyped, Awaited
<1>1. Sound(c, b) /\ c.sub = Call(b).sub /\ r.body.cred = c
  <2>1. Sound(c, b)
    BY <1>0 DEF Credentials, Holding
  <2> QED BY <2>1 DEF Sound, MintedFor, Carried, Carries
<1>2. ASSUME ~verify_credential(c, setup.dns, now) \/ check_revocation(c, status) # "ok"
      PROVE  Excuse(b)
  BY <1>0, <1>1, <1>2, SoundPasses DEF Excuse
<1>3. CASE r.kind = "ask" /\ AskRefused(r)
  <2>1. \/ ~verify_credential(c, setup.dns, now) \/ c.sub \in server.denied
        \/ check_revocation(c, status) = "StatusListError"
    BY <1>1, <1>3 DEF AskRefused
  <2>2. CASE c.sub \in server.denied
    BY <1>1, <2>2 DEF Excused, Excuse
  <2> QED BY <1>2, <2>1, <2>2
<1>4. CASE r.kind = "pay" /\ Gate(r) = "403"
  <2>1. /\ r.body.url = Call(b).url /\ p.sub = Call(b).sub /\ p.aud = Call(b).url
        /\ p.iat = buyer[b].at /\ p.exp = buyer[b].at + PopLifetime /\ p.key = Call(b).key
    BY <1>4 DEF Carried, Carries
  <2>2. \/ ~verify_credential(c, setup.dns, now) \/ check_revocation(c, status) # "ok"
        \/ ~satisfies_policy({c}, setup.trust, {"org_affiliation"})
        \/ ~verify_pop(p, c.sub, setup.resource[Call(b).url])
    BY <1>1, <1>4, <2>1 DEF Gate
  <2>3. CASE ~verify_pop(p, c.sub, setup.resource[Call(b).url])
    <3> SUFFICES ASSUME Call(b).sub = KeyId(Call(b).key), setup.resource[Call(b).url] = Call(b).url
                 PROVE  now >= buyer[b].at + PopLifetime + Leeway
      BY <1>0, <1>4 DEF Excuse
    <3>1. c.sub.key = Call(b).key /\ Call(b).key # None
      BY SMTT(30), <1>0, <1>1, CheckoutAssumption DEF KeyId, Call, Typed
    <3>2. ~(p.exp > now - Leeway /\ p.iat <= now + Leeway)
      BY <1>1, <2>1, <2>3, <3>1 DEF verify_pop, is_public_key_identifier
    <3>3. buyer[b].at \in Nat /\ buyer[b].at <= now /\ now \in Nat /\ Leeway \in Nat
          /\ PopLifetime \in Nat
      BY <1>0, CheckoutAssumption, DocumentsAssumption DEF Typed, BuyerTyped
    <3> QED BY SMTT(30), <2>1, <3>2, <3>3
  <2>4. CASE ~satisfies_policy({c}, setup.trust, {"org_affiliation"})
    BY <2>4 DEF Excuse
  <2> QED BY <1>2, <2>2, <2>3, <2>4
<1> QED BY <1>3, <1>4

\* The deny-lists grow together, until a restart forgets the one.
LEMMA DeniedStep ==
    ASSUME Typed, Next
    PROVE  /\ server.everDenied \subseteq server'.everDenied
           /\ server.denied \subseteq server.everDenied => server'.denied \subseteq server'.everDenied
<1>1. ASSUME NEW b \in DOMAIN setup.calls, (\E m : Sent(b, m)) \/ Ended(b) \/ Moved(b)
      PROVE  server' = server
  BY <1>1 DEF Sent, Ended, Moved
<1>2. ASSUME NEW r \in net, NEW code, NEW body, Enrolled(r, code, body) PROVE server' = server
  BY <1>2 DEF Enrolled
<1>3. ASSUME NEW r \in net, NEW code, NEW body, Asked(r, code, body) \/ Decided(r, code)
      PROVE  Settings
  BY <1>3 DEF Asked, Decided
<1>4. ASSUME NEW r \in net, NEW one, NEW two, Repeated(r, one, two) PROVE server' = server
  BY <1>4 DEF Repeated
<1>5. ASSUME NEW code, Settled(code) PROVE Settings
  BY <1>5 DEF Settled
<1>6. CASE Restarted
  BY <1>6 DEF Restarted
<1>7. CASE Background
  BY <1>7 DEF Background
<1> QED BY Steps, <1>1, <1>2, <1>3, <1>4, <1>5, <1>6, <1>7 DEF Settings

\* An excuse stays one.
LEMMA ExcuseStays ==
    ASSUME Typed, Credentials, Next, NEW b \in DOMAIN setup.calls, buyer[b].cred # None, Excuse(b),
           buyer'[b].cred = buyer[b].cred, buyer'[b].last = buyer[b].last, buyer'[b].at = buyer[b].at
    PROVE  Excuse(b)'
<1> DEFINE c == buyer[b].cred
<1>0. /\ setup' = setup /\ now \in Nat /\ now' \in Nat /\ now' >= now
      /\ status["e1"].revoked \subseteq status'["e1"].revoked
      /\ server.everDenied \subseteq server'.everDenied
  BY Frame, StoresStep, DeniedStep DEF Typed
<1>1. Sound(c, b)
  BY DEF Credentials, Holding
<1>2. c.epoch = "e1" /\ c.exp \in Int /\ Leeway \in Nat
  BY <1>1, DocumentsAssumption DEF Sound, MintedFor
<1>3. CASE Revoked(c)
  BY <1>0, <1>2, <1>3 DEF Revoked, is_revoked, Excuse
<1>4. CASE now > c.exp + Leeway
  <2>1. now' > c.exp + Leeway
    BY SMTT(30), <1>0, <1>2, <1>4
  <2> QED BY <2>1 DEF Excuse
<1>5. CASE buyer[b].last = "pay" /\ now >= buyer[b].at + PopLifetime + Leeway
  <2>1. buyer[b].at \in Nat /\ PopLifetime \in Nat
    BY CheckoutAssumption DEF Typed, BuyerTyped
  <2>2. now' >= buyer[b].at + PopLifetime + Leeway
    BY SMTT(30), <1>0, <1>2, <1>5, <2>1
  <2> QED BY <1>5, <2>2 DEF Excuse
<1>6. CASE \/ Call(b).sub \in server.everDenied
           \/ Call(b).sub # KeyId(Call(b).key) \/ setup.resource[Call(b).url] # Call(b).url
           \/ ~satisfies_policy({c}, setup.trust, {"org_affiliation"})
  BY <1>0, <1>6 DEF Excuse, Call
<1> QED BY <1>3, <1>4, <1>5, <1>6 DEF Excuse

\* Every step keeps the excuses.
LEMMA ExcusedStep ==
    ASSUME Typed, Credentials, Carried, Excused, [Next]_vars
    PROVE  Excused'
<1>1. CASE UNCHANGED vars
  BY <1>1 DEF vars, Excused, Refusal, Excuse, Call, Revoked
<1>2. CASE Next
  <2>0. setup' = setup /\ server'.denied \subseteq server'.everDenied
    BY <1>2, Frame, DeniedStep DEF Excused
  <2> SUFFICES ASSUME NEW t \in DOMAIN setup.calls, Refusal(t)', buyer'[t].cred # None
               PROVE  Excuse(t)'
    BY <2>0 DEF Excused
  <2>1. CASE buyer'[t] = buyer[t]
    <3>1. Excuse(t)
      BY <2>1 DEF Excused, Refusal
    <3> QED BY <1>2, <2>1, <3>1, ExcuseStays
  <2>2. ASSUME NEW m, Sent(t, m) PROVE FALSE
    <3>1. /\ buyer'[t].pc \in Kinds /\ buyer'[t].out = buyer[t].out
          /\ buyer[t].pc \in {"enrol", "get", "read"}
      BY <2>2 DEF Sent
    <3>2. buyer'[t].out = None
      BY <3>1 DEF Typed, BuyerTyped
    <3> QED BY <3>1, <3>2, CheckoutAssumption DEF Refusal, Kinds
  <2>3. CASE Ended(t)
    <3>1. /\ buyer'[t].pc = "done" /\ Same(t) /\ buyer'[t].cred = buyer[t].cred
          /\ \/ buyer'[t].out \in {"csr_error", "ceremony_failed", "transport"}
             \/ /\ buyer[t].pc = "read" /\ buyer[t].last \in {"ask", "pay"}
                /\ buyer'[t].out = buyer[t].code
      BY <2>3 DEF Ended
    <3>2. Excuse(t)
      BY <3>1 DEF Refusal, Excused
    <3> QED BY <1>2, <3>1, <3>2, ExcuseStays DEF Same
  <2>4. ASSUME Moved(t) PROVE FALSE
    <3>1. buyer'[t].out = None
      BY <2>4 DEF Moved, Typed, BuyerTyped
    <3> QED BY <2>4, <3>1, CheckoutAssumption DEF Refusal, Moved
  <2>5. ASSUME NEW r, NEW code, NEW body, r.b = t, Hears(r, code, body), Cause(r, code, body)
        PROVE  Excuse(t)'
    <3>1. /\ Same(t) /\ buyer'[t].cred = buyer[t].cred /\ buyer'[t].out = buyer[t].out
          /\ buyer'[t].code = code /\ buyer[t].pc = r.kind /\ Awaited(r)
      BY <2>5 DEF Hears, Awaited
    <3>2. r.kind \in Kinds
      BY <2>5 DEF Cause, Enrolled, Asked, Decided, Settled, Typed, RequestTyped
    <3>3. buyer[t].last = r.kind /\ buyer[t].out = None
      BY <3>1, <3>2 DEF Typed, BuyerTyped, Kinds
    <3>4. code = "403" /\ r.kind \in {"ask", "pay"}
      BY <3>1, <3>3, CheckoutAssumption DEF Refusal, Same
    <3>5. r \in net /\ ((r.kind = "ask" /\ AskRefused(r)) \/ (r.kind = "pay" /\ Gate(r) = "403"))
      BY <2>5, <3>4 DEF Cause, Enrolled, Asked, Decided, Settled
    <3>6. Excuse(t)
      BY <2>5, <3>1, <3>5, RefusalHasExcuse
    <3> QED BY <1>2, <3>1, <3>6, ExcuseStays DEF Same
  <2> QED BY <1>2, Fates, <2>1, <2>2, <2>3, <2>4, <2>5
<1> QED BY <1>1, <1>2
-----------------------------------------------------------------------------
(* Answers: a request is in one place only, so that the answer to it is    *)
(* about the one transfer that it may have made.                           *)

Pending(r) == r \in net \/ (server.busy # None /\ r = server.busy)
Open(b, n) == \E r : Pending(r) /\ r.b = b /\ r.n = n /\ ~r.copy
OnePlace ==
    /\ \A r, q : Pending(r) /\ Pending(q) /\ ~r.copy /\ ~q.copy /\ r.b = q.b /\ r.n = q.n => r = q
    /\ server.busy # None /\ ~server.busy.copy => server.busy \notin net

\* How requests come and go.
LEMMA PendingSteps ==
    ASSUME Typed, Next
    PROVE  \/ /\ \A q : Pending(q)' => Pending(q)
              /\ server'.busy # None =>
                     (server'.busy = server.busy /\ net' \subseteq net) \/ server'.busy \notin net'
           \/ \E b \in DOMAIN setup.calls : \E m : Sent(b, m)
           \/ \E r \in net : \E one, two : Repeated(r, one, two)
<1> DEFINE Goal == /\ \A q : Pending(q)' => Pending(q)
                   /\ server'.busy # None =>
                        (server'.busy = server.busy /\ net' \subseteq net) \/ server'.busy \notin net'
<1>1. ASSUME net' \subseteq net, server'.busy = server.busy \/ server'.busy = None PROVE Goal
  BY <1>1 DEF Pending
<1>2. ASSUME NEW b \in DOMAIN setup.calls, Ended(b) \/ Moved(b) PROVE Goal
  <2>1. net' = net /\ server' = server
    BY <1>2 DEF Ended, Moved
  <2> QED BY <1>1, <2>1
<1>3. ASSUME NEW r \in net, NEW code, NEW body, Enrolled(r, code, body) \/ Asked(r, code, body)
      PROVE  Goal
  <2>1. net' = net \ {r} /\ server'.busy = server.busy
    BY <1>3 DEF Enrolled, Asked
  <2> QED BY <1>1, <2>1
<1>4. ASSUME NEW r \in net, NEW code, Decided(r, code) PROVE Goal
  <2>1. net' = net \ {r} /\ server'.busy \in {None, r}
    BY <1>4 DEF Decided
  <2> QED BY <2>1 DEF Pending
<1>5. ASSUME NEW code, Settled(code) PROVE Goal
  <2>1. net' = net /\ server'.busy = None
    BY <1>5 DEF Settled
  <2> QED BY <1>1, <2>1
<1>6. ASSUME Restarted \/ Background PROVE Goal
  <2>1. net' = net /\ (server'.busy = None \/ server'.busy = server.busy)
    BY <1>6 DEF Restarted, Background
  <2> QED BY <1>1, <2>1
<1> QED BY Steps, <1>2, <1>3, <1>4, <1>5, <1>6

\* Every step keeps a request in one place.
LEMMA OnePlaceStep ==
    ASSUME Typed, OnePlace, [Next]_vars
    PROVE  OnePlace'
<1>1. CASE UNCHANGED vars
  BY <1>1 DEF vars, OnePlace, Pending
<1>2. CASE Next
  <2>1. ASSUME /\ \A q : Pending(q)' => Pending(q)
               /\ server'.busy # None =>
                      (server'.busy = server.busy /\ net' \subseteq net) \/ server'.busy \notin net'
        PROVE  OnePlace'
    BY <2>1 DEF OnePlace
  <2>2. ASSUME NEW b \in DOMAIN setup.calls, NEW m, Sent(b, m) PROVE OnePlace'
    <3>1. net' = net \cup {m} /\ server' = server /\ m.b = b /\ m.n = buyer[b].n + 1
      BY <2>2 DEF Sent
    <3>2. ASSUME NEW q, Pending(q), q.b = b, q.n = buyer[b].n + 1 PROVE FALSE
      <4>1. RequestTyped(q) /\ BuyerTyped(b)
        BY <3>2 DEF Pending, Typed
      <4> QED BY SMTT(30), <3>2, <4>1 DEF RequestTyped, BuyerTyped
    <3>3. ASSUME NEW q, Pending(q)' PROVE Pending(q) \/ q = m
      BY <3>1, <3>3 DEF Pending
    <3>4. server'.busy # None /\ ~server'.busy.copy => server'.busy \notin net'
      BY <3>1, <3>2 DEF OnePlace, Pending
    <3>5. ASSUME NEW r, NEW q, Pending(r)', Pending(q)', ~r.copy, ~q.copy, r.b = q.b, r.n = q.n
          PROVE  r = q
      BY <3>1, <3>2, <3>3, <3>5 DEF OnePlace
    <3> QED BY <3>4, <3>5 DEF OnePlace
  <2>3. ASSUME NEW r \in net, NEW one, NEW two, Repeated(r, one, two) PROVE OnePlace'
    <3>1. /\ net' = (net \ {r}) \cup {one, two} /\ server' = server
          /\ one.b = r.b /\ one.n = r.n /\ one.copy = r.copy /\ two.copy = TRUE
      BY <2>3 DEF Repeated
    <3>2. ASSUME NEW q, Pending(q)', ~q.copy
          PROVE  \/ q = one /\ ~r.copy
                 \/ Pending(q) /\ (q.b = r.b /\ q.n = r.n => r.copy)
      <4>1. q = one \/ q \in net \ {r} \/ (server.busy # None /\ q = server.busy)
        BY <3>1, <3>2 DEF Pending
      <4>2. CASE q = one
        BY <3>1, <3>2, <4>2
      <4>3. CASE q \in net \ {r}
        BY <3>2, <4>3 DEF OnePlace, Pending
      <4>4. CASE server.busy # None /\ q = server.busy
        BY <3>2, <4>4 DEF OnePlace, Pending
      <4> QED BY <4>1, <4>2, <4>3, <4>4
    <3>3. server'.busy # None /\ ~server'.busy.copy => server'.busy \notin net'
      <4> SUFFICES ASSUME server.busy # None, ~server.busy.copy, server.busy = one PROVE FALSE
        BY <3>1 DEF OnePlace
      <4>1. Pending(one) /\ Pending(r)
        BY DEF Pending
      <4>2. one = r
        BY <3>1, <4>1 DEF OnePlace
      <4> QED BY <4>2 DEF OnePlace
    <3>4. ASSUME NEW p, NEW q, Pending(p)', Pending(q)', ~p.copy, ~q.copy, p.b = q.b, p.n = q.n
          PROVE  p = q
      BY <3>1, <3>2, <3>4 DEF OnePlace
    <3> QED BY <3>3, <3>4 DEF OnePlace
  <2> QED BY <1>2, PendingSteps, <2>1, <2>2, <2>3
<1> QED BY <1>1, <1>2

\* Only sending opens a request, and its number is new.
LEMMA OpenStep ==
    ASSUME Typed, Next, NEW b, NEW n, Open(b, n)'
    PROVE  \/ Open(b, n)
           \/ /\ b \in DOMAIN setup.calls /\ n = buyer[b].n + 1 /\ buyer'[b].n = n
              /\ buyer'[b].pc \in Kinds
<1>0. PICK q : Pending(q)' /\ q.b = b /\ q.n = n /\ ~q.copy
  BY DEF Open
<1>1. CASE Pending(q)
  BY <1>0, <1>1 DEF Open
<1>2. ASSUME NEW c \in DOMAIN setup.calls, NEW m, Sent(c, m), ~Pending(q)
      PROVE  b \in DOMAIN setup.calls /\ n = buyer[b].n + 1 /\ buyer'[b].n = n /\ buyer'[b].pc \in Kinds
  <2>1. net' = net \cup {m} /\ server' = server
    BY <1>2 DEF Sent
  <2>2. q = m
    BY <1>0, <1>2, <2>1 DEF Pending
  <2> QED BY <1>0, <1>2, <2>2 DEF Sent
<1>3. ASSUME NEW r \in net, NEW one, NEW two, Repeated(r, one, two), ~Pending(q)
      PROVE  Open(b, n)
  <2>1. /\ net' = (net \ {r}) \cup {one, two} /\ server' = server
        /\ one.b = r.b /\ one.n = r.n /\ one.copy = r.copy /\ two.copy = TRUE
    BY <1>3 DEF Repeated
  <2>2. q = one
    BY <1>0, <1>3, <2>1 DEF Pending
  <2>3. Pending(r)
    BY DEF Pending
  <2> QED BY <1>0, <2>1, <2>2, <2>3 DEF Open
<1> QED BY PendingSteps, <1>0, <1>1, <1>2, <1>3

\* A request that leaves its one place is closed.
LEMMA Closes ==
    ASSUME OnePlace, NEW r, Pending(r), ~r.copy, net' \subseteq net, r \notin net',
           server'.busy = None \/ (server'.busy = server.busy /\ r # server.busy)
    PROVE  ~Open(r.b, r.n)'
<1> SUFFICES ASSUME NEW q, Pending(q)', q.b = r.b, q.n = r.n, ~q.copy PROVE FALSE
  BY DEF Open
<1>1. Pending(q) /\ q # r
  BY DEF Pending
<1> QED BY <1>1 DEF OnePlace

\* A request whose client hears the answer is closed.
LEMMA HeardCloses ==
    ASSUME Typed, OnePlace, NEW r, NEW code, NEW body, Hears(r, code, body), Cause(r, code, body)
    PROVE  Pending(r) /\ ~Open(r.b, r.n)'
<1>0. ~r.copy /\ buyer[r.b].pc = r.kind /\ buyer'[r.b].pc = "read"
  BY DEF Hears
<1>1. ASSUME r \in net, net' = net \ {r}, server'.busy = server.busy
      PROVE  Pending(r) /\ ~Open(r.b, r.n)'
  <2>1. Pending(r) /\ (server.busy = None \/ r # server.busy)
    BY <1>0, <1>1 DEF Pending, OnePlace
  <2> QED BY <1>0, <1>1, <2>1, Closes
<1>2. CASE r \in net /\ (Enrolled(r, code, body) \/ Asked(r, code, body))
  <2>1. net' = net \ {r} /\ server'.busy = server.busy
    BY <1>2 DEF Enrolled, Asked
  <2> QED BY <1>1, <1>2, <2>1
<1>3. CASE r \in net /\ Decided(r, code)
  <2>1. r.kind = "pay" /\ net' = net \ {r} /\ server.busy = None
        /\ (server'.busy = None \/ UNCHANGED buyer)
    BY <1>3 DEF Decided
  <2> QED BY <1>0, <1>1, <1>3, <2>1
<1>4. CASE r = server.busy /\ Settled(code)
  <2>1. server.busy # None /\ net' = net /\ server'.busy = None
    BY <1>4 DEF Settled
  <2>2. Pending(r) /\ r \notin net
    BY <1>0, <1>4, <2>1 DEF Pending, OnePlace
  <2> QED BY <1>0, <2>1, <2>2, Closes
<1> QED BY <1>2, <1>3, <1>4 DEF Cause

Refusals == {"402", "403", "409", "500"}
Mine(b) == {t \in chain : t.b = b /\ t.n = buyer[b].n}

\* A transfer is of a request that was sent, and an original closes with it.
Chained ==
    \A t \in chain : /\ t.b \in DOMAIN setup.calls /\ t.n \in Nat /\ t.n <= buyer[t.b].n
                     /\ ~t.copy => ~Open(t.b, t.n)

\* What a client has been told, or is about to return.
Says(b, code) ==
    /\ buyer[b].last = "pay"
    /\ (buyer[b].pc = "read" /\ buyer[b].code = code) \/ (buyer[b].pc = "done" /\ buyer[b].out = code)
Told ==
    \A b \in DOMAIN setup.calls :
        /\ buyer[b].pc = "read" => ~Open(b, buyer[b].n)
        /\ Says(b, "200") => \E t \in Mine(b) : t.reported
        /\ \A code \in Refusals : Says(b, code) => /\ ~Open(b, buyer[b].n)
                                                   /\ \A t \in Mine(b) : ~t.reported \/ t.copy

\* The facilitator alone makes transfers, and reports them with 200 only.
LEMMA ChainSteps ==
    ASSUME Typed, Next
    PROVE  /\ chain \subseteq chain'
           /\ \A t \in chain' \ chain :
                  /\ server.busy # None /\ net' = net /\ server'.busy = None
                  /\ \/ t = Transfer(server.busy, TRUE) /\ Settled("200")
                     \/ t = Transfer(server.busy, FALSE)
<1>1. ASSUME NEW b \in DOMAIN setup.calls, (\E m : Sent(b, m)) \/ Ended(b) \/ Moved(b)
      PROVE  chain' = chain
  BY <1>1 DEF Sent, Ended, Moved
<1>2. ASSUME NEW r \in net, NEW code, NEW body, Enrolled(r, code, body) \/ Asked(r, code, body)
      PROVE  chain' = chain
  BY <1>2 DEF Enrolled, Asked
<1>3. ASSUME NEW r \in net, NEW code, Decided(r, code) PROVE chain' = chain
  BY <1>3 DEF Decided
<1>4. ASSUME NEW r \in net, NEW one, NEW two, Repeated(r, one, two) PROVE chain' = chain
  BY <1>4 DEF Repeated
<1>5. ASSUME NEW code, Settled(code)
      PROVE  /\ server.busy # None /\ net' = net /\ server'.busy = None
             /\ chain' \in {chain, chain \cup {Transfer(server.busy, FALSE)}}
                \/ (chain' = chain \cup {Transfer(server.busy, TRUE)} /\ Settled("200"))
  <2>1. CASE code = "200"
    BY <1>5, <2>1 DEF Settled
  <2>2. CASE code = "402"
    BY <1>5, <2>2 DEF Settled
  <2> QED BY <1>5, <2>1, <2>2 DEF Settled
<1>6. CASE Restarted
  BY <1>6 DEF Restarted
<1>7. CASE Background
  BY <1>7 DEF Background
<1> QED BY Steps, <1>1, <1>2, <1>3, <1>4, <1>5, <1>6, <1>7

\* Every step keeps the chain in order.
LEMMA ChainedStep ==
    ASSUME Typed, OnePlace, Chained, [Next]_vars
    PROVE  Chained'
<1>1. CASE UNCHANGED vars
  BY <1>1 DEF vars, Chained, Open, Pending
<1>2. CASE Next
  <2>0. setup' = setup
    BY <1>2, Frame
  <2> SUFFICES ASSUME NEW t \in chain'
               PROVE  /\ t.b \in DOMAIN setup.calls /\ t.n \in Nat /\ t.n <= buyer'[t.b].n
                      /\ ~t.copy => ~Open(t.b, t.n)'
    BY <2>0 DEF Chained
  <2>1. ASSUME t.b \in DOMAIN setup.calls, t.n \in Nat, t.n <= buyer[t.b].n
        PROVE  t.n <= buyer'[t.b].n
    <3>1. buyer[t.b].n <= buyer'[t.b].n /\ BuyerTyped(t.b)' /\ BuyerTyped(t.b)
      BY <1>2, <2>1, BuyerStep DEF Typed
    <3> QED BY SMTT(30), <2>1, <3>1 DEF BuyerTyped
  <2>2. CASE t \in chain
    <3>1. t.b \in DOMAIN setup.calls /\ t.n \in Nat /\ t.n <= buyer[t.b].n
          /\ (~t.copy => ~Open(t.b, t.n))
      BY <2>2 DEF Chained
    <3>2. t.n # buyer[t.b].n + 1
      BY SMTT(30), <3>1 DEF Typed, BuyerTyped
    <3> QED BY <1>2, <2>1, <3>1, <3>2, OpenStep
  <2>3. CASE t \notin chain
    <3>1. /\ server.busy # None /\ net' = net /\ server'.busy = None
          /\ t.b = server.busy.b /\ t.n = server.busy.n /\ t.copy = server.busy.copy
      <4>1. /\ server.busy # None /\ net' = net /\ server'.busy = None
            /\ t = Transfer(server.busy, TRUE) \/ t = Transfer(server.busy, FALSE)
        BY <1>2, <2>3, ChainSteps
      <4> QED BY SMTT(30), <4>1 DEF Transfer
    <3>2. RequestTyped(server.busy)
      BY <3>1 DEF Typed
    <3>3. ASSUME ~t.copy PROVE ~Open(t.b, t.n)'
      <4>1. Pending(server.busy) /\ server.busy \notin net /\ ~server.busy.copy
        BY <3>1, <3>3 DEF Pending, OnePlace
      <4> QED BY <3>1, <4>1, Closes
    <3> QED BY <2>1, <3>1, <3>2, <3>3 DEF RequestTyped
  <2> QED BY <2>2, <2>3
<1> QED BY <1>1, <1>2

\* A client whose request is closed and that does not change stays right.
LEMMA ToldStays ==
    ASSUME Typed, Told, Next, NEW b \in DOMAIN setup.calls, buyer'[b] = buyer[b]
    PROVE  /\ buyer'[b].pc = "read" => ~Open(b, buyer[b].n)'
           /\ Says(b, "200")' => \E t \in Mine(b)' : t.reported
           /\ \A code \in Refusals : Says(b, code)' => /\ ~Open(b, buyer[b].n)'
                                                       /\ \A t \in Mine(b)' : ~t.reported \/ t.copy
<1>0. buyer[b].n \in Nat /\ chain \subseteq chain'
  BY ChainSteps DEF Typed, BuyerTyped
<1>1. ASSUME ~Open(b, buyer[b].n) PROVE ~Open(b, buyer[b].n)'
  <2>1. PICK n : n = buyer[b].n /\ n # buyer[b].n + 1
    BY SMTT(30), <1>0
  <2>2. ~Open(b, n)'
    BY <1>1, <2>1, OpenStep
  <2> QED BY <2>1, <2>2 DEF Open
<1>2. Says(b, "200")' => \E t \in Mine(b)' : t.reported
  BY <1>0 DEF Told, Says, Mine
<1>3. ASSUME NEW code \in Refusals, Says(b, code)', NEW t \in Mine(b)', t.reported, ~t.copy
      PROVE  FALSE
  <2>1. Says(b, code) /\ ~Open(b, buyer[b].n) /\ \A u \in Mine(b) : ~u.reported \/ u.copy
    BY <1>3 DEF Says, Told
  <2>2. t.b = b /\ t.n = buyer[b].n /\ t \in chain'
    BY <1>3 DEF Mine
  <2>3. t \notin chain
    BY <1>3, <2>1, <2>2 DEF Mine
  <2>4. server.busy # None /\ t.b = server.busy.b /\ t.n = server.busy.n /\ t.copy = server.busy.copy
    <3>1. /\ server.busy # None
          /\ t = Transfer(server.busy, TRUE) \/ t = Transfer(server.busy, FALSE)
      BY <2>2, <2>3, ChainSteps
    <3> QED BY SMTT(30), <3>1 DEF Transfer
  <2> QED BY <1>3, <2>1, <2>2, <2>4 DEF Open, Pending
<1>4. ASSUME NEW code \in Refusals, Says(b, code)' PROVE ~Open(b, buyer[b].n)
  BY <1>4 DEF Says, Told
<1>5. buyer'[b].pc = "read" => ~Open(b, buyer[b].n)'
  BY <1>1 DEF Told
<1> QED BY <1>1, <1>2, <1>3, <1>4, <1>5

\* A client that hears an answer hears the truth.
LEMMA HearsTruth ==
    ASSUME Typed, OnePlace, Chained, Next, NEW r, NEW code, NEW body,
           Hears(r, code, body), Cause(r, code, body)
    PROVE  LET b == r.b
           IN  /\ ~Open(b, buyer[b].n)'
               /\ Says(b, "200")' => \E t \in Mine(b)' : t.reported
               /\ \A c \in Refusals : Says(b, c)' => \A t \in Mine(b)' : ~t.reported \/ t.copy
<1> DEFINE b == r.b
<1>0. /\ ~r.copy /\ buyer[b].pc = r.kind /\ buyer[b].n = r.n /\ Same(b) /\ buyer'[b].pc = "read"
      /\ buyer'[b].code = code
  BY DEF Hears
<1>1. Pending(r) /\ ~Open(b, r.n)'
  BY HeardCloses
<1>2. ~Open(b, buyer[b].n)'
  <2>1. buyer'[b].n = r.n
    BY <1>0 DEF Same
  <2> QED BY <1>1, <2>1
<1>3. b \in DOMAIN setup.calls /\ r.kind \in Kinds /\ Open(b, r.n)
  <2>1. RequestTyped(r)
    BY <1>1 DEF Pending, Typed
  <2> QED BY <1>0, <1>1, <2>1 DEF RequestTyped, Open
<1>4. ASSUME NEW c, Says(b, c)' PROVE r.kind = "pay" /\ code = c
  <2>1. buyer[b].last = r.kind
    BY <1>0, <1>3 DEF Typed, BuyerTyped
  <2> QED BY <1>0, <1>4, <2>1 DEF Says, Same
<1>5. ASSUME Says(b, "200")' PROVE \E t \in Mine(b)' : t.reported
  <2>1. r = server.busy /\ Settled("200")
    BY SMTT(30), <1>4, <1>5 DEF Cause, Enrolled, Asked
  <2>2. Transfer(r, TRUE) \in chain'
    BY <2>1 DEF Settled
  <2>3. PICK t : t = Transfer(r, TRUE)
    OBVIOUS
  <2>4. t.b = b /\ t.n = r.n /\ t.reported
    BY <2>3 DEF Transfer
  <2>5. t \in Mine(b)'
    BY <1>0, <2>2, <2>3, <2>4 DEF Mine, Same
  <2> QED BY <2>4, <2>5
<1>6. ASSUME NEW c \in Refusals, Says(b, c)', NEW t \in Mine(b)', t.reported, ~t.copy
      PROVE  FALSE
  <2>1. t \in chain' /\ t.b = b /\ t.n = r.n
    BY <1>0, <1>6 DEF Mine, Same
  <2>2. t \in chain
    <3>1. CASE Enrolled(r, code, body) \/ Asked(r, code, body) \/ Decided(r, code)
      <4>1. chain' = chain
        BY <3>1 DEF Enrolled, Asked, Decided
      <4> QED BY <2>1, <4>1
    <3>2. CASE r = server.busy /\ Settled(code)
      <4>1. chain' \in {chain, chain \cup {Transfer(r, FALSE)}}
        BY <1>4, <1>6, <3>2 DEF Settled, Refusals
      <4>2. t # Transfer(r, FALSE)
        BY SMTT(30), <1>6 DEF Transfer
      <4> QED BY <2>1, <4>1, <4>2
    <3> QED BY <3>1, <3>2 DEF Cause
  <2> QED BY <1>3, <1>6, <2>1, <2>2 DEF Chained
<1> QED BY <1>2, <1>5, <1>6

\* Every step keeps the answers true.
LEMMA ToldStep ==
    ASSUME Typed, OnePlace, Chained, Told, [Next]_vars
    PROVE  Told'
<1>1. CASE UNCHANGED vars
  BY SMTT(30), <1>1 DEF vars, Told, Says, Mine, Open, Pending
<1>2. CASE Next
  <2>0. setup' = setup
    BY <1>2, Frame
  <2> SUFFICES ASSUME NEW b \in DOMAIN setup.calls
               PROVE  /\ buyer'[b].pc = "read" => ~Open(b, buyer[b].n)'
                      /\ Says(b, "200")' => \E t \in Mine(b)' : t.reported
                      /\ \A code \in Refusals :
                             Says(b, code)' => /\ ~Open(b, buyer[b].n)'
                                               /\ \A t \in Mine(b)' : ~t.reported \/ t.copy
    BY <2>0 DEF Told
  <2>1. CASE buyer'[b] = buyer[b]
    BY <1>2, <2>1, ToldStays
  <2>2. ASSUME buyer'[b].pc \notin {"read", "done"}
        PROVE  buyer'[b].pc # "read" /\ \A code : ~Says(b, code)'
    BY <2>2 DEF Says
  <2>3. CASE \E m : Sent(b, m)
    <3>1. buyer'[b].pc \in Kinds
      BY <2>3 DEF Sent
    <3> QED BY <2>2, <3>1 DEF Kinds
  <2>4. CASE Moved(b)
    BY <2>2, <2>4 DEF Moved
  <2>5. CASE Ended(b)
    <3>1. /\ Same(b) /\ buyer'[b].pc = "done" /\ net' = net /\ server' = server /\ chain' = chain
          /\ \/ buyer'[b].out \in {"csr_error", "ceremony_failed", "transport"}
             \/ buyer[b].pc = "read" /\ buyer'[b].out = buyer[b].code
      BY <2>5 DEF Ended
    <3>2. ASSUME NEW code \in Refusals \cup {"200"}, Says(b, code)' PROVE Says(b, code)
      BY <3>1, <3>2 DEF Says, Refusals, Same
    <3>3. Mine(b)' = Mine(b)
      BY <3>1 DEF Mine, Same
    <3>4. Open(b, buyer[b].n)' <=> Open(b, buyer[b].n)
      BY <3>1 DEF Open, Pending, Same
    <3> QED BY <3>1, <3>2, <3>3, <3>4 DEF Told
  <2>6. ASSUME NEW r, NEW code, NEW body, r.b = b, Hears(r, code, body), Cause(r, code, body)
        PROVE  /\ buyer'[b].pc = "read" => ~Open(b, buyer[b].n)'
               /\ Says(b, "200")' => \E t \in Mine(b)' : t.reported
               /\ \A c \in Refusals : Says(b, c)' => /\ ~Open(b, buyer[b].n)'
                                                     /\ \A t \in Mine(b)' : ~t.reported \/ t.copy
    BY <1>2, <2>6, HearsTruth
  <2> QED BY <1>2, Fates, <2>1, <2>3, <2>4, <2>5, <2>6
<1> QED BY <1>1, <1>2
-----------------------------------------------------------------------------
(* The invariant and the theorems.                                         *)

CheckoutInv == Typed /\ Credentials /\ Carried /\ Excused /\ OnePlace /\ Chained /\ Told

\* The first state satisfies it.
LEMMA InitCheckout == Init => CheckoutInv
<1> SUFFICES ASSUME Init PROVE CheckoutInv OBVIOUS
<1>0. /\ setup \in Setups /\ now = 0 /\ net = {} /\ chain = {}
      /\ DOMAIN buyer = DOMAIN setup.calls /\ DOMAIN issuer = DOMAIN setup.calls
      /\ status = [e1 |-> [body |-> "ok", size |-> setup.taken, revoked |-> {}]]
  BY DEF Init
<1>1. ASSUME NEW b \in DOMAIN setup.calls
      PROVE  /\ DOMAIN buyer[b] = BuyerFields /\ buyer[b].pc \in {"enrol", "get"}
             /\ buyer[b].cred = Call(b).holds /\ buyer[b].n = 0 /\ buyer[b].at = 0
             /\ buyer[b].out = None
             /\ DOMAIN issuer[b] = {"pending", "cred"} /\ issuer[b].cred = Call(b).holds
  BY <1>1 DEF Init, BuyerFields, Beginning
<1>2. PICK p \in setup.prices : server = Fresh(p)
  BY DEF Init
<1>3. /\ DOMAIN server = ServerFields /\ server.price = p /\ DOMAIN server.nonces = {}
      /\ server.spent = [s \in Subs |-> 0] /\ server.busy = None
      /\ server.denied = {} /\ server.everDenied = {}
  BY SMTT(30), <1>2 DEF Fresh, ServerFields
<1>4. p \in Nat /\ setup.sends \in Nat /\ setup.until \in Nat /\ setup.taken \in Nat
  BY <1>0, <1>2, CheckoutAssumption
<1>5. Typed
  <2>1. ASSUME NEW b \in DOMAIN setup.calls PROVE BuyerTyped(b)
    BY SMTT(30), <1>0, <1>1, <1>4 DEF BuyerTyped, Kinds
  <2>2. server.spent \in [Subs -> Nat]
    BY SMTT(30), <1>3
  <2> QED BY SMTT(30), <1>0, <1>1, <1>3, <1>4, <2>1, <2>2 DEF Typed
<1>6. Credentials
  <2>1. ASSUME NEW b \in DOMAIN setup.calls PROVE Holding(b)
    <3>1. Call(b).holds # None => MintedFor(setup, Call(b).holds, Call(b).sub, 0, setup.taken)
      BY <1>0, CheckoutAssumption DEF Call
    <3>2. status["e1"].size = setup.taken
      BY <1>0
    <3>3. Call(b).holds # None => Sound(Call(b).holds, b)
      BY <1>0, <3>1, <3>2 DEF Sound
    <3> QED BY <1>1, <3>3 DEF Holding, Heard200
  <2> QED BY <1>0, <2>1 DEF Credentials
<1>7. Carried
  BY <1>0 DEF Carried
<1>8. Excused
  BY <1>1, <1>3, CheckoutAssumption DEF Excused, Refusal
<1>9. OnePlace /\ Chained
  BY <1>0, <1>3 DEF OnePlace, Chained, Pending
<1>10. Told
  BY <1>1 DEF Told, Says
<1> QED BY <1>5, <1>6, <1>7, <1>8, <1>9, <1>10 DEF CheckoutInv

\* Every step keeps it.
LEMMA NextCheckout == CheckoutInv /\ [Next]_vars => CheckoutInv'
BY TypedStep, CredentialsStep, CarriedStep, ExcusedStep, OnePlaceStep, ChainedStep, ToldStep
   DEF CheckoutInv

\* It holds always.
LEMMA CheckoutInvariant == Spec => []CheckoutInv
BY InitCheckout, NextCheckout, PTL DEF Spec

\* Whoever enrols, buys, repeats or restarts, in any order: clients, clock and
\* stores keep their types, and a client has no credential but the one the
\* issuer stored for it, which has its subject and an index that the status
\* list covers (serveIssue, submit_csr).
THEOREM CheckoutTyped == Spec => []TypeOK
<1>1. ASSUME CheckoutInv PROVE TypeOK
  <2>1. ASSUME NEW b \in DOMAIN buyer, buyer[b].cred # None
        PROVE  /\ buyer[b].cred = issuer[b].cred /\ buyer[b].cred.sub = Call(b).sub
               /\ buyer[b].cred.idx < status["e1"].size
    BY <1>1, <2>1 DEF CheckoutInv, Typed, Credentials, Holding, Sound, MintedFor
  <2>2. ASSUME NEW b \in DOMAIN buyer
        PROVE  /\ buyer[b].pc \in {"enrol", "issue", "get", "ask", "pay", "read", "done"}
               /\ buyer[b].n \in 0..setup.sends
    BY SMTT(30), <1>1, <2>2, CheckoutAssumption DEF CheckoutInv, Typed, BuyerTyped
  <2>3. setup \in Setups /\ now \in 0..setup.until
    BY SMTT(30), <1>1, CheckoutAssumption DEF CheckoutInv, Typed
  <2> QED BY <1>1, <2>1, <2>2, <2>3 DEF TypeOK, CheckoutInv, Typed
<1> QED BY <1>1, CheckoutInvariant, PTL

\* A client that is served has paid and one that is refused has not, however
\* requests are delayed, lost and repeated and whenever the paywall restarts:
\* a request is in one place, so that no answer about it is followed by a
\* transfer (ShadowX402Client.get, Paywall._settle).
THEOREM AnswersTrue == Spec => []AnswerIsTrue
<1>1. ASSUME CheckoutInv PROVE AnswerIsTrue
  <2>1. DOMAIN buyer = DOMAIN setup.calls /\ Told
    BY <1>1 DEF CheckoutInv, Typed
  <2>2. ASSUME NEW b \in DOMAIN buyer, buyer[b].pc = "done", buyer[b].last = "pay"
        PROVE  /\ buyer[b].out = "200" => \E t \in Mine(b) : t.reported
               /\ buyer[b].out \in Refusals => \A t \in Mine(b) : ~t.reported \/ t.copy
    BY <2>1, <2>2 DEF Told, Says
  <2> QED BY <2>2 DEF AnswerIsTrue, Mine, Refusals
<1> QED BY <1>1, CheckoutInvariant, PTL

\* A client with its own key and the issuer's credential is refused only once
\* the credential has expired or is revoked, the operator denied it, its proof
\* is old or the policy does not take it: every request carries what the gate
\* asks for (run_identity_gate, ShadowX402Client.get).
THEOREM EnrolledAdmitted == Spec => []EnrolledNotRefused
<1>1. ASSUME CheckoutInv PROVE EnrolledNotRefused
  <2>1. DOMAIN buyer = DOMAIN setup.calls /\ Excused
    BY <1>1 DEF CheckoutInv, Typed
  <2> QED BY <2>1 DEF EnrolledNotRefused, Excused, Refusal, Excuse
<1> QED BY <1>1, CheckoutInvariant, PTL
=============================================================================
