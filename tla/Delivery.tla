------------------------------ MODULE Delivery ------------------------------
(***************************************************************************)
(* A message from one Shadow to another, end to end: the sender parses the *)
(* address, resolves the provider, fetches and verifies the AgentCard and  *)
(* sends with retries; the receiver runs the synchronous pipeline.  The    *)
(* network loses requests and answers, duplicates requests and delays them *)
(* beyond the sender's timeout.  Providers, Shadows and hosts change their *)
(* keys, cards and certificates while messages are under way.              *)
(***************************************************************************)
EXTENDS Documents

CONSTANTS Sends,           \* calls of send_with_retries
          Keys,            \* public keys
          Setups,          \* the worlds they are made in
          InitialDelay, MaxDelay, Timeout,
          Retention, CacheTtl, CacheLeeway, Lookback

\* Wire codes, and how a call may end.
WireErrors == {"parse_error", "signature", "creds_required", "creds_rejected",
               "policy", "replay", "unknown_recipient", "rate_limited"}
Outcomes == {"accepted", "bad_address", "unresolved", "card_error", "pin_mismatch",
             "mint_error", "exhausted"} \cup WireErrors

\* A replay entry outlives its envelope: 600 s are more than 300 s and twice
\* 60 s.  None is no outcome and no key.
ASSUME DeliveryAssumption ==
    /\ InitialDelay \in Nat \ {0} /\ MaxDelay \in Nat \ {0}
    /\ Timeout \in Nat \ {0} /\ Retention \in Nat /\ CacheTtl \in Nat
    /\ CacheLeeway \in Nat /\ Lookback \in Nat
    /\ Retention > MaxLifetime + 2 * Leeway
    /\ None \notin Outcomes \cup Keys /\ {"k2", "n2"} \subseteq Keys /\ "malformed" \notin Keys

\* A TXT record has a list of keys, and None is no card.  A call has a budget
\* and a lifetime in seconds.  What a peer's message has in place of its own
\* times are times, and it has its own messageId or none.
ASSUME SetupsAssumption ==
    \A w \in Setups :
        /\ DOMAIN w.world = {"dns", "cards", "signing", "certs", "left"}
        /\ \A d \in DOMAIN w.world.dns :
               /\ \A t \in w.world.dns[d] : /\ DOMAIN t = {"pairs", "v", "ep", "pk", "delegate"}
                                            /\ t.pk \in Seq(Keys \cup {"malformed"})
               /\ \A pk, k \in Keys : build_signed_agent_card(pk, d, k) # None
        /\ \A s \in DOMAIN w.calls :
               LET c == w.calls[s]
               IN  /\ s \in Sends /\ c.budget \in Nat /\ c.life \in Nat
                   /\ "iat" \in DOMAIN c.defects => c.defects.iat \in Int
                   /\ "exp" \in DOMAIN c.defects => c.defects.exp \in Int
                   /\ "id" \in DOMAIN c.defects => c.defects.id = None

VARIABLES setup,    \* what never changes: the calls, the receiver's configuration
          now,
          world,    \* dns, cards, signing keys, certificates; changes left
          pins,     \* InMemoryTLSPinStore of the senders' process
          snd,      \* the calls
          net,      \* requests on their way or in the receiver
          box       \* the receiver's stores, and what it decided past the replay cache
vars == <<setup, now, world, pins, snd, net, box>>
-----------------------------------------------------------------------------
(* The receiver: what it decides of a message, and its stores afterwards.  *)

\* A slip: creds_required never made it into the registry.
KnownButOne(code) == IF code \in WireErrors \ {"creds_required"} THEN code ELSE "parse_error"

\* problem_response at the receiver, then _interpret_response and
\* wire_error_from_problem at the sender.
Interpreted(code) == IF code \in WireErrors THEN code ELSE "parse_error"

\* The part of receive before it knows who sent the message.
PreParse(m) ==
    IF \/ m.form = "no_envelope" \/ m.kid # m.from
       \/ ~CanBeCanonicalized(m.from) \/ ~CanBeCanonicalized(m.to)
    THEN "parse_error"
    ELSE IF m.to.id # setup.subject THEN "unknown_recipient" ELSE "ok"

\* _validate_creds: how many credentials pass before one does not.
Passes(c) == verify_credential(c, world.dns, now) /\ check_revocation(c, setup.status) = "ok"
GoodCreds(creds) == CHOOSE n \in 0..Len(creds) :
    /\ \A i \in 1..n : Passes(creds[i])
    /\ n < Len(creds) => ~Passes(creds[n + 1])

\* Why the first that does not pass fails.
CredsVerdict(creds) ==
    LET n == GoodCreds(creds)
    IN  IF n = Len(creds) THEN "ok"
        ELSE IF /\ verify_credential(creds[n + 1], world.dns, now)
                /\ check_revocation(creds[n + 1], setup.status) = "raises"
        THEN "raises" ELSE "creds_rejected"

\* Those that passed are cached, whatever becomes of the message.
CachedCreds(b, sender, creds) ==
    IF creds = <<>> THEN {e \in b.cached : e.sender # sender \/ e.until > now}
    ELSE b.cached \cup
         {[sender |-> sender, cred |-> creds[i],
           until |-> IF creds[i].exp - CacheLeeway <= now + CacheTtl
                     THEN creds[i].exp - CacheLeeway ELSE now + CacheTtl] :
              i \in 1..GoodCreds(creds)}

\* _classify
RecentOutbound(ctx, sender) ==
    \E o \in setup.outbound : o.ctx = ctx /\ o.peer = sender /\ o.at >= now - Lookback
Classify(b, sender, rec, creds, ctx) ==
    IF \/ /\ setup.sameOrg /\ rec # None /\ is_shadowname(setup.subject)
          /\ sender.domain = setup.subject.domain
       \/ sender \in b.contacts
    THEN "inbox"
    ELSE IF ctx # None /\ RecentOutbound(ctx, sender) THEN "auto_add"
    ELSE IF setup.required = {} THEN "policy"
    ELSE IF satisfies_policy(creds, setup.trust, setup.required) THEN "stranger_review"
    ELSE IF creds # {} THEN "creds_rejected" ELSE "creds_required"

\* A slip: _prune keeps what has expired.
LiveInverted(b) == {e \in b.replay : e.until <= now}

\* InMemoryReplayCache after _prune
Live(b) == {e \in b.replay : e.until > now}

Reply(code, b) == [code |-> code, box |-> b]

\* receive from the replay cache on: b is the receiver's stores.
Admit(r, b) ==
    LET m == r.msg
        sender == m.from.id
        live == Live(b)
        b1 == [b EXCEPT !.replay = live \cup {[id |-> <<sender, m.id>>, until |-> now + Retention]}]
        b2 == [b1 EXCEPT !.cached = CachedCreds(b1, sender, m.creds)]
        creds == IF m.creds # <<>> THEN Elements(m.creds)
                 ELSE {e.cred : e \in {f \in b2.cached : f.sender = sender}}
        route == Classify(b2, sender, r.rec, creds, m.ctx)
        code == IF CredsVerdict(m.creds) # "ok" THEN CredsVerdict(m.creds)
                ELSE IF m.ctx = "malformed" THEN "parse_error"
                ELSE IF route \in {"inbox", "auto_add", "stranger_review"} THEN "accepted" ELSE route
        b3 == IF code = "accepted" /\ route = "auto_add"
              THEN [b2 EXCEPT !.contacts = @ \cup {sender}] ELSE b2
    IN  IF \E e \in live : e.id = <<sender, m.id>> THEN Reply("replay", [b EXCEPT !.replay = live])
        ELSE Reply(code, [b3 EXCEPT !.decided = @ \cup
                              {[send |-> r.send, n |-> r.n, copy |-> r.copy, code |-> code]}])

\* receive once the provider is known.
Decision(r, b) ==
    LET m == r.msg
        sender == m.from.id
        keyed == is_public_key_identifier(sender)
        card == world.cards[sender]
        verified == card # None /\ verify_agent_card(card, r.rec, sender)
        checked == verify_envelope(m, IF keyed THEN sender.key ELSE card.body.pk,
                                   setup.subject, now)
    IN  IF ~keyed /\ ~verified THEN Reply("signature", b)
        ELSE IF checked # "ok" THEN Reply(checked, b)
        ELSE IF m.hash # "ok" \/ m.id = None THEN Reply("parse_error", b)
        ELSE Admit(r, b)
-----------------------------------------------------------------------------
(* The sender.                                                             *)

Call(s) == setup.calls[s]
Address(s) == parse_shadow_address(Call(s).address)

Goto(s, pc) == snd' = [snd EXCEPT ![s].pc = pc]
Done(s, out) == snd' = [snd EXCEPT ![s].pc = "done", ![s].out = out]

Start(s) ==
    /\ snd[s].pc = "idle"
    /\ IF Address(s) = BadAddress THEN Done(s, "bad_address")
       ELSE Goto(s, IF Address(s).mode = "name" THEN "lookup" ELSE "card")
    /\ UNCHANGED <<setup, now, world, pins, net, box>>

\* A slip: a name that does not resolve is looked up again, and again.
LookupAgain(s) ==
    /\ snd[s].pc = "lookup"
    /\ LET txts == world.dns[Address(s).id.domain]
       IN  /\ HasRecord(txts)
           /\ snd' = [snd EXCEPT ![s].pc = "card", ![s].rec = Record(txts)]
    /\ UNCHANGED <<setup, now, world, pins, net, box>>

\* lookup_provider_record; the resolver may fail.
LookupProvider(s) ==
    /\ snd[s].pc = "lookup"
    /\ LET txts == world.dns[Address(s).id.domain]
       IN  \/ /\ HasRecord(txts)
              /\ snd' = [snd EXCEPT ![s].pc = "card", ![s].rec = Record(txts)]
           \/ Done(s, "unresolved")
    /\ UNCHANGED <<setup, now, world, pins, net, box>>

\* A slip: a certificate that changed is trusted like a first one.
TrustAgain(s, c) == Address(s).pin # None => c = Address(s).pin

\* verify_tls_pin of certificate c.
PinMatches(s, c) ==
    LET a == Address(s)
    IN  IF a.pin # None THEN c = a.pin ELSE pins[a.host] \in {None, c}
RecordPin(s, c) ==
    LET a == Address(s)
    IN  IF a.pin # None THEN pins ELSE [pins EXCEPT ![a.host] = c]

\* With a card that verifies send_with_retries begins.
CardSeen(s, ok) ==
    IF ok THEN snd' = [snd EXCEPT ![s].pc = "build", ![s].rec = None, ![s].start = now]
    ELSE Done(s, "card_error")

\* fetch_and_verify_agent_card; the fetch may fail.
FetchCard(s) ==
    /\ snd[s].pc = "card" /\ Address(s).mode = "name"
    /\ LET name == Address(s).id
           card == world.cards[name]
       IN  \/ CardSeen(s, card # None /\ verify_agent_card(card, snd[s].rec, name))
           \/ Done(s, "card_error")
    /\ UNCHANGED <<setup, now, world, pins, net, box>>

\* fetch_and_verify_direct_agent_card over a pinned client: a pin that does not
\* match is an error of its own, raised before the card is looked at.
FetchDirectCard(s) ==
    /\ snd[s].pc = "card" /\ Address(s).mode = "direct"
    /\ LET a == Address(s)
           card == world.cards[a.id]
           c == world.certs[a.host]
       IN  \/ Done(s, "card_error") /\ UNCHANGED pins
           \/ ~PinMatches(s, c) /\ Done(s, "pin_mismatch") /\ UNCHANGED pins
           \/ /\ PinMatches(s, c) /\ pins' = RecordPin(s, c)
              /\ CardSeen(s, card # None /\ verify_self_signed_agent_card(card, a.id.key))
    /\ UNCHANGED <<setup, now, world, net, box>>

\* A slip: the message is built once, with its messageId, and sent again.
BuiltOnce(s, n) ==
    build_and_sign_message(<<s, 1>>, Call(s).from, Address(s).id, now, Call(s).life,
                           Call(s).creds, Call(s).ctx, world.signing[Call(s).from])

\* builder(): a message with a fresh messageId, iat and exp.
Built(s, n) ==
    build_and_sign_message(<<s, n>>, Call(s).from, Address(s).id, now, Call(s).life,
                           Call(s).creds, Call(s).ctx, world.signing[Call(s).from])

\* One attempt: send_envelope puts the request on the network.  The defects
\* are those of peers that do not use this SDK.
Post(s) ==
    /\ snd[s].pc = "build"
    /\ IF ~Mintable(Call(s).life) THEN Done(s, "mint_error") /\ UNCHANGED net
       ELSE LET n == snd[s].n + 1
            IN  /\ snd' = [snd EXCEPT ![s].pc = "waiting", ![s].n = n, ![s].at = now,
                                      ![s].wake = now + Timeout, ![s].shaken = FALSE]
                /\ net' = net \cup {[send |-> s, n |-> n, rec |-> None, stage |-> "sent", copy |-> FALSE,
                                     msg |-> [f \in DOMAIN Built(s, n) |->
                                              IF f \in DOMAIN Call(s).defects
                                              THEN Call(s).defects[f] ELSE Built(s, n)[f]]]}
    /\ UNCHANGED <<setup, now, world, pins, box>>

\* The answer to request r leaves the receiver; it may be lost, and is when
\* its sender no longer waits for it.  Nobody waits for the answer to a copy.
Answer(r, code, blame) ==
    \/ r.copy /\ UNCHANGED snd
    \/ /\ ~r.copy /\ snd[r.send].pc = "waiting" /\ snd[r.send].n = r.n
       /\ snd' = [snd EXCEPT ![r.send].pc = "answered", ![r.send].code = code,
                             ![r.send].shaken = @ \/ blame]
    \/ ~r.copy /\ snd' = [snd EXCEPT ![r.send].lost = @ \cup {r.n}]

\* The network delivers a request twice.
Duplicate(r) ==
    /\ setup.copies /\ ~r.copy /\ r.stage = "sent"
    /\ net' = net \cup {[r EXCEPT !.copy = TRUE]}
    /\ UNCHANGED <<setup, now, world, pins, snd, box>>

\* The receiver up to the provider's record; its resolver may fail too.
Resolve(r) ==
    /\ r.stage = "sent"
    /\ LET m == r.msg
           keyed == is_public_key_identifier(m.from.id)
           txts == world.dns[m.from.id.domain]
       IN  IF PreParse(m) # "ok" THEN Answer(r, PreParse(m), FALSE) /\ net' = net \ {r}
           ELSE \/ /\ ~keyed => HasRecord(txts)
                   /\ net' = (net \ {r}) \cup
                             {[r EXCEPT !.stage = "resolved",
                                        !.rec = IF keyed THEN None ELSE Record(txts)]}
                   /\ UNCHANGED snd
                \/ ~keyed /\ Answer(r, "signature", TRUE) /\ net' = net \ {r}
    /\ UNCHANGED <<setup, now, world, pins, box>>

\* The rest of receive, and the answer.
Decide(r) ==
    /\ r.stage = "resolved"
    /\ LET d == Decision(r, box)
       IN  box' = d.box /\ Answer(r, d.code, FALSE)
    /\ net' = net \ {r}
    /\ UNCHANGED <<setup, now, world, pins>>

\* _interpret_response
Outcome(s) == IF snd[s].code = "accepted" THEN "accepted" ELSE Interpreted(snd[s].code)
ReadAnswer(s) ==
    /\ snd[s].pc = "answered" /\ Address(s).mode = "name"
    /\ Done(s, Outcome(s))
    /\ UNCHANGED <<setup, now, world, pins, net, box>>

\* handle_request of a pinned client: the certificate is looked at when the
\* answer is there.  A mismatch is no TransportError, so nothing is retried,
\* whatever the receiver did with the message.
ReadPinnedAnswer(s) ==
    /\ snd[s].pc = "answered" /\ Address(s).mode = "direct"
    /\ LET c == world.certs[Address(s).host]
       IN  \/ ~PinMatches(s, c) /\ Done(s, "pin_mismatch") /\ UNCHANGED pins
           \/ PinMatches(s, c) /\ Done(s, Outcome(s)) /\ pins' = RecordPin(s, c)
    /\ UNCHANGED <<setup, now, world, net, box>>

\* delay * (1 + uniform(-0.25, 0.25))
Jittered(delay) == {delay - delay \div 4, delay, delay + delay \div 4}

\* A slip: the wait ignores what is left of the budget.
WaitInFull(jittered, left) == jittered

\* min(max(jittered, 0), max(0, total_budget - elapsed))
Wait(jittered, left) == IF jittered <= left THEN jittered ELSE left

\* A slip: the delay doubles for ever.
Doubled(delay) == 2 * delay

\* min(delay * 2, max_delay)
NextDelay(delay) == IF 2 * delay <= MaxDelay THEN 2 * delay ELSE MaxDelay

\* send_with_retries on TransportError: a refused connection, or the timeout.
TransportFails(s) ==
    /\ snd[s].pc = "waiting"
    /\ \/ now >= snd[s].wake /\ UNCHANGED net
       \/ \E r \in net : /\ r.send = s /\ r.n = snd[s].n /\ ~r.copy /\ r.stage = "sent"
                         /\ net' = net \ {r}
    /\ LET elapsed == now - snd[s].start
       IN  IF elapsed >= Call(s).budget THEN Done(s, "exhausted")
           ELSE \E j \in Jittered(snd[s].delay) :
                    snd' = [snd EXCEPT ![s].pc = "sleeping", ![s].wake = now + Wait(j, Call(s).budget - elapsed),
                                       ![s].delay = NextDelay(@)]
    /\ UNCHANGED <<setup, now, world, pins, box>>

Wake(s) ==
    /\ snd[s].pc = "sleeping" /\ now >= snd[s].wake
    /\ Goto(s, "build")
    /\ UNCHANGED <<setup, now, world, pins, net, box>>

\* Time passes while every call sleeps, waits or is over.
Tick ==
    /\ \E s \in Sends : snd[s].pc \in {"waiting", "sleeping"}
    /\ \A s \in Sends : \/ snd[s].pc = "done"
                        \/ snd[s].pc \in {"waiting", "sleeping"} /\ now < snd[s].wake
    /\ now' = now + 1
    /\ UNCHANGED <<setup, world, pins, snd, net, box>>
-----------------------------------------------------------------------------
(* The world changes; each kind of change happens at most once.            *)

Shake == snd' = [s \in Sends |-> [snd[s] EXCEPT !.shaken = @ \/ snd[s].pc = "waiting"]]
Change(kind, w) ==
    /\ kind \in world.left
    /\ world' = [w EXCEPT !.left = @ \ {kind}]
    /\ Shake
    /\ UNCHANGED <<setup, now, pins, net, box>>

\* A provider publishes a second key beside its first, on either side of it.
PublishKey ==
    \E d \in DOMAIN world.dns : \E t \in Parsed(world.dns[d]) : \E first \in BOOLEAN :
        Change("publish",
               [world EXCEPT !.dns[d] = (@ \ {t}) \cup
                    {[t EXCEPT !.pk = IF first THEN <<"k2">> \o @ ELSE Append(@, "k2")]}])

\* It signs its cards again, under the new key, once that is published.
Publishes(d, k) == \E t \in Parsed(world.dns[d]) : k \in Elements(t.pk)
ResignCards ==
    /\ \E d \in DOMAIN world.dns : \E t \in Parsed(world.dns[d]) : Len(t.pk) = 2
    /\ Change("resign",
              [world EXCEPT !.cards = [n \in DOMAIN @ |->
                  IF is_shadowname(n) /\ Publishes(n.domain, "k2")
                  THEN build_signed_agent_card(@[n].body.pk, n.domain, "k2") ELSE @[n]]])

\* It withdraws the old key once nothing is signed with it.
RetireKey ==
    \E d \in DOMAIN world.dns : \E t \in Parsed(world.dns[d]) :
           /\ Len(t.pk) = 2
           /\ \A n \in DOMAIN world.cards : is_shadowname(n) /\ n.domain = d =>
                  \A sig \in Elements(world.cards[n].signatures) : sig.key = "k2"
           /\ Change("retire", [world EXCEPT !.dns[d] = (@ \ {t}) \cup {[t EXCEPT !.pk = <<"k2">>]}])

\* A named Shadow changes its key; its provider publishes the new card.
RotateShadowKey ==
    \E n \in DOMAIN world.signing :
        /\ is_shadowname(n)
        /\ Change("rotate",
                  [world EXCEPT !.signing[n] = "n2",
                                !.cards[n] = build_signed_agent_card("n2", n.domain, @.signatures[1].key)])

\* A direct host renews its certificate.
RenewCert ==
    \E h \in DOMAIN world.certs : Change("renew", [world EXCEPT !.certs[h] = "c2"])
-----------------------------------------------------------------------------
Idle == [pc |-> "idle", rec |-> None, start |-> 0, delay |-> InitialDelay, wake |-> 0,
         n |-> 0, at |-> 0, code |-> None, out |-> None, lost |-> {}, shaken |-> FALSE]

Init ==
    /\ setup \in Setups
    /\ now = 0
    /\ world = setup.world
    /\ pins = [h \in DOMAIN setup.world.certs |-> None]
    /\ snd = [s \in Sends |-> IF s \in DOMAIN setup.calls THEN Idle
                              ELSE [Idle EXCEPT !.pc = "done"]]
    /\ net = {}
    /\ box = [replay |-> {}, cached |-> setup.cached, contacts |-> setup.contacts, decided |-> {}]

SendStep(s) ==
    \/ Start(s) \/ LookupProvider(s) \/ FetchCard(s) \/ FetchDirectCard(s)
    \/ Post(s) \/ ReadAnswer(s) \/ ReadPinnedAnswer(s) \/ TransportFails(s) \/ Wake(s)
Operator == PublishKey \/ ResignCards \/ RetireKey \/ RotateShadowKey \/ RenewCert
Next ==
    \/ \E s \in Sends : SendStep(s)
    \/ \E r \in net : Duplicate(r) \/ Resolve(r) \/ Decide(r)
    \/ Tick
    \/ Operator

Spec == Init /\ [][Next]_vars
\* The sender's own steps and its clock go on; nothing is promised of the
\* receiver, the network or the operators.
FairSpec == Spec /\ WF_vars(Tick) /\ \A s \in Sends : WF_vars(SendStep(s))
-----------------------------------------------------------------------------
\* A call is where its state says, ends with an outcome and only then, and
\* waits for answers to the request it sent last.
TypeOK ==
    /\ setup \in Setups /\ now \in Nat
    /\ \A s \in Sends :
           /\ snd[s].pc \in {"idle", "lookup", "card", "build", "waiting", "answered",
                             "sleeping", "done"}
           /\ snd[s].out \in Outcomes \cup {None}
           /\ snd[s].out # None => snd[s].pc = "done"
           /\ snd[s].delay \in {InitialDelay} \cup 1..MaxDelay /\ snd[s].lost \subseteq 1..snd[s].n
    /\ \A r \in net : r.send \in Sends /\ r.n \in 1..snd[r.send].n
                      /\ r.stage \in {"sent", "resolved"}

Accepted(s) == {d \in box.decided : d.send = s /\ d.code = "accepted"}
\* Whether s has the answer that its message was let in, or may have had it.
Heard(s) == \/ snd[s].pc = "answered" /\ snd[s].code = "accepted"
            \/ snd[s].out \in {"accepted", "pin_mismatch"}

\* Retrying delivers at least once, and more often only for answers that went
\* astray: no attempt gets past the replay cache twice, whatever the network
\* duplicates or delays, a call that returned was let in by the attempt it
\* heard of, and without copies every other attempt that was let in is one
\* whose answer got lost (send_with_retries, ReceiverPipeline.receive).
CopiesExplained ==
    /\ \A a, b \in box.decided : a.send = b.send /\ a.n = b.n => a = b
    /\ \A s \in Sends :
           /\ setup.copies \/ \A a \in Accepted(s) : a.n \in snd[s].lost \/ (Heard(s) /\ a.n = snd[s].n)
           /\ snd[s].out = "accepted" => \E a \in Accepted(s) : a.n = snd[s].n

\* Whatever was lost or delayed, no retry is refused as a replay of an earlier
\* attempt, since each has a messageId of its own (a2a.py, builder()); only a
\* copy of the same attempt that overtook it can be the cause.
RetriesAreNew ==
    \A s \in Sends :
        snd[s].out = "replay" =>
            \E d \in box.decided : d.send = s /\ d.n = snd[s].n /\ d.copy

\* No attempt starts after the budget is spent, although the jittered wait may
\* be longer than what is left of it (send_with_retries).
AttemptsInBudget ==
    \A s \in DOMAIN setup.calls : snd[s].at - snd[s].start <= Call(s).budget

\* A Shadow is published in world w as the SDK publishes it: a key signs for
\* itself, a name has a card with its key under a key of its only record.
Published(w, i) ==
    \/ /\ is_public_key_identifier(i) /\ ~is_shadowname(i)
       /\ i \in DOMAIN w.signing /\ w.signing[i] = i.key
    \/ /\ is_shadowname(i) /\ ~is_public_key_identifier(i)
       /\ i.domain \in DOMAIN w.dns /\ i \in DOMAIN w.cards
       /\ i \in DOMAIN w.signing /\ w.signing[i] \in Keys
       /\ \E t \in w.dns[i.domain] : \E k \in Elements(t.pk) :
              /\ Parsed(w.dns[i.domain]) = {t}
              /\ w.cards[i] = build_signed_agent_card(w.signing[i], i.domain, k)

\* A message of a published Shadow whose keys and records stood still during
\* the attempt is not refused for its signature, at any point of a provider's
\* key rotation: any published key verifies the card (_verify_one).
GenuineNotRefused ==
    \A s \in Sends :
        /\ snd[s].out = "signature"
        /\ Call(s).defects = <<>> /\ Published(setup.world, Call(s).from)
        => snd[s].shaken

\* The sender's exception is the receiver's verdict: a code survives the way
\* through problem+json (problem_response, wire_error_from_problem).
SenderLearnsVerdict ==
    \A s \in Sends :
        snd[s].out \in WireErrors =>
            snd[s].out = IF snd[s].code = "raises" THEN "parse_error" ELSE snd[s].code

\* A credential of an issuer that has published the key it is signed with, and
\* whose record stood still, is not rejected.
GraceWindowHonoured ==
    \A s \in Sends :
        snd[s].out = "creds_rejected" /\ ~snd[s].shaken =>
            \E i \in DOMAIN Call(s).creds :
                LET c == Call(s).creds[i]
                IN  \/ is_public_key_identifier(c.iss)
                    \/ \A t \in world.dns[c.iss.domain] : c.key \notin Elements(t.pk)

\* A certificate once trusted on first use stays the one that is trusted,
\* however often it is renewed and whoever connects (verify_tls_pin).
PinStable == [][\A h \in DOMAIN pins : pins[h] # None => pins'[h] = pins[h]]_pins

\* Every call returns or raises, even if nothing ever answers.
EverySendEnds == \A s \in Sends : <>(snd[s].pc = "done")
=============================================================================
