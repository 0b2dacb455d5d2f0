--------------------------- MODULE DeliveryProofs ---------------------------
(***************************************************************************)
(* Proofs about Delivery, for any calls, worlds, receivers and lifetimes.  *)
(***************************************************************************)
EXTENDS Delivery, TLAPS

USE Zenon, SMTT(10)

Fields == {"pc", "rec", "start", "delay", "wake", "n", "at", "code", "out", "lost", "shaken"}
Pcs == {"idle", "lookup", "card", "build", "waiting", "answered", "sleeping", "done"}

\* The records have their fields.
Shape ==
    /\ DOMAIN snd = Sends /\ \A s \in Sends : DOMAIN snd[s] = Fields
    /\ \A r \in net : DOMAIN r = {"send", "n", "rec", "stage", "copy", "msg"}
    /\ DOMAIN box = {"replay", "cached", "contacts", "decided"}
    /\ DOMAIN world = {"dns", "cards", "signing", "certs", "left"}

\* Each call has its types; a send that no call of the setup is never starts.
SendTyped(s) ==
    /\ snd[s].pc \in Pcs
    /\ snd[s].start \in Nat /\ snd[s].wake \in Nat /\ snd[s].at \in Nat
    /\ snd[s].n \in Nat /\ snd[s].shaken \in BOOLEAN
    /\ snd[s].delay \in {InitialDelay} \cup 1..MaxDelay
    /\ snd[s].out \in Outcomes \cup {None}
    /\ snd[s].out # None => snd[s].pc = "done"
    /\ s \notin DOMAIN setup.calls => snd[s].pc = "done" /\ snd[s].out = None

\* A request is one of the attempts of its call.
RequestTyped(r) ==
    /\ r.send \in Sends /\ r.send \in DOMAIN setup.calls
    /\ r.n \in Nat /\ 1 <= r.n /\ r.n <= snd[r.send].n
    /\ r.stage \in {"sent", "resolved"} /\ r.copy \in BOOLEAN

Typed ==
    /\ setup \in Setups /\ now \in Nat /\ Shape
    /\ \A s \in Sends : SendTyped(s)
    /\ \A r \in net : RequestTyped(r)

\* Nothing happens to the other calls.
Others(s) == \A t \in Sends : t # s => snd'[t] = snd[t]

\* The steps of a call that are not about an attempt or its answer.
Quiet(s) ==
    /\ DOMAIN snd' = Sends /\ DOMAIN snd'[s] = Fields /\ Others(s)
    /\ snd[s].pc \in Pcs \ {"answered", "done"}
    /\ snd'[s].pc \in Pcs \ {"idle", "waiting", "answered"}
    /\ \/ snd'[s].pc # "done" /\ snd'[s].out = snd[s].out
       \/ /\ snd'[s].pc = "done"
          /\ snd'[s].out \in {"bad_address", "unresolved", "card_error", "pin_mismatch",
                              "mint_error", "exhausted"}
    /\ snd'[s].n = snd[s].n /\ snd'[s].at = snd[s].at /\ snd'[s].code = snd[s].code
    /\ snd'[s].lost = snd[s].lost /\ snd'[s].shaken = snd[s].shaken
    /\ net' \subseteq net
    /\ UNCHANGED <<setup, now, world, box>>

\* What they do to its times.
Timed(s) ==
    /\ snd'[s].start \in Nat /\ snd'[s].wake \in Nat
    /\ snd'[s].delay \in {InitialDelay} \cup 1..MaxDelay
    /\ \/ /\ snd'[s].pc \in {"lookup", "card"} /\ snd[s].pc \in {"idle", "lookup"}
          /\ snd'[s].start = snd[s].start
       \/ snd'[s].pc = "done" /\ snd'[s].start = snd[s].start
       \/ snd'[s].pc = "build" /\ snd[s].pc = "card" /\ snd'[s].start = now
       \/ /\ snd'[s].pc = "build" /\ snd[s].pc = "sleeping" /\ now >= snd[s].wake
          /\ snd'[s].start = snd[s].start
       \/ /\ snd'[s].pc = "sleeping" /\ snd'[s].start = snd[s].start
          /\ now <= snd'[s].wake /\ snd'[s].wake - snd[s].start <= Call(s).budget

\* A call that is not over has no outcome.
LEMMA NoneIsNoOutcome == None \notin Outcomes
BY DeliveryAssumption

\* Goto and Done change what they say.
LEMMA GotoDone ==
    ASSUME Shape, NEW s \in Sends, NEW x
    PROVE  /\ Goto(s, x) =>
                /\ DOMAIN snd' = Sends /\ DOMAIN snd'[s] = Fields /\ Others(s)
                /\ snd'[s].pc = x /\ snd'[s].out = snd[s].out
                /\ snd'[s].n = snd[s].n /\ snd'[s].at = snd[s].at /\ snd'[s].code = snd[s].code
                /\ snd'[s].lost = snd[s].lost /\ snd'[s].shaken = snd[s].shaken
                /\ snd'[s].start = snd[s].start /\ snd'[s].wake = snd[s].wake
                /\ snd'[s].delay = snd[s].delay
           /\ Done(s, x) =>
                /\ DOMAIN snd' = Sends /\ DOMAIN snd'[s] = Fields /\ Others(s)
                /\ snd'[s].pc = "done" /\ snd'[s].out = x
                /\ snd'[s].n = snd[s].n /\ snd'[s].at = snd[s].at /\ snd'[s].code = snd[s].code
                /\ snd'[s].lost = snd[s].lost /\ snd'[s].shaken = snd[s].shaken
                /\ snd'[s].start = snd[s].start /\ snd'[s].wake = snd[s].wake
                /\ snd'[s].delay = snd[s].delay
<1>1. ASSUME Goto(s, x)
      PROVE  /\ DOMAIN snd' = Sends /\ DOMAIN snd'[s] = Fields /\ Others(s)
             /\ snd'[s].pc = x /\ snd'[s].out = snd[s].out
             /\ snd'[s].n = snd[s].n /\ snd'[s].at = snd[s].at /\ snd'[s].code = snd[s].code
             /\ snd'[s].lost = snd[s].lost /\ snd'[s].shaken = snd[s].shaken
             /\ snd'[s].start = snd[s].start /\ snd'[s].wake = snd[s].wake
             /\ snd'[s].delay = snd[s].delay
  BY ZenonT(60), <1>1 DEF Goto, Shape, Fields, Others
<1>2. ASSUME Done(s, x)
      PROVE  /\ DOMAIN snd' = Sends /\ DOMAIN snd'[s] = Fields /\ Others(s)
             /\ snd'[s].pc = "done" /\ snd'[s].out = x
             /\ snd'[s].n = snd[s].n /\ snd'[s].at = snd[s].at /\ snd'[s].code = snd[s].code
             /\ snd'[s].lost = snd[s].lost /\ snd'[s].shaken = snd[s].shaken
             /\ snd'[s].start = snd[s].start /\ snd'[s].wake = snd[s].wake
             /\ snd'[s].delay = snd[s].delay
  BY <1>2 DEF Done, Shape, Fields, Others
<1> QED BY <1>1, <1>2

\* A call under way is one of the setup.
LEMMA CallTyped ==
    ASSUME Typed, NEW s \in Sends, snd[s].pc # "done"
    PROVE  s \in DOMAIN setup.calls /\ Call(s).budget \in Nat /\ Call(s).life \in Nat
BY SetupsAssumption DEF Typed, SendTyped, Call

\* Looking up an address and its card.
LEMMA ResolvingIsQuiet ==
    ASSUME Typed, NEW s \in Sends,
           \/ Start(s) \/ LookupProvider(s) \/ FetchCard(s) \/ FetchDirectCard(s)
    PROVE  Quiet(s) /\ Timed(s)
<1> USE DEF Typed
<1>0. SendTyped(s)
  OBVIOUS
<1>1. CASE Start(s)
  <2>1. Done(s, "bad_address") \/ Goto(s, "lookup") \/ Goto(s, "card")
    BY <1>1 DEF Start
  <2>2. snd[s].pc = "idle" /\ UNCHANGED <<setup, now, world, net, box>>
    BY <1>1 DEF Start
  <2>3. CASE Done(s, "bad_address")
    BY ZenonT(60), <2>2, <2>3, <1>0, GotoDone DEF Quiet, Timed, SendTyped, Pcs
  <2>4. CASE Goto(s, "lookup")
    BY SMTT(30), <2>2, <2>4, <1>0, GotoDone DEF Quiet, Timed, SendTyped, Pcs
  <2>5. CASE Goto(s, "card")
    BY SMTT(30), <2>2, <2>5, <1>0, GotoDone DEF Quiet, Timed, SendTyped, Pcs
  <2> QED BY <2>1, <2>3, <2>4, <2>5
<1>2. CASE LookupProvider(s)
  <2>2. snd[s].pc = "lookup" /\ UNCHANGED <<setup, now, world, net, box>>
    BY <1>2 DEF LookupProvider
  <2>3. CASE Done(s, "unresolved")
    BY ZenonT(60), <2>2, <2>3, <1>0, GotoDone DEF Quiet, Timed, SendTyped, Pcs
  <2>4. CASE \E x : snd' = [snd EXCEPT ![s].pc = "card", ![s].rec = x]
    <3>1. /\ DOMAIN snd' = Sends /\ DOMAIN snd'[s] = Fields /\ Others(s)
          /\ snd'[s].pc = "card" /\ snd'[s].out = snd[s].out
          /\ snd'[s].n = snd[s].n /\ snd'[s].at = snd[s].at /\ snd'[s].code = snd[s].code
          /\ snd'[s].lost = snd[s].lost /\ snd'[s].shaken = snd[s].shaken
          /\ snd'[s].start = snd[s].start /\ snd'[s].wake = snd[s].wake
          /\ snd'[s].delay = snd[s].delay
      BY SMTT(30), <2>4 DEF Shape, Fields, Others
    <3> QED BY <3>1, <2>2, <1>0 DEF Quiet, Timed, SendTyped, Pcs
  <2> QED BY <1>2, <2>3, <2>4 DEF LookupProvider
<1>3. ASSUME snd[s].pc = "card", UNCHANGED <<setup, now, world, net, box>>,
             (\E ok \in BOOLEAN : CardSeen(s, ok)) \/ Done(s, "card_error") \/ Done(s, "pin_mismatch")
      PROVE  Quiet(s) /\ Timed(s)
  <2>1. CASE Done(s, "card_error") \/ Done(s, "pin_mismatch")
    BY ZenonT(60), <2>1, <1>3, <1>0, GotoDone DEF Quiet, Timed, SendTyped, Pcs
  <2>2. CASE snd' = [snd EXCEPT ![s].pc = "build", ![s].rec = None, ![s].start = now]
    <3>1. /\ DOMAIN snd' = Sends /\ DOMAIN snd'[s] = Fields /\ Others(s)
          /\ snd'[s].pc = "build" /\ snd'[s].out = snd[s].out
          /\ snd'[s].n = snd[s].n /\ snd'[s].at = snd[s].at /\ snd'[s].code = snd[s].code
          /\ snd'[s].lost = snd[s].lost /\ snd'[s].shaken = snd[s].shaken
          /\ snd'[s].start = now /\ snd'[s].wake = snd[s].wake
          /\ snd'[s].delay = snd[s].delay
      BY ZenonT(60), <2>2 DEF Shape, Fields, Others
    <3> QED BY <3>1, <1>3, <1>0 DEF Quiet, Timed, SendTyped, Pcs
  <2> QED BY <2>1, <2>2, <1>3 DEF CardSeen
<1>4. CASE FetchCard(s)
  <2>1. (\E ok \in BOOLEAN : CardSeen(s, ok)) \/ Done(s, "card_error")
    BY <1>4 DEF FetchCard, CardSeen
  <2> QED BY <2>1, <1>4, <1>3 DEF FetchCard
<1>5. CASE FetchDirectCard(s)
  <2>1. (\E ok \in BOOLEAN : CardSeen(s, ok)) \/ Done(s, "card_error") \/ Done(s, "pin_mismatch")
    BY <1>5 DEF FetchDirectCard, CardSeen
  <2> QED BY <2>1, <1>5, <1>3 DEF FetchDirectCard
<1> QED BY <1>1, <1>2, <1>4, <1>5

\* The next wait is not negative and ends within the budget.
LEMMA WaitFits ==
    ASSUME NEW delay \in Nat, NEW j \in Jittered(delay), NEW left \in Nat
    PROVE  Wait(j, left) \in Nat /\ Wait(j, left) <= left
<1>1. delay \div 4 \in Nat /\ delay \div 4 <= delay
  BY SMTT(30)
<1>2. j \in Nat
  BY SMTT(30), <1>1 DEF Jittered
<1> QED BY SMTT(30), <1>2 DEF Wait

\* A failed attempt and the wait after it.
LEMMA RetryingIsQuiet ==
    ASSUME Typed, NEW s \in Sends,
           TransportFails(s) \/ Wake(s) \/ (Post(s) /\ ~Mintable(Call(s).life))
    PROVE  Quiet(s) /\ Timed(s)
<1> USE DEF Typed
<1>0. SendTyped(s)
  OBVIOUS
<1>1. CASE Wake(s)
  BY SMTT(30), <1>1, <1>0, GotoDone DEF Wake, Quiet, Timed, SendTyped, Pcs
<1>2. CASE Post(s) /\ ~Mintable(Call(s).life)
  BY <1>2, <1>0, GotoDone DEF Post, Quiet, Timed, SendTyped, Pcs
<1>3. CASE TransportFails(s)
  <2> DEFINE left == Call(s).budget - (now - snd[s].start)
  <2>1. /\ snd[s].pc = "waiting" /\ net' \subseteq net
        /\ UNCHANGED <<setup, now, world, pins, box>>
    BY <1>3 DEF TransportFails
  <2>2. CASE Done(s, "exhausted")
    BY <2>1, <2>2, <1>0, GotoDone DEF Quiet, Timed, SendTyped, Pcs
  <2>3. CASE ~Done(s, "exhausted")
    <3>1. PICK j \in Jittered(snd[s].delay) :
              snd' = [snd EXCEPT ![s].pc = "sleeping", ![s].wake = now + Wait(j, left),
                                 ![s].delay = NextDelay(@)]
      BY <1>3, <2>3 DEF TransportFails
    <3>2. ~(now - snd[s].start >= Call(s).budget)
      BY <1>3, <2>3 DEF TransportFails
    <3>3. Call(s).budget \in Nat
      BY <2>1, CallTyped
    <3>4. left \in Nat
      BY SMTT(30), <3>2, <3>3, <1>0 DEF SendTyped
    <3>5. snd[s].delay \in Nat \ {0}
      BY SMTT(30), <1>0, DeliveryAssumption DEF SendTyped
    <3>6. Wait(j, left) \in Nat /\ Wait(j, left) <= left
      BY <3>4, <3>5, WaitFits
    <3>7. NextDelay(snd[s].delay) \in 1..MaxDelay
      BY SMTT(30), <3>5, DeliveryAssumption DEF NextDelay
    <3> DEFINE w == Wait(j, left)
               d == NextDelay(snd[s].delay)
    <3>8. snd' = [snd EXCEPT ![s].pc = "sleeping", ![s].wake = now + w, ![s].delay = d]
      BY <3>1
    <3>9. w \in Nat /\ w <= left /\ d \in 1..MaxDelay
      BY <3>6, <3>7
    <3> HIDE DEF w, d
    <3>10. /\ DOMAIN snd' = Sends /\ DOMAIN snd'[s] = Fields /\ Others(s)
           /\ snd'[s].pc = "sleeping" /\ snd'[s].out = snd[s].out
           /\ snd'[s].n = snd[s].n /\ snd'[s].at = snd[s].at /\ snd'[s].code = snd[s].code
           /\ snd'[s].lost = snd[s].lost /\ snd'[s].shaken = snd[s].shaken
           /\ snd'[s].start = snd[s].start /\ snd'[s].wake = now + w
           /\ snd'[s].delay = d
      BY ZenonT(60), <3>8 DEF Shape, Fields, Others
    <3>11. Quiet(s)
      BY <3>10, <2>1 DEF Quiet, Pcs
    <3>12. Timed(s)
      BY SMTT(30), <3>10, <3>9, <3>3, <1>0 DEF Timed, SendTyped
    <3> QED BY <3>11, <3>12
  <2> QED BY <2>2, <2>3
<1> QED BY <1>1, <1>2, <1>3
-----------------------------------------------------------------------------
(* An attempt, its answer, and the world's changes.                        *)

MsgFields == {"form", "kid", "from", "to", "iat", "exp", "creds", "key", "hash", "id", "ctx"}

\* The message m is attempt n of call s.
MessageOf(s, n, m) ==
    /\ m.iat \in Int /\ m.exp \in Int /\ m.id \in {<<s, n>>, None}
    /\ Call(s).defects = <<>> => m.from.id = Call(s).from

\* Attempt n of call s goes out.
Posted(s, m) ==
    /\ DOMAIN snd' = Sends /\ DOMAIN snd'[s] = Fields /\ Others(s)
    /\ snd[s].pc = "build" /\ snd'[s].pc = "waiting"
    /\ snd'[s].n = snd[s].n + 1 /\ snd'[s].at = now /\ snd'[s].wake = now + Timeout
    /\ snd'[s].shaken = FALSE
    /\ snd'[s].out = snd[s].out /\ snd'[s].code = snd[s].code /\ snd'[s].lost = snd[s].lost
    /\ snd'[s].start = snd[s].start /\ snd'[s].delay = snd[s].delay
    /\ net' = net \cup {[send |-> s, n |-> snd[s].n + 1, rec |-> None, stage |-> "sent",
                         copy |-> FALSE, msg |-> m]}
    /\ MessageOf(s, snd[s].n + 1, m)
    /\ Call(s).defects = <<>> => m.key = world.signing[Call(s).from]
    /\ UNCHANGED <<setup, now, world, box>>

\* Call s reads its answer and ends.
ReadOut(s) ==
    /\ DOMAIN snd' = Sends /\ DOMAIN snd'[s] = Fields /\ Others(s)
    /\ snd[s].pc = "answered" /\ snd'[s].pc = "done"
    /\ snd'[s].out \in {Outcome(s), "pin_mismatch"}
    /\ snd'[s].n = snd[s].n /\ snd'[s].at = snd[s].at /\ snd'[s].code = snd[s].code
    /\ snd'[s].lost = snd[s].lost /\ snd'[s].shaken = snd[s].shaken
    /\ snd'[s].start = snd[s].start /\ snd'[s].wake = snd[s].wake
    /\ snd'[s].delay = snd[s].delay
    /\ UNCHANGED <<setup, now, world, net, box>>

\* The answer reaches call s, or is lost.
Hears(s, n, code, blame) ==
    /\ DOMAIN snd' = Sends /\ DOMAIN snd'[s] = Fields /\ Others(s)
    /\ snd[s].pc = "waiting" /\ snd[s].n = n /\ snd'[s].pc = "answered"
    /\ snd'[s].code = code /\ snd'[s].shaken = (snd[s].shaken \/ blame)
    /\ snd'[s].n = snd[s].n /\ snd'[s].at = snd[s].at /\ snd'[s].out = snd[s].out
    /\ snd'[s].lost = snd[s].lost
    /\ snd'[s].start = snd[s].start /\ snd'[s].wake = snd[s].wake
    /\ snd'[s].delay = snd[s].delay
Loses(s, n) ==
    /\ DOMAIN snd' = Sends /\ DOMAIN snd'[s] = Fields /\ Others(s)
    /\ snd'[s].lost = snd[s].lost \cup {n}
    /\ snd'[s].pc = snd[s].pc /\ snd'[s].code = snd[s].code /\ snd'[s].shaken = snd[s].shaken
    /\ snd'[s].n = snd[s].n /\ snd'[s].at = snd[s].at /\ snd'[s].out = snd[s].out
    /\ snd'[s].start = snd[s].start /\ snd'[s].wake = snd[s].wake
    /\ snd'[s].delay = snd[s].delay

\* What a message is made of.
LEMMA BuiltMessage ==
    ASSUME Typed, NEW s \in Sends, snd[s].pc = "build", NEW n,
           NEW m, m = [f \in DOMAIN Built(s, n) |->
                         IF f \in DOMAIN Call(s).defects THEN Call(s).defects[f] ELSE Built(s, n)[f]]
    PROVE  /\ MessageOf(s, n, m)
           /\ Call(s).defects = <<>> => m.key = world.signing[Call(s).from]
<1> DEFINE b == Built(s, n)
           d == Call(s).defects
<1>0. s \in DOMAIN setup.calls /\ Call(s).life \in Nat /\ now \in Nat
  BY CallTyped DEF Typed
<1>1. /\ DOMAIN b = MsgFields
      /\ b.iat = now /\ b.exp = now + Call(s).life /\ b.id = <<s, n>>
      /\ b.from = Raw(Call(s).from) /\ b.key = world.signing[Call(s).from]
  BY DEF Built, build_and_sign_message, MsgFields
<1>2. /\ "iat" \in DOMAIN d => d.iat \in Int
      /\ "exp" \in DOMAIN d => d.exp \in Int
      /\ "id" \in DOMAIN d => d.id = None
  BY <1>0, SetupsAssumption DEF Call, Typed
<1> HIDE DEF b, d
<1>3. m = [f \in DOMAIN b |-> IF f \in DOMAIN d THEN d[f] ELSE b[f]]
  BY DEF b, d
<1>4. m.iat \in Int /\ m.exp \in Int /\ m.id \in {<<s, n>>, None}
  <2>1. m.iat \in Int
    BY SMTT(30), <1>0, <1>1, <1>2, <1>3 DEF MsgFields
  <2>2. m.exp \in Int
    BY SMTT(30), <1>0, <1>1, <1>2, <1>3 DEF MsgFields
  <2>3. m.id \in {<<s, n>>, None}
    BY <1>1, <1>2, <1>3 DEF MsgFields
  <2> QED BY <2>1, <2>2, <2>3
<1>5. ASSUME d = <<>> PROVE m.from.id = Call(s).from /\ m.key = world.signing[Call(s).from]
  <2>1. DOMAIN d = {}
    BY SMTT(30), <1>5
  <2>2. m.from = b.from /\ m.key = b.key
    BY <2>1, <1>1, <1>3 DEF MsgFields
  <2> QED BY SMTT(30), <2>2, <1>1 DEF Raw
<1> QED BY <1>4, <1>5 DEF MessageOf, d

\* An attempt sends such a message.
LEMMA PostPosts ==
    ASSUME Typed, NEW s \in Sends, Post(s), Mintable(Call(s).life)
    PROVE  \E m : Posted(s, m)
<1> DEFINE n == snd[s].n + 1
           m == [f \in DOMAIN Built(s, n) |->
                   IF f \in DOMAIN Call(s).defects THEN Call(s).defects[f] ELSE Built(s, n)[f]]
<1>1. /\ snd[s].pc = "build"
      /\ snd' = [snd EXCEPT ![s].pc = "waiting", ![s].n = n, ![s].at = now,
                            ![s].wake = now + Timeout, ![s].shaken = FALSE]
      /\ net' = net \cup {[send |-> s, n |-> n, rec |-> None, stage |-> "sent", copy |-> FALSE,
                           msg |-> m]}
      /\ UNCHANGED <<setup, now, world, box>>
  BY DEF Post
<1>2. MessageOf(s, n, m) /\ (Call(s).defects = <<>> => m.key = world.signing[Call(s).from])
  BY <1>1, BuiltMessage
<1> HIDE DEF n, m
<1>3. /\ DOMAIN snd' = Sends /\ DOMAIN snd'[s] = Fields /\ Others(s)
      /\ snd'[s].pc = "waiting" /\ snd'[s].n = n /\ snd'[s].at = now
      /\ snd'[s].wake = now + Timeout /\ snd'[s].shaken = FALSE
      /\ snd'[s].out = snd[s].out /\ snd'[s].code = snd[s].code /\ snd'[s].lost = snd[s].lost
      /\ snd'[s].start = snd[s].start /\ snd'[s].delay = snd[s].delay
  BY SMTT(30), <1>1 DEF Typed, Shape, Fields, Others
<1>4. n = snd[s].n + 1
  BY DEF n
<1> QED BY <1>1, <1>2, <1>3, <1>4 DEF Posted

\* Reading an answer, over a pinned client or not.
LEMMA ReadReads ==
    ASSUME Typed, NEW s \in Sends, ReadAnswer(s) \/ ReadPinnedAnswer(s)
    PROVE  ReadOut(s)
<1>1. /\ snd[s].pc = "answered" /\ UNCHANGED <<setup, now, world, net, box>>
      /\ Done(s, Outcome(s)) \/ Done(s, "pin_mismatch")
  BY DEF ReadAnswer, ReadPinnedAnswer
<1> QED BY <1>1, GotoDone DEF Typed, ReadOut

\* An answer reaches its call or not.
LEMMA AnswerAnswers ==
    ASSUME Typed, NEW r, r.send \in Sends, NEW code, NEW blame, Answer(r, code, blame)
    PROVE  \/ r.copy /\ UNCHANGED snd
           \/ ~r.copy /\ Hears(r.send, r.n, code, blame)
           \/ ~r.copy /\ Loses(r.send, r.n)
<1> DEFINE s == r.send
<1> USE DEF Typed
<1>1. CASE /\ ~r.copy /\ snd[s].pc = "waiting" /\ snd[s].n = r.n
           /\ snd' = [snd EXCEPT ![s].pc = "answered", ![s].code = code,
                                 ![s].shaken = @ \/ blame]
  <2> DEFINE b == snd[s].shaken \/ blame
  <2>1. snd' = [snd EXCEPT ![s].pc = "answered", ![s].code = code, ![s].shaken = b]
    BY <1>1
  <2> HIDE DEF b
  <2>2. /\ DOMAIN snd' = Sends /\ DOMAIN snd'[s] = Fields /\ Others(s)
        /\ snd'[s].pc = "answered" /\ snd'[s].code = code /\ snd'[s].shaken = b
        /\ snd'[s].n = snd[s].n /\ snd'[s].at = snd[s].at /\ snd'[s].out = snd[s].out
        /\ snd'[s].lost = snd[s].lost
        /\ snd'[s].start = snd[s].start /\ snd'[s].wake = snd[s].wake
        /\ snd'[s].delay = snd[s].delay
    BY ZenonT(60), <2>1 DEF Shape, Fields, Others
  <2> QED BY <1>1, <2>2 DEF Hears, b
<1>2. CASE ~r.copy /\ snd' = [snd EXCEPT ![s].lost = @ \cup {r.n}]
  <2> DEFINE k == snd[s].lost \cup {r.n}
  <2>1. snd' = [snd EXCEPT ![s].lost = k]
    BY <1>2
  <2> HIDE DEF k
  <2>2. /\ DOMAIN snd' = Sends /\ DOMAIN snd'[s] = Fields /\ Others(s)
        /\ snd'[s].lost = k
        /\ snd'[s].pc = snd[s].pc /\ snd'[s].code = snd[s].code /\ snd'[s].shaken = snd[s].shaken
        /\ snd'[s].n = snd[s].n /\ snd'[s].at = snd[s].at /\ snd'[s].out = snd[s].out
        /\ snd'[s].start = snd[s].start /\ snd'[s].wake = snd[s].wake
        /\ snd'[s].delay = snd[s].delay
    BY <2>1 DEF Shape, Fields, Others
  <2> QED BY <1>2, <2>2 DEF Loses, k
<1> QED BY <1>1, <1>2 DEF Answer
-----------------------------------------------------------------------------
(* The receiver's decision of request r: refused before the replay cache,  *)
(* as a replay, or past it.                                                *)

Key(r) == <<r.msg.from.id, r.msg.id>>
Valid(r) == r.msg.id # None /\ InTime(r.msg, MaxLifetime, now)

Dismissed(c) == c \in {"signature", "parse_error"} /\ box' = box
Replayed(r, c) ==
    /\ c = "replay" /\ Valid(r) /\ \E e \in Live(box) : e.id = Key(r)
    /\ DOMAIN box' = DOMAIN box /\ box'.replay = Live(box) /\ box'.decided = box.decided
Admitted(r, c) ==
    /\ c \in (WireErrors \ {"replay", "signature"}) \cup {"accepted", "raises"}
    /\ Valid(r) /\ ~\E e \in Live(box) : e.id = Key(r)
    /\ DOMAIN box' = DOMAIN box
    /\ box'.replay = Live(box) \cup {[id |-> Key(r), until |-> now + Retention]}
    /\ box'.decided = box.decided \cup
           {[send |-> r.send, n |-> r.n, copy |-> r.copy, code |-> c]}

\* From the replay cache on.
LEMMA AdmitDecides ==
    ASSUME Shape, NEW r, Valid(r), NEW c, c = Admit(r, box).code, box' = Admit(r, box).box
    PROVE  Replayed(r, c) \/ Admitted(r, c)
<1> DEFINE m == r.msg
           sender == m.from.id
           live == Live(box)
           b1 == [box EXCEPT !.replay = live \cup {[id |-> <<sender, m.id>>, until |-> now + Retention]}]
           b2 == [b1 EXCEPT !.cached = CachedCreds(b1, sender, m.creds)]
           creds == IF m.creds # <<>> THEN Elements(m.creds)
                    ELSE {e.cred : e \in {f \in b2.cached : f.sender = sender}}
           route == Classify(b2, sender, r.rec, creds, m.ctx)
           code == IF CredsVerdict(m.creds) # "ok" THEN CredsVerdict(m.creds)
                   ELSE IF m.ctx = "malformed" THEN "parse_error"
                   ELSE IF route \in {"inbox", "auto_add", "stranger_review"} THEN "accepted" ELSE route
           b3 == IF code = "accepted" /\ route = "auto_add"
                 THEN [b2 EXCEPT !.contacts = @ \cup {sender}] ELSE b2
           done == [send |-> r.send, n |-> r.n, copy |-> r.copy, code |-> code]
           seen == \E e \in live : e.id = <<sender, m.id>>
           entry == [id |-> <<sender, m.id>>, until |-> now + Retention]
           pruned == [box EXCEPT !.replay = live]
           taken == [b3 EXCEPT !.decided = @ \cup {done}]
<1>0. Admit(r, box) = IF seen THEN Reply("replay", pruned) ELSE Reply(code, taken)
  BY DEF Admit
<1>1. /\ seen => c = "replay" /\ box' = pruned
      /\ ~seen => c = code /\ box' = taken
  <2> HIDE DEF seen, code, pruned, taken
  <2> QED BY SMTT(30), <1>0 DEF Reply
<1>2. CASE seen
  <2>1. c = "replay" /\ box' = [box EXCEPT !.replay = live]
    BY <1>1, <1>2
  <2> QED BY <2>1, <1>2 DEF Replayed, Key, Shape
<1>3. CASE ~seen
  <2>1. c = code /\ box' = [b3 EXCEPT !.decided = @ \cup {done}]
    BY <1>1, <1>3
  <2>2. CredsVerdict(m.creds) \in {"ok", "raises", "creds_rejected"}
    BY DEF CredsVerdict
  <2>3. route \in {"inbox", "auto_add", "policy", "stranger_review", "creds_rejected",
                   "creds_required"}
    BY DEF Classify
  <2>4. code \in (WireErrors \ {"replay", "signature"}) \cup {"accepted", "raises"}
    <3> HIDE DEF route
    <3> QED BY <2>2, <2>3 DEF WireErrors
  <2>5. /\ DOMAIN b1 = DOMAIN box /\ b1.replay = live \cup {entry} /\ b1.decided = box.decided
    BY DEF Shape
  <2> HIDE DEF b1, live, entry, code
  <2>6. DOMAIN b2 = DOMAIN box /\ b2.replay = live \cup {entry} /\ b2.decided = box.decided
    BY <2>5 DEF Shape
  <2> HIDE DEF b2, route
  <2>7. DOMAIN b3 = DOMAIN box /\ b3.replay = live \cup {entry} /\ b3.decided = box.decided
    BY <2>6 DEF Shape
  <2> HIDE DEF b3, done
  <2>8. /\ DOMAIN box' = DOMAIN box /\ box'.replay = live \cup {entry}
        /\ box'.decided = box.decided \cup {done}
    BY <2>1, <2>7 DEF Shape
  <2> QED BY <2>1, <2>4, <2>8, <1>3 DEF Admitted, Key, live, entry, done
<1> QED BY <1>2, <1>3

\* The whole of it.  A signature is refused only where the card or the key of
\* the message does not fit.
LEMMA DecisionDecides ==
    ASSUME Shape, NEW r, NEW c, c = Decision(r, box).code, box' = Decision(r, box).box
    PROVE  /\ Dismissed(c) \/ Replayed(r, c) \/ Admitted(r, c)
           /\ c = "signature" =>
                LET from == r.msg.from.id
                    card == world.cards[from]
                IN  IF is_public_key_identifier(from) THEN r.msg.key # from.key
                    ELSE \/ card = None \/ ~verify_agent_card(card, r.rec, from)
                         \/ r.msg.key # card.body.pk
<1> DEFINE m == r.msg
           sender == m.from.id
           keyed == is_public_key_identifier(sender)
           card == world.cards[sender]
           verified == card # None /\ verify_agent_card(card, r.rec, sender)
           k == IF keyed THEN sender.key ELSE card.body.pk
           checked == verify_envelope(m, k, setup.subject, now)
<1>1. Decision(r, box) =
        IF ~keyed /\ ~verified THEN Reply("signature", box)
        ELSE IF checked # "ok" THEN Reply(checked, box)
        ELSE IF m.hash # "ok" \/ m.id = None THEN Reply("parse_error", box)
        ELSE Admit(r, box)
  BY DEF Decision
<1>2. /\ checked \in {"ok", "parse_error", "signature"}
      /\ checked = "ok" => InTime(m, MaxLifetime, now)
      /\ checked = "signature" => m.key # k
  BY DEF verify_envelope
<1> HIDE DEF checked, verified, keyed
<1>3. CASE ~keyed /\ ~verified
  <2>1. c = "signature" /\ box' = box
    BY SMTT(30), <1>1, <1>3 DEF Reply
  <2> QED BY <2>1, <1>3 DEF Dismissed, verified, keyed
<1>4. CASE ~(~keyed /\ ~verified) /\ checked # "ok"
  <2>1. c = checked /\ box' = box
    BY SMTT(30), <1>1, <1>4 DEF Reply
  <2> QED BY <2>1, <1>4, <1>2 DEF Dismissed, keyed
<1>5. CASE ~(~keyed /\ ~verified) /\ checked = "ok" /\ (m.hash # "ok" \/ m.id = None)
  <2>1. c = "parse_error" /\ box' = box
    BY SMTT(30), <1>1, <1>5 DEF Reply
  <2> QED BY <2>1 DEF Dismissed
<1>6. CASE ~(~keyed /\ ~verified) /\ checked = "ok" /\ ~(m.hash # "ok" \/ m.id = None)
  <2>1. Decision(r, box) = Admit(r, box)
    BY <1>1, <1>6
  <2>2. Valid(r)
    BY <1>6, <1>2 DEF Valid
  <2>3. Replayed(r, c) \/ Admitted(r, c)
    BY <2>1, <2>2, AdmitDecides
  <2> QED BY <2>3 DEF Replayed, Admitted
<1> QED BY <1>3, <1>4, <1>5, <1>6
-----------------------------------------------------------------------------
(* Every step is of one of these kinds.                                    *)

AnswerTo(r, c, blame) ==
    \/ r.copy /\ UNCHANGED snd
    \/ ~r.copy /\ Hears(r.send, r.n, c, blame)
    \/ ~r.copy /\ Loses(r.send, r.n)

\* Why a signature is refused.
SignatureCause(r, c, blame) ==
    c = "signature" =>
        \/ blame
        \/ /\ r.stage = "resolved"
           /\ LET from == r.msg.from.id
                  card == world.cards[from]
              IN  IF is_public_key_identifier(from) THEN r.msg.key # from.key
                  ELSE \/ card = None \/ ~verify_agent_card(card, r.rec, from)
                       \/ r.msg.key # card.body.pk

Refused(c) == c \in {"signature", "parse_error", "unknown_recipient"} /\ box' = box
Answered(r, c, blame) ==
    /\ blame \in BOOLEAN
    /\ AnswerTo(r, c, blame) /\ SignatureCause(r, c, blame)
    /\ Refused(c) \/ Replayed(r, c) \/ Admitted(r, c)
    /\ net' = net \ {r}
    /\ UNCHANGED <<setup, now, world>>

Resolved(r, q) ==
    /\ r.stage = "sent" /\ q.stage = "resolved"
    /\ DOMAIN q = DOMAIN r /\ q.send = r.send /\ q.n = r.n /\ q.copy = r.copy /\ q.msg = r.msg
    /\ ~is_public_key_identifier(r.msg.from.id) =>
           q.rec = Record(world.dns[r.msg.from.id.domain])
    /\ net' = (net \ {r}) \cup {q}
    /\ UNCHANGED <<setup, now, world, snd, box>>

Copied(r, q) ==
    /\ setup.copies /\ ~r.copy /\ q.copy
    /\ DOMAIN q = DOMAIN r /\ q.send = r.send /\ q.n = r.n /\ q.stage = r.stage /\ q.msg = r.msg
    /\ net' = net \cup {q}
    /\ UNCHANGED <<setup, now, world, snd, box>>

Ticked ==
    /\ \A s \in Sends : snd[s].pc # "done" => now < snd[s].wake
    /\ \A s \in Sends : snd[s].pc \in {"done", "waiting", "sleeping"}
    /\ now' = now + 1
    /\ UNCHANGED <<setup, world, snd, net, box>>

Turned ==
    /\ DOMAIN snd' = Sends /\ DOMAIN world' = DOMAIN world
    /\ \A s \in Sends :
           /\ DOMAIN snd'[s] = Fields
           /\ snd'[s].shaken = (snd[s].shaken \/ snd[s].pc = "waiting")
           /\ snd'[s].pc = snd[s].pc /\ snd'[s].code = snd[s].code /\ snd'[s].lost = snd[s].lost
           /\ snd'[s].n = snd[s].n /\ snd'[s].at = snd[s].at /\ snd'[s].out = snd[s].out
           /\ snd'[s].start = snd[s].start /\ snd'[s].wake = snd[s].wake
           /\ snd'[s].delay = snd[s].delay
    /\ UNCHANGED <<setup, now, net, box>>

\* A change of the world shakes the attempts under way.
LEMMA ChangeTurns ==
    ASSUME Typed, NEW kind, NEW w, DOMAIN w = DOMAIN world, Change(kind, w)
    PROVE  Turned
<1>1. /\ snd' = [s \in Sends |-> [snd[s] EXCEPT !.shaken = snd[s].shaken \/ snd[s].pc = "waiting"]]
      /\ DOMAIN world' = DOMAIN world
      /\ UNCHANGED <<setup, now, net, box>>
  BY DEF Change, Shake, Typed, Shape
<1>2. ASSUME NEW s \in Sends
      PROVE  /\ DOMAIN snd'[s] = Fields
             /\ snd'[s].shaken = (snd[s].shaken \/ snd[s].pc = "waiting")
             /\ snd'[s].pc = snd[s].pc /\ snd'[s].code = snd[s].code /\ snd'[s].lost = snd[s].lost
             /\ snd'[s].n = snd[s].n /\ snd'[s].at = snd[s].at /\ snd'[s].out = snd[s].out
             /\ snd'[s].start = snd[s].start /\ snd'[s].wake = snd[s].wake
             /\ snd'[s].delay = snd[s].delay
  <2> DEFINE b == snd[s].shaken \/ snd[s].pc = "waiting"
  <2>1. snd'[s] = [snd[s] EXCEPT !.shaken = b]
    BY <1>1
  <2>2. DOMAIN snd[s] = Fields
    BY DEF Typed, Shape
  <2> HIDE DEF b
  <2>3. /\ DOMAIN snd'[s] = Fields /\ snd'[s].shaken = b
        /\ snd'[s].pc = snd[s].pc /\ snd'[s].code = snd[s].code /\ snd'[s].lost = snd[s].lost
        /\ snd'[s].n = snd[s].n /\ snd'[s].at = snd[s].at /\ snd'[s].out = snd[s].out
        /\ snd'[s].start = snd[s].start /\ snd'[s].wake = snd[s].wake
        /\ snd'[s].delay = snd[s].delay
    BY <2>1, <2>2 DEF Fields
  <2> QED BY <2>3 DEF b
<1>3. DOMAIN snd' = Sends
  BY <1>1
<1> QED BY <1>1, <1>2, <1>3 DEF Turned

\* So does each operator.
LEMMA OperatorTurns ==
    ASSUME Typed, Operator
    PROVE  Turned
<1>1. CASE PublishKey
  BY <1>1, ChangeTurns DEF PublishKey, Typed, Shape
<1>2. CASE ResignCards
  BY <1>2, ChangeTurns DEF ResignCards, Typed, Shape
<1>3. CASE RetireKey
  BY <1>3, ChangeTurns DEF RetireKey, Typed, Shape
<1>4. CASE RotateShadowKey
  BY <1>4, ChangeTurns DEF RotateShadowKey, Typed, Shape
<1>5. CASE RenewCert
  BY <1>5, ChangeTurns DEF RenewCert, Typed, Shape
<1> QED BY <1>1, <1>2, <1>3, <1>4, <1>5 DEF Operator

\* The receiver's steps.
LEMMA ReceiverSteps ==
    ASSUME Typed, NEW r \in net
    PROVE  /\ Duplicate(r) => \E q : Copied(r, q)
           /\ Resolve(r) => (\E q : Resolved(r, q)) \/ \E c, b : Answered(r, c, b)
           /\ Decide(r) => \E c : Answered(r, c, FALSE)
<1>0. DOMAIN r = {"send", "n", "rec", "stage", "copy", "msg"} /\ r.send \in Sends /\ Shape
  BY DEF Typed, Shape, RequestTyped
<1>1. ASSUME Duplicate(r) PROVE \E q : Copied(r, q)
  <2> DEFINE q == [r EXCEPT !.copy = TRUE]
  <2>1. /\ DOMAIN q = DOMAIN r /\ q.send = r.send /\ q.n = r.n /\ q.stage = r.stage
        /\ q.msg = r.msg /\ q.copy
    BY <1>0
  <2>2. /\ setup.copies /\ ~r.copy /\ net' = net \cup {q}
        /\ UNCHANGED <<setup, now, world, snd, box>>
    BY <1>1 DEF Duplicate
  <2> HIDE DEF q
  <2>3. Copied(r, q)
    BY <2>1, <2>2 DEF Copied
  <2> QED BY <2>3
<1>2. ASSUME Resolve(r) PROVE (\E q : Resolved(r, q)) \/ \E c, b : Answered(r, c, b)
  <2> DEFINE m == r.msg
             keyed == is_public_key_identifier(m.from.id)
             txts == world.dns[m.from.id.domain]
             rec == IF keyed THEN None ELSE Record(txts)
             q == [r EXCEPT !.stage = "resolved", !.rec = rec]
  <2>1. r.stage = "sent" /\ UNCHANGED <<setup, now, world, box>>
    BY <1>2 DEF Resolve
  <2>2. CASE PreParse(m) # "ok"
    <3>1. Answer(r, PreParse(m), FALSE) /\ net' = net \ {r}
      BY <1>2, <2>2 DEF Resolve
    <3>2. PreParse(m) \in {"parse_error", "unknown_recipient"}
      BY <2>2 DEF PreParse
    <3>3. AnswerTo(r, PreParse(m), FALSE)
      BY <3>1, <1>0, AnswerAnswers DEF AnswerTo
    <3>4. Answered(r, PreParse(m), FALSE)
      BY <2>1, <3>1, <3>2, <3>3 DEF Answered, Refused, SignatureCause
    <3> QED BY <3>4
  <2>3. CASE PreParse(m) = "ok" /\ Answer(r, "signature", TRUE) /\ net' = net \ {r}
    <3>1. AnswerTo(r, "signature", TRUE)
      BY <2>3, <1>0, AnswerAnswers DEF AnswerTo
    <3>2. Answered(r, "signature", TRUE)
      BY <2>1, <2>3, <3>1 DEF Answered, Refused, SignatureCause
    <3> QED BY <3>2
  <2>4. CASE PreParse(m) = "ok" /\ net' = (net \ {r}) \cup {q} /\ UNCHANGED snd
    <3>1. keyed \/ rec = Record(txts)
      OBVIOUS
    <3> HIDE DEF rec
    <3>2. /\ DOMAIN q = DOMAIN r /\ q.send = r.send /\ q.n = r.n /\ q.copy = r.copy
          /\ q.msg = r.msg /\ q.stage = "resolved" /\ q.rec = rec
      BY <1>0
    <3> HIDE DEF q
    <3>3. Resolved(r, q)
      BY <2>1, <2>4, <3>1, <3>2 DEF Resolved
    <3> QED BY <3>3
  <2> HIDE DEF q
  <2>5. \/ PreParse(m) # "ok"
        \/ /\ PreParse(m) = "ok"
           /\ \/ net' = (net \ {r}) \cup {q} /\ UNCHANGED snd
              \/ Answer(r, "signature", TRUE) /\ net' = net \ {r}
    BY <1>2 DEF Resolve, q
  <2> QED BY <2>2, <2>3, <2>4, <2>5
<1>3. ASSUME Decide(r) PROVE \E c : Answered(r, c, FALSE)
  <2> DEFINE c == Decision(r, box).code
  <2>1. /\ r.stage = "resolved" /\ box' = Decision(r, box).box /\ Answer(r, c, FALSE)
        /\ net' = net \ {r} /\ UNCHANGED <<setup, now, world>>
    BY <1>3 DEF Decide
  <2> HIDE DEF c
  <2>2. /\ Dismissed(c) \/ Replayed(r, c) \/ Admitted(r, c)
        /\ SignatureCause(r, c, FALSE)
    BY <2>1, <1>0, DecisionDecides DEF c, SignatureCause
  <2>3. AnswerTo(r, c, FALSE)
    BY <2>1, <1>0, AnswerAnswers DEF AnswerTo
  <2>4. Answered(r, c, FALSE)
    BY <2>1, <2>2, <2>3 DEF Answered, Refused, Dismissed
  <2> QED BY <2>4
<1> QED BY <1>1, <1>2, <1>3

\* All of Next.
LEMMA Steps ==
    ASSUME Typed, Next
    PROVE  \/ \E s \in Sends : Quiet(s) /\ Timed(s)
           \/ \E s \in Sends : \E m : Posted(s, m)
           \/ \E s \in Sends : ReadOut(s)
           \/ \E r \in net : \E q : Copied(r, q)
           \/ \E r \in net : \E q : Resolved(r, q)
           \/ \E r \in net : \E c, b : Answered(r, c, b)
           \/ Ticked
           \/ Operator /\ Turned
<1>1. ASSUME NEW s \in Sends, SendStep(s)
      PROVE  \/ Quiet(s) /\ Timed(s)
             \/ \E m : Posted(s, m)
             \/ ReadOut(s)
  <2>1. CASE Start(s) \/ LookupProvider(s) \/ FetchCard(s) \/ FetchDirectCard(s)
    BY <2>1, ResolvingIsQuiet
  <2>2. CASE TransportFails(s) \/ Wake(s) \/ (Post(s) /\ ~Mintable(Call(s).life))
    BY <2>2, RetryingIsQuiet
  <2>3. CASE Post(s) /\ Mintable(Call(s).life)
    BY <2>3, PostPosts
  <2>4. CASE ReadAnswer(s) \/ ReadPinnedAnswer(s)
    BY <2>4, ReadReads
  <2> QED BY <1>1, <2>1, <2>2, <2>3, <2>4 DEF SendStep
<1>2. CASE \E s \in Sends : SendStep(s)
  BY <1>1, <1>2
<1>3. CASE \E r \in net : Duplicate(r) \/ Resolve(r) \/ Decide(r)
  <2>1. PICK r \in net : Duplicate(r) \/ Resolve(r) \/ Decide(r)
    BY <1>3
  <2>2. (\E q : Copied(r, q)) \/ (\E q : Resolved(r, q)) \/ (\E c, b : Answered(r, c, b))
    BY <2>1, ReceiverSteps
  <2> QED BY <2>2
<1>4. CASE Tick
  <2>1. Ticked
    BY <1>4 DEF Tick, Ticked
  <2> QED BY <2>1
<1>5. CASE Operator
  BY <1>5, OperatorTurns
<1> QED BY <1>2, <1>3, <1>4, <1>5 DEF Next
-----------------------------------------------------------------------------
(* Types.                                                                  *)

\* Init and every step give each call its type.
LEMMA TypedInit ==
    ASSUME Init
    PROVE  Typed
<1>1. /\ snd = [s \in Sends |-> IF s \in DOMAIN setup.calls THEN Idle
                                ELSE [Idle EXCEPT !.pc = "done"]]
      /\ setup \in Setups /\ now = 0 /\ net = {} /\ world = setup.world
      /\ DOMAIN box = {"replay", "cached", "contacts", "decided"}
  BY DEF Init
<1>2. ASSUME NEW s \in Sends
      PROVE  DOMAIN snd[s] = Fields /\ SendTyped(s)
  <2>1. CASE s \in DOMAIN setup.calls
    <3>1. snd[s] = Idle
      BY <1>1, <2>1
    <3> QED BY SMTT(30), <3>1, <2>1, DeliveryAssumption DEF Idle, Fields, SendTyped, Pcs
  <2>2. CASE s \notin DOMAIN setup.calls
    <3>1. snd[s] = [Idle EXCEPT !.pc = "done"]
      BY <1>1, <2>2
    <3> QED BY SMTT(30), <3>1, <2>2, DeliveryAssumption DEF Idle, Fields, SendTyped, Pcs
  <2> QED BY <2>1, <2>2
<1>3. DOMAIN world = {"dns", "cards", "signing", "certs", "left"}
  BY <1>1, SetupsAssumption
<1>4. DOMAIN snd = Sends
  BY <1>1
<1> QED BY <1>1, <1>2, <1>3, <1>4 DEF Typed, Shape

\* What the kinds of steps leave of the types of the calls.
LEMMA SendsTypedStep ==
    ASSUME Typed, Next
    PROVE  /\ setup' = setup /\ now' \in Nat /\ DOMAIN snd' = Sends
           /\ DOMAIN box' = DOMAIN box /\ DOMAIN world' = DOMAIN world
           /\ \A t \in Sends : /\ DOMAIN snd'[t] = Fields /\ SendTyped(t)'
                               /\ snd'[t].n >= snd[t].n
<1> USE DEF Typed, Shape
<1>0. \A t \in Sends : SendTyped(t) /\ DOMAIN snd[t] = Fields /\ snd[t].n \in Nat
  BY DEF SendTyped
<1>1. ASSUME NEW s \in Sends, Quiet(s), Timed(s)
      PROVE  \A t \in Sends : DOMAIN snd'[t] = Fields /\ SendTyped(t)' /\ snd'[t].n >= snd[t].n
  <2> SUFFICES ASSUME NEW t \in Sends
               PROVE  DOMAIN snd'[t] = Fields /\ SendTyped(t)' /\ snd'[t].n >= snd[t].n
    OBVIOUS
  <2>1. CASE t = s
    BY SMTT(30), <1>0, <1>1, <2>1, CallTyped, NoneIsNoOutcome DEF Quiet, Timed, SendTyped, Pcs, Outcomes
  <2>2. CASE t # s
    BY SMTT(30), <1>0, <1>1, <2>2 DEF Quiet, Others, SendTyped
  <2> QED BY <2>1, <2>2
<1>2. ASSUME NEW s \in Sends, NEW m, Posted(s, m)
      PROVE  \A t \in Sends : DOMAIN snd'[t] = Fields /\ SendTyped(t)' /\ snd'[t].n >= snd[t].n
  <2> SUFFICES ASSUME NEW t \in Sends
               PROVE  DOMAIN snd'[t] = Fields /\ SendTyped(t)' /\ snd'[t].n >= snd[t].n
    OBVIOUS
  <2>1. CASE t = s
    <3>1. s \in DOMAIN setup.calls /\ snd[s].out = None
      BY <1>0, <1>2, CallTyped DEF Posted, SendTyped
    <3>2. /\ snd'[s].n \in Nat /\ snd'[s].n >= snd[s].n
          /\ snd'[s].wake \in Nat /\ snd'[s].at \in Nat
      <4>1. snd[s].n \in Nat /\ now \in Nat /\ Timeout \in Nat
        BY <1>0, DeliveryAssumption
      <4>2. snd'[s].n = snd[s].n + 1 /\ snd'[s].wake = now + Timeout /\ snd'[s].at = now
        BY <1>2 DEF Posted
      <4> QED BY SMTT(30), <4>1, <4>2
    <3>3. snd'[s].shaken \in BOOLEAN /\ snd'[s].pc \in Pcs /\ setup' = setup
      BY <1>2 DEF Posted, Pcs
    <3>4. /\ DOMAIN snd'[s] = Fields /\ snd'[s].out = None /\ snd'[s].lost = snd[s].lost
          /\ snd'[s].start = snd[s].start /\ snd'[s].delay = snd[s].delay
      BY <1>2, <3>1 DEF Posted
    <3> QED BY <1>0, <2>1, <3>1, <3>2, <3>3, <3>4 DEF SendTyped
  <2>2. CASE t # s
    BY SMTT(30), <1>0, <1>2, <2>2 DEF Posted, Others, SendTyped
  <2> QED BY <2>1, <2>2
<1>3. ASSUME NEW s \in Sends, ReadOut(s)
      PROVE  \A t \in Sends : DOMAIN snd'[t] = Fields /\ SendTyped(t)' /\ snd'[t].n >= snd[t].n
  <2> SUFFICES ASSUME NEW t \in Sends
               PROVE  DOMAIN snd'[t] = Fields /\ SendTyped(t)' /\ snd'[t].n >= snd[t].n
    OBVIOUS
  <2>0. Outcome(s) \in Outcomes
    BY DEF Outcome, Interpreted, Outcomes, WireErrors
  <2>1. CASE t = s
    BY SMTT(30), <1>0, <1>3, <2>0, <2>1, CallTyped, NoneIsNoOutcome DEF ReadOut, SendTyped, Pcs, Outcomes
  <2>2. CASE t # s
    BY SMTT(30), <1>0, <1>3, <2>2 DEF ReadOut, Others, SendTyped
  <2> QED BY <2>1, <2>2
<1>4. ASSUME NEW r \in net, NEW c, NEW b, Answered(r, c, b)
      PROVE  \A t \in Sends : DOMAIN snd'[t] = Fields /\ SendTyped(t)' /\ snd'[t].n >= snd[t].n
  <2> SUFFICES ASSUME NEW t \in Sends
               PROVE  DOMAIN snd'[t] = Fields /\ SendTyped(t)' /\ snd'[t].n >= snd[t].n
    OBVIOUS
  <2>0. r.send \in Sends /\ setup' = setup /\ b \in BOOLEAN
    BY <1>4 DEF RequestTyped, Answered
  <2>1. CASE UNCHANGED snd
    BY SMTT(30), <1>0, <2>0, <2>1 DEF SendTyped
  <2>2. CASE Hears(r.send, r.n, c, b)
    <3>1. CASE t = r.send
      BY SMTT(30), <1>0, <2>0, <2>2, <3>1, NoneIsNoOutcome DEF Hears, SendTyped, Pcs
    <3>2. CASE t # r.send
      BY SMTT(30), <1>0, <2>0, <2>2, <3>2 DEF Hears, Others, SendTyped
    <3> QED BY <3>1, <3>2
  <2>3. CASE Loses(r.send, r.n)
    <3>1. CASE t = r.send
      BY SMTT(30), <1>0, <2>0, <2>3, <3>1 DEF Loses, SendTyped, Pcs
    <3>2. CASE t # r.send
      BY SMTT(30), <1>0, <2>0, <2>3, <3>2 DEF Loses, Others, SendTyped
    <3> QED BY <3>1, <3>2
  <2> QED BY <1>4, <2>1, <2>2, <2>3 DEF Answered, AnswerTo
<1>5. ASSUME Turned
      PROVE  \A t \in Sends : DOMAIN snd'[t] = Fields /\ SendTyped(t)' /\ snd'[t].n >= snd[t].n
  <2> SUFFICES ASSUME NEW t \in Sends
               PROVE  DOMAIN snd'[t] = Fields /\ SendTyped(t)' /\ snd'[t].n >= snd[t].n
    OBVIOUS
  <2>1. snd'[t].shaken \in BOOLEAN
    BY <1>0, <1>5 DEF Turned, SendTyped
  <2>2. /\ DOMAIN snd'[t] = Fields /\ setup' = setup
        /\ snd'[t].pc = snd[t].pc /\ snd'[t].lost = snd[t].lost
        /\ snd'[t].n = snd[t].n /\ snd'[t].at = snd[t].at /\ snd'[t].out = snd[t].out
        /\ snd'[t].start = snd[t].start /\ snd'[t].wake = snd[t].wake
        /\ snd'[t].delay = snd[t].delay
    BY <1>5 DEF Turned
  <2>3. SendTyped(t) /\ snd[t].n \in Nat
    BY <1>0
  <2> QED BY SMTT(30), <2>1, <2>2, <2>3 DEF SendTyped
<1>6. ASSUME UNCHANGED <<snd, setup>>
      PROVE  \A t \in Sends : DOMAIN snd'[t] = Fields /\ SendTyped(t)' /\ snd'[t].n >= snd[t].n
  BY SMTT(30), <1>0, <1>6 DEF SendTyped
<1>7. \A t \in Sends : DOMAIN snd'[t] = Fields /\ SendTyped(t)' /\ snd'[t].n >= snd[t].n
  BY Steps, <1>1, <1>2, <1>3, <1>4, <1>5, <1>6 DEF Copied, Resolved, Ticked
<1>8. /\ setup' = setup /\ now' \in Nat /\ DOMAIN snd' = Sends
      /\ DOMAIN box' = DOMAIN box /\ DOMAIN world' = DOMAIN world
  <2>1. ASSUME NEW r \in net, NEW c, NEW b, Answered(r, c, b)
        PROVE  /\ setup' = setup /\ now' \in Nat /\ DOMAIN snd' = Sends
               /\ DOMAIN box' = DOMAIN box /\ DOMAIN world' = DOMAIN world
    <3>1. setup' = setup /\ now' = now /\ world' = world /\ AnswerTo(r, c, b)
      BY <2>1 DEF Answered
    <3>2. DOMAIN box' = DOMAIN box
      BY <2>1 DEF Answered, Refused, Replayed, Admitted
    <3>3. DOMAIN snd' = Sends
      BY <3>1 DEF AnswerTo, Hears, Loses
    <3> QED BY <3>1, <3>2, <3>3
  <2>2. ASSUME NEW s \in Sends, Quiet(s) \/ ReadOut(s) \/ \E m : Posted(s, m)
        PROVE  /\ setup' = setup /\ now' \in Nat /\ DOMAIN snd' = Sends
               /\ DOMAIN box' = DOMAIN box /\ DOMAIN world' = DOMAIN world
    BY <2>2 DEF Quiet, Posted, ReadOut
  <2>3. ASSUME NEW r \in net, NEW q, Copied(r, q) \/ Resolved(r, q)
        PROVE  /\ setup' = setup /\ now' \in Nat /\ DOMAIN snd' = Sends
               /\ DOMAIN box' = DOMAIN box /\ DOMAIN world' = DOMAIN world
    BY <2>3 DEF Copied, Resolved
  <2>4. ASSUME Ticked \/ Turned
        PROVE  /\ setup' = setup /\ now' \in Nat /\ DOMAIN snd' = Sends
               /\ DOMAIN box' = DOMAIN box /\ DOMAIN world' = DOMAIN world
    BY SMTT(30), <2>4 DEF Ticked, Turned
  <2> QED BY Steps, <2>1, <2>2, <2>3, <2>4
<1> QED BY <1>7, <1>8

\* And of the requests.
LEMMA TypedStep ==
    ASSUME Typed, [Next]_vars
    PROVE  Typed'
<1>1. CASE UNCHANGED vars
  BY <1>1 DEF vars, Typed, Shape, SendTyped, RequestTyped
<1>2. CASE Next
  <2>0. /\ setup' = setup /\ now' \in Nat /\ DOMAIN snd' = Sends
        /\ DOMAIN box' = DOMAIN box /\ DOMAIN world' = DOMAIN world
        /\ \A t \in Sends : /\ DOMAIN snd'[t] = Fields /\ SendTyped(t)'
                            /\ snd'[t].n >= snd[t].n
    BY <1>2, SendsTypedStep
  <2>1. \A t \in Sends : snd[t].n \in Nat /\ snd'[t].n \in Nat
    BY <2>0 DEF Typed, SendTyped
  <2> DEFINE F == {"send", "n", "rec", "stage", "copy", "msg"}
  <2>2. ASSUME NEW r \in net
        PROVE  DOMAIN r = F /\ RequestTyped(r)'
    <3>1. DOMAIN r = F /\ RequestTyped(r)
      BY DEF Typed, Shape
    <3>2. snd'[r.send].n >= snd[r.send].n /\ snd[r.send].n \in Nat /\ snd'[r.send].n \in Nat
      BY <2>0, <2>1, <3>1 DEF RequestTyped
    <3> QED BY SMTT(30), <2>0, <3>1, <3>2 DEF RequestTyped
  <2>3. ASSUME NEW q \in net' PROVE DOMAIN q = F /\ RequestTyped(q)'
    <3>1. CASE q \in net
      BY <3>1, <2>2
    <3>2. ASSUME NEW s \in Sends, NEW m, Posted(s, m) PROVE DOMAIN q = F /\ RequestTyped(q)'
      <4>1. CASE q = [send |-> s, n |-> snd[s].n + 1, rec |-> None, stage |-> "sent",
                      copy |-> FALSE, msg |-> m]
        <5>1. /\ DOMAIN q = F /\ q.send = s /\ q.n = snd[s].n + 1 /\ q.stage = "sent"
              /\ q.copy = FALSE
          BY <4>1
        <5>2. s \in DOMAIN setup.calls /\ snd'[s].n = snd[s].n + 1
          BY <3>2, CallTyped DEF Posted
        <5>3. q.n \in Nat /\ 1 <= q.n /\ q.n <= snd'[q.send].n
          BY SMTT(30), <5>1, <5>2, <2>1
        <5> QED BY <5>1, <5>2, <5>3, <2>0 DEF RequestTyped
      <4> QED BY <3>1, <3>2, <4>1 DEF Posted
    <3>3. ASSUME NEW r \in net, NEW p, Copied(r, p) \/ Resolved(r, p)
          PROVE  DOMAIN q = F /\ RequestTyped(q)'
      <4>1. CASE q = p
        <5>1. /\ DOMAIN q = DOMAIN r /\ q.send = r.send /\ q.n = r.n
              /\ q.stage \in {r.stage, "resolved"} /\ q.copy \in {r.copy, TRUE}
          <6>1. CASE Copied(r, p)
            BY <4>1, <6>1, <2>2 DEF Copied, RequestTyped
          <6>2. CASE Resolved(r, p)
            BY <4>1, <6>2 DEF Resolved
          <6> QED BY <3>3, <6>1, <6>2
        <5> QED BY <5>1, <2>2 DEF RequestTyped
      <4> QED BY <3>1, <3>3, <4>1 DEF Copied, Resolved
    <3>4. CASE net' \subseteq net
      BY <3>1, <3>4
    <3> QED BY <1>2, Steps, <3>2, <3>3, <3>4 DEF Quiet, ReadOut, Answered, Ticked, Turned
  <2> QED BY <2>0, <2>3 DEF Typed, Shape
<1> QED BY <1>1, <1>2
-----------------------------------------------------------------------------
(* Time: a call never sleeps past its budget, nor its clock past its alarm. *)

InBudget(s) ==
    /\ snd[s].pc \in {"waiting", "sleeping"} => now <= snd[s].wake
    /\ snd[s].pc = "sleeping" => snd[s].wake - snd[s].start <= Call(s).budget
    /\ snd[s].pc = "build" => now - snd[s].start <= Call(s).budget
    /\ snd[s].pc \in {"idle", "lookup", "card"} => snd[s].at = 0
    /\ snd[s].at - snd[s].start <= Call(s).budget
Clocked == \A s \in DOMAIN setup.calls : InBudget(s)

\* It is so at first.
LEMMA ClockedInit ==
    ASSUME Init
    PROVE  Clocked
<1> SUFFICES ASSUME NEW s \in DOMAIN setup.calls PROVE InBudget(s)
  BY DEF Clocked
<1>1. setup \in Setups /\ s \in Sends /\ Call(s).budget \in Nat
  BY SetupsAssumption DEF Init, Call
<1>2. snd[s] = Idle
  BY <1>1 DEF Init
<1> QED BY SMTT(30), <1>1, <1>2 DEF Idle, InBudget

\* Every step keeps it so.
LEMMA ClockedStep ==
    ASSUME Typed, Clocked, [Next]_vars
    PROVE  Clocked'
<1>1. CASE UNCHANGED vars
  BY <1>1 DEF vars, Clocked, InBudget, Call
<1>2. CASE Next
  <2>0. setup' = setup
    BY <1>2, SendsTypedStep
  <2> SUFFICES ASSUME NEW t \in DOMAIN setup.calls PROVE InBudget(t)'
    BY <2>0 DEF Clocked
  <2>1. /\ t \in Sends /\ Call(t).budget \in Nat /\ now \in Nat /\ Call(t)' = Call(t)
        /\ snd[t].start \in Nat /\ snd[t].wake \in Nat /\ snd[t].at \in Nat
        /\ snd[t].pc \in Pcs /\ InBudget(t)
    BY <2>0, SetupsAssumption DEF Typed, SendTyped, Call, Clocked
  <2>2. ASSUME /\ snd'[t].pc = snd[t].pc /\ snd'[t].wake = snd[t].wake
               /\ snd'[t].start = snd[t].start /\ snd'[t].at = snd[t].at /\ now' = now
        PROVE  InBudget(t)'
    BY <2>1, <2>2 DEF InBudget
  <2>3. ASSUME NEW s \in Sends, Quiet(s), Timed(s) PROVE InBudget(t)'
    <3>1. CASE t = s
      <4>1. /\ now' = now /\ snd'[t].at = snd[t].at /\ snd'[t].start \in Nat
            /\ snd'[t].wake \in Nat
        BY <2>3, <3>1 DEF Quiet, Timed
      <4>2. \/ /\ snd'[t].pc \in {"lookup", "card"} /\ snd[t].pc \in {"idle", "lookup"}
               /\ snd'[t].start = snd[t].start
            \/ snd'[t].pc = "done" /\ snd'[t].start = snd[t].start
            \/ snd'[t].pc = "build" /\ snd[t].pc = "card" /\ snd'[t].start = now
            \/ /\ snd'[t].pc = "build" /\ snd[t].pc = "sleeping" /\ now >= snd[t].wake
               /\ snd'[t].start = snd[t].start
            \/ /\ snd'[t].pc = "sleeping" /\ snd'[t].start = snd[t].start
               /\ now <= snd'[t].wake /\ snd'[t].wake - snd[t].start <= Call(t).budget
        BY <2>3, <3>1 DEF Timed
      <4> QED BY SMTT(30), <2>1, <4>1, <4>2 DEF InBudget
    <3>2. CASE t # s
      BY <2>1, <2>2, <2>3, <3>2 DEF Quiet, Others
    <3> QED BY <3>1, <3>2
  <2>4. ASSUME NEW s \in Sends, NEW m, Posted(s, m) PROVE InBudget(t)'
    <3>1. CASE t = s
      BY SMTT(30), <2>1, <2>4, <3>1, DeliveryAssumption DEF Posted, InBudget
    <3>2. CASE t # s
      BY <2>1, <2>2, <2>4, <3>2 DEF Posted, Others
    <3> QED BY <3>1, <3>2
  <2>5. ASSUME NEW s \in Sends, ReadOut(s) PROVE InBudget(t)'
    <3>1. CASE t = s
      BY <2>1, <2>5, <3>1 DEF ReadOut, InBudget
    <3>2. CASE t # s
      BY <2>1, <2>2, <2>5, <3>2 DEF ReadOut, Others
    <3> QED BY <3>1, <3>2
  <2>6. ASSUME NEW r \in net, NEW c, NEW b, Answered(r, c, b) PROVE InBudget(t)'
    <3>0. now' = now /\ r.send \in Sends /\ AnswerTo(r, c, b)
      BY <2>6 DEF Answered, Typed, RequestTyped
    <3>1. CASE UNCHANGED snd
      BY <2>2, <3>0, <3>1
    <3>2. CASE t = r.send /\ Hears(r.send, r.n, c, b)
      BY <2>1, <3>0, <3>2 DEF Hears, InBudget
    <3>3. CASE t = r.send /\ Loses(r.send, r.n)
      BY <2>2, <3>0, <3>3 DEF Loses
    <3>4. CASE t # r.send /\ (Hears(r.send, r.n, c, b) \/ Loses(r.send, r.n))
      BY <2>1, <2>2, <3>0, <3>4 DEF Hears, Loses, Others
    <3> QED BY <3>0, <3>1, <3>2, <3>3, <3>4 DEF AnswerTo
  <2>7. ASSUME Ticked PROVE InBudget(t)'
    <3>1. now' = now + 1 /\ snd' = snd /\ snd[t].pc \in {"done", "waiting", "sleeping"}
          /\ (snd[t].pc # "done" => now < snd[t].wake)
      BY <2>1, <2>7 DEF Ticked
    <3> QED BY SMTT(30), <2>1, <3>1 DEF InBudget
  <2>8. ASSUME Turned PROVE InBudget(t)'
    BY <2>1, <2>2, <2>8 DEF Turned
  <2>9. ASSUME UNCHANGED <<snd, now>> PROVE InBudget(t)'
    BY <2>2, <2>9
  <2> QED BY <1>2, Steps, <2>3, <2>4, <2>5, <2>6, <2>7, <2>8, <2>9 DEF Copied, Resolved
<1> QED BY <1>1, <1>2
-----------------------------------------------------------------------------
(* Lost answers are answers to attempts.                                   *)

LostSent == \A s \in Sends : snd[s].lost \subseteq 1 .. snd[s].n

\* Every step keeps that.
LEMMA LostSentStep ==
    ASSUME Typed, LostSent, [Next]_vars
    PROVE  LostSent'
<1>1. CASE UNCHANGED vars
  BY <1>1 DEF vars, LostSent
<1>2. CASE Next
  <2> SUFFICES ASSUME NEW t \in Sends PROVE snd'[t].lost \subseteq 1 .. snd'[t].n
    BY DEF LostSent
  <2>0. snd[t].lost \subseteq 1 .. snd[t].n /\ snd[t].n \in Nat
    BY DEF LostSent, Typed, SendTyped
  <2>1. ASSUME NEW s \in Sends, Quiet(s) \/ ReadOut(s)
        PROVE  snd'[t].lost = snd[t].lost /\ snd'[t].n = snd[t].n
    BY <2>1 DEF Quiet, ReadOut, Others
  <2>2. ASSUME NEW s \in Sends, NEW m, Posted(s, m)
        PROVE  snd'[t].lost = snd[t].lost /\ snd'[t].n \in {snd[t].n, snd[t].n + 1}
    BY <2>2 DEF Posted, Others
  <2>3. ASSUME NEW r \in net, NEW c, NEW b, Answered(r, c, b)
        PROVE  snd'[t].n = snd[t].n /\ snd'[t].lost \subseteq snd[t].lost \cup 1 .. snd[t].n
    <3>0. AnswerTo(r, c, b) /\ r.send \in Sends /\ r.n \in 1 .. snd[r.send].n
      BY SMTT(30), <2>3 DEF Answered, Typed, RequestTyped, SendTyped
    <3>1. CASE snd' = snd
      BY <3>1
    <3>2. CASE Hears(r.send, r.n, c, b)
      BY <3>0, <3>2 DEF Hears, Others
    <3>3. CASE Loses(r.send, r.n)
      BY <3>0, <3>3 DEF Loses, Others
    <3> QED BY <3>0, <3>1, <3>2, <3>3 DEF AnswerTo
  <2>4. ASSUME NEW r \in net, NEW q, Copied(r, q) \/ Resolved(r, q) PROVE snd' = snd
    BY <2>4 DEF Copied, Resolved
  <2>5. ASSUME Ticked \/ Turned PROVE snd'[t].lost = snd[t].lost /\ snd'[t].n = snd[t].n
    BY <2>5 DEF Ticked, Turned
  <2>6. /\ snd'[t].lost \subseteq snd[t].lost \cup 1 .. snd[t].n
        /\ snd'[t].n \in {snd[t].n, snd[t].n + 1}
    BY <1>2, Steps, <2>1, <2>2, <2>3, <2>4, <2>5
  <2> QED BY SMTT(30), <2>0, <2>6
<1> QED BY <1>1, <1>2
-----------------------------------------------------------------------------
(* Messages: a request and its copies carry the one message of their       *)
(* attempt, and only one of them is the request itself.                    *)

SameAttempt(r, q) == r.send = q.send /\ r.n = q.n
Agree(r, q) == SameAttempt(r, q) => r.msg = q.msg /\ (~r.copy /\ ~q.copy => r = q)
Messages ==
    /\ \A r \in net : MessageOf(r.send, r.n, r.msg) /\ (r.copy => setup.copies)
    /\ \A r, q \in net : Agree(r, q)

\* The request of an attempt.
LEMMA PostedRequest ==
    ASSUME NEW s \in Sends, NEW m, Posted(s, m)
    PROVE  \E q : /\ net' = net \cup {q} /\ q.send = s /\ q.n = snd[s].n + 1
                  /\ q.copy = FALSE /\ q.msg = m /\ q.stage = "sent"
<1> DEFINE q == [send |-> s, n |-> snd[s].n + 1, rec |-> None, stage |-> "sent",
                 copy |-> FALSE, msg |-> m]
<1>1. /\ q.send = s /\ q.n = snd[s].n + 1 /\ q.copy = FALSE /\ q.msg = m /\ q.stage = "sent"
  OBVIOUS
<1>2. net' = net \cup {q}
  BY DEF Posted
<1> HIDE DEF q
<1> QED BY <1>1, <1>2

\* Every step keeps that.
LEMMA MessagesStep ==
    ASSUME Typed, Messages, [Next]_vars
    PROVE  Messages'
<1>1. CASE UNCHANGED vars
  BY <1>1 DEF vars, Messages, Agree, SameAttempt, MessageOf, Call
<1>2. CASE Next
  <2>0. setup' = setup /\ \A r \in net : r.n \in Nat /\ r.n <= snd[r.send].n /\ r.send \in Sends
    BY <1>2, SendsTypedStep DEF Typed, RequestTyped
  <2>1. \A s, n, m : MessageOf(s, n, m)' <=> MessageOf(s, n, m)
    BY <2>0 DEF MessageOf, Call
  <2>2. /\ \A r \in net : MessageOf(r.send, r.n, r.msg) /\ (r.copy => setup.copies)
        /\ \A r, q \in net : Agree(r, q)
    BY DEF Messages
  <2>3. SUFFICES /\ \A r \in net' : MessageOf(r.send, r.n, r.msg) /\ (r.copy => setup.copies)
                 /\ \A r, q \in net' : Agree(r, q)
    <3>1. \A r, q : Agree(r, q)' <=> Agree(r, q)
      BY DEF Agree, SameAttempt
    <3> QED BY <2>0, <2>1, <2>3, <3>1 DEF Messages
  <2>4. ASSUME net' \subseteq net
        PROVE  /\ \A r \in net' : MessageOf(r.send, r.n, r.msg) /\ (r.copy => setup.copies)
               /\ \A r, q \in net' : Agree(r, q)
    BY <2>2, <2>4
  <2>5. ASSUME NEW p, \A q \in net' : q \in net \/ q = p,
               MessageOf(p.send, p.n, p.msg), p.copy => setup.copies,
               \A r \in net' : r # p /\ SameAttempt(r, p) => r.msg = p.msg /\ (r.copy \/ p.copy)
        PROVE  /\ \A r \in net' : MessageOf(r.send, r.n, r.msg) /\ (r.copy => setup.copies)
               /\ \A r, q \in net' : Agree(r, q)
    <3>1. ASSUME NEW r \in net' PROVE MessageOf(r.send, r.n, r.msg) /\ (r.copy => setup.copies)
      BY <2>2, <2>5
    <3>2. ASSUME NEW r \in net', NEW q \in net' PROVE Agree(r, q)
      <4>1. CASE r # p /\ q # p
        BY <2>2, <2>5, <4>1
      <4>2. CASE r = p \/ q = p
        BY <2>5, <4>2 DEF Agree, SameAttempt
      <4> QED BY <4>1, <4>2
    <3> QED BY <3>1, <3>2
  <2>6. ASSUME NEW s \in Sends, NEW m, Posted(s, m)
        PROVE  /\ \A r \in net' : MessageOf(r.send, r.n, r.msg) /\ (r.copy => setup.copies)
               /\ \A r, q \in net' : Agree(r, q)
    <3>1. PICK p : /\ net' = net \cup {p} /\ p.send = s /\ p.n = snd[s].n + 1
                   /\ p.copy = FALSE /\ p.msg = m /\ p.stage = "sent"
      BY ZenonT(60), <2>6, PostedRequest
    <3>2. MessageOf(p.send, p.n, p.msg) /\ (p.copy => setup.copies)
      BY <2>6, <3>1 DEF Posted
    <3>3. ASSUME NEW r \in net', r # p PROVE ~SameAttempt(r, p)
      <4>1. r \in net /\ r.n <= snd[r.send].n /\ r.n \in Nat /\ snd[s].n \in Nat
        BY <2>0, <3>1, <3>3 DEF Typed, SendTyped
      <4> QED BY SMTT(30), <3>1, <4>1 DEF SameAttempt
    <3>4. \A q \in net' : q \in net \/ q = p
      BY <3>1
    <3> QED BY <3>2, <3>3, <3>4, <2>5
  <2>7. ASSUME NEW r \in net, NEW p, Copied(r, p)
        PROVE  /\ \A q \in net' : MessageOf(q.send, q.n, q.msg) /\ (q.copy => setup.copies)
               /\ \A v, q \in net' : Agree(v, q)
    <3>1. MessageOf(p.send, p.n, p.msg) /\ (p.copy => setup.copies)
      BY <2>2, <2>7 DEF Copied
    <3>2. ASSUME NEW q \in net', q # p, SameAttempt(q, p) PROVE q.msg = p.msg /\ (q.copy \/ p.copy)
      <4>1. q \in net /\ SameAttempt(q, r) /\ p.msg = r.msg /\ p.copy
        BY <2>7, <3>2 DEF Copied, SameAttempt
      <4> QED BY <2>2, <4>1 DEF Agree
    <3>3. \A q \in net' : q \in net \/ q = p
      BY <2>7 DEF Copied
    <3> QED BY <3>1, <3>2, <3>3, <2>5
  <2>8. ASSUME NEW r \in net, NEW p, Resolved(r, p)
        PROVE  /\ \A q \in net' : MessageOf(q.send, q.n, q.msg) /\ (q.copy => setup.copies)
               /\ \A v, q \in net' : Agree(v, q)
    <3>1. MessageOf(p.send, p.n, p.msg) /\ (p.copy => setup.copies)
      BY <2>2, <2>8 DEF Resolved
    <3>2. ASSUME NEW q \in net', q # p, SameAttempt(q, p) PROVE q.msg = p.msg /\ (q.copy \/ p.copy)
      <4>1. /\ q \in net /\ q # r /\ SameAttempt(q, r) /\ p.msg = r.msg /\ p.copy = r.copy
        BY <2>8, <3>2 DEF Resolved, SameAttempt
      <4>2. Agree(q, r)
        BY <2>2, <4>1
      <4> QED BY <4>1, <4>2 DEF Agree
    <3>3. \A q \in net' : q \in net \/ q = p
      BY <2>8 DEF Resolved
    <3> QED BY <3>1, <3>2, <3>3, <2>5
  <2>9. ASSUME NEW r \in net, NEW c, NEW b, Answered(r, c, b) PROVE net' \subseteq net
    BY <2>9 DEF Answered
  <2>10. ASSUME NEW s \in Sends, Quiet(s) \/ ReadOut(s) PROVE net' \subseteq net
    BY <2>10 DEF Quiet, ReadOut
  <2>11. ASSUME Ticked \/ Turned PROVE net' \subseteq net
    BY <2>11 DEF Ticked, Turned
  <2> QED BY <1>2, Steps, <2>4, <2>6, <2>7, <2>8, <2>9, <2>10, <2>11
<1> QED BY <1>1, <1>2
-----------------------------------------------------------------------------
(* The replay cache: an attempt that got past it has an entry that lives   *)
(* as long as any copy of its message can be valid.                        *)

\* No copy of r can get past the cache any more.
Spent(r) ==
    \/ now > r.msg.exp + Leeway
    \/ \E e \in box.replay : e.id = Key(r) /\ e.until > r.msg.exp + Leeway

Replays ==
    /\ \A e \in box.replay : e.until \in Int
    /\ \A d \in box.decided : d.send \in Sends /\ d.n \in Nat /\ d.n <= snd[d.send].n
    /\ \A d, e \in box.decided : d.send = e.send /\ d.n = e.n => d = e
    /\ \A d \in box.decided : \A r \in net :
           SameAttempt(d, r) => Spent(r) /\ (d.copy \/ r.copy)
    /\ \A e \in box.replay : \E d \in box.decided : \E x : e.id = <<x, <<d.send, d.n>>>>

\* A valid message that is spent is in the cache.
LEMMA SpentIsSeen ==
    ASSUME Typed, Messages, NEW r \in net, Spent(r), Valid(r), \A e \in box.replay : e.until \in Int
    PROVE  \E e \in Live(box) : e.id = Key(r)
<1>1. r.msg.exp \in Int /\ now \in Nat /\ r.msg.exp >= now - Leeway /\ Leeway \in Nat
  BY DocumentsAssumption DEF Messages, MessageOf, Valid, InTime, Typed
<1>2. PICK e \in box.replay : e.id = Key(r) /\ e.until > r.msg.exp + Leeway
  BY SMTT(30), <1>1 DEF Spent
<1>3. e.until > now
  BY SMTT(30), <1>1, <1>2
<1> QED BY <1>2, <1>3 DEF Live

\* Requests that did not change, time that passed and a cache that was pruned.
LEMMA SpentStays ==
    ASSUME NEW r, Spent(r), now \in Nat, now' \in Nat, now' >= now,
           r.msg.exp \in Int, \A e \in box.replay : e.until \in Int,
           Live(box) \subseteq box'.replay
    PROVE  Spent(r)'
<1>0. Leeway \in Nat /\ Key(r)' = Key(r)
  BY DocumentsAssumption DEF Key
<1>1. CASE now > r.msg.exp + Leeway
  BY SMTT(30), <1>0, <1>1 DEF Spent
<1>2. CASE \E e \in box.replay : e.id = Key(r) /\ e.until > r.msg.exp + Leeway
  <2>1. PICK e \in box.replay : e.id = Key(r) /\ e.until > r.msg.exp + Leeway
    BY <1>2
  <2>2. CASE e.until > now
    <3>0. e \in Live(box)
      BY <2>1, <2>2 DEF Live
    <3>1. e \in box'.replay
      BY <3>0
    <3> QED BY <1>0, <2>1, <3>1 DEF Spent
  <2>3. CASE e.until <= now
    BY SMTT(30), <1>0, <2>1, <2>3 DEF Spent
  <2> QED BY SMTT(30), <2>2, <2>3
<1> QED BY <1>1, <1>2 DEF Spent

\* What a step does to the receiver's memory.
Kept == box' = box \/ (box'.replay = Live(box) /\ box'.decided = box.decided)
LEMMA BoxSteps ==
    ASSUME Typed, Next
    PROVE  /\ now' >= now
           /\ \/ \E r \in net : \E c, b : Answered(r, c, b) /\ Admitted(r, c)
              \/ Kept
<1>0. now \in Nat
  BY DEF Typed
<1>1. ASSUME NEW r \in net, NEW c, NEW b, Answered(r, c, b)
      PROVE  now' >= now /\ (Kept \/ (Answered(r, c, b) /\ Admitted(r, c)))
  <2>1. now' = now /\ (Refused(c) \/ Replayed(r, c) \/ Admitted(r, c))
    BY <1>1 DEF Answered
  <2>2. now' >= now
    BY SMTT(30), <1>0, <2>1
  <2>3. CASE Refused(c)
    BY <2>2, <2>3 DEF Kept, Refused
  <2>4. CASE Replayed(r, c)
    BY <2>2, <2>4 DEF Kept, Replayed
  <2>5. CASE Admitted(r, c)
    BY <1>1, <2>2, <2>5
  <2> QED BY <2>1, <2>3, <2>4, <2>5
<1>2. ASSUME NEW s \in Sends, Quiet(s) \/ ReadOut(s) \/ \E m : Posted(s, m)
      PROVE  now' >= now /\ Kept
  BY SMTT(30), <1>0, <1>2 DEF Quiet, ReadOut, Posted, Kept
<1>3. ASSUME NEW r \in net, NEW q, Copied(r, q) \/ Resolved(r, q) PROVE now' >= now /\ Kept
  BY SMTT(30), <1>0, <1>3 DEF Copied, Resolved, Kept
<1>4. ASSUME Ticked \/ Turned PROVE now' >= now /\ Kept
  BY SMTT(30), <1>0, <1>4 DEF Ticked, Turned, Kept
<1> QED BY Steps, <1>1, <1>2, <1>3, <1>4

\* A request after a step is a new attempt's, or one of an attempt there was.
LEMMA NetSteps ==
    ASSUME Typed, Next, NEW q \in net'
    PROVE  \/ q.n > snd[q.send].n
           \/ \E r \in net : SameAttempt(r, q) /\ r.msg = q.msg /\ (q.copy \/ ~r.copy)
<1>1. CASE q \in net
  BY <1>1 DEF SameAttempt
<1>2. ASSUME NEW s \in Sends, NEW m, Posted(s, m)
      PROVE  q \in net \/ q.n > snd[q.send].n
  <2>1. PICK p : /\ net' = net \cup {p} /\ p.send = s /\ p.n = snd[s].n + 1
                 /\ p.copy = FALSE /\ p.msg = m /\ p.stage = "sent"
    BY ZenonT(60), <1>2, PostedRequest
  <2>2. snd[s].n \in Nat
    BY DEF Typed, SendTyped
  <2> QED BY SMTT(30), <2>1, <2>2
<1>3. ASSUME NEW r \in net, NEW p, Copied(r, p) \/ Resolved(r, p)
      PROVE  q \in net \/ (SameAttempt(r, q) /\ r.msg = q.msg /\ (q.copy \/ ~r.copy))
  <2>1. CASE Copied(r, p)
    BY <2>1 DEF Copied, SameAttempt
  <2>2. CASE Resolved(r, p)
    <3>1. q \in net \/ q = p
      BY <2>2 DEF Resolved
    <3>2. p.send = r.send /\ p.n = r.n /\ p.msg = r.msg /\ p.copy = r.copy /\ r.copy \in BOOLEAN
      BY <2>2 DEF Resolved, Typed, RequestTyped
    <3> QED BY <3>1, <3>2 DEF SameAttempt
  <2> QED BY <1>3, <2>1, <2>2
<1>4. ASSUME NEW r \in net, NEW c, NEW b, Answered(r, c, b) PROVE q \in net
  BY <1>4 DEF Answered
<1>5. ASSUME NEW s \in Sends, Quiet(s) \/ ReadOut(s) PROVE q \in net
  BY <1>5 DEF Quiet, ReadOut
<1>6. ASSUME Ticked \/ Turned PROVE q \in net
  BY <1>6 DEF Ticked, Turned
<1> QED BY Steps, <1>1, <1>2, <1>3, <1>4, <1>5, <1>6

\* Nothing else changes while a request gets past the cache.
LEMMA AdmittedNew ==
    ASSUME Typed, Messages, Replays, NEW r \in net, NEW c, NEW b, Answered(r, c, b), Admitted(r, c)
    PROVE  /\ \A d \in box.decided : ~SameAttempt(d, r)
           /\ \A q \in net' : SameAttempt(r, q) =>
                  q \in net /\ q.msg = r.msg /\ (q.copy \/ r.copy)
           /\ r.msg.id = <<r.send, r.n>>
           /\ now' = now /\ now + Retention > r.msg.exp + Leeway
           /\ r.msg.exp \in Int /\ Retention \in Nat
<1>0. Valid(r) /\ ~\E e \in Live(box) : e.id = Key(r)
  BY DEF Admitted
<1>1. \A d \in box.decided : ~SameAttempt(d, r)
  BY <1>0, SpentIsSeen DEF Replays
<1>2. \A q \in net' : SameAttempt(r, q) => q \in net /\ q.msg = r.msg /\ (q.copy \/ r.copy)
  <2> SUFFICES ASSUME NEW q \in net', SameAttempt(r, q)
               PROVE  q \in net /\ q.msg = r.msg /\ (q.copy \/ r.copy)
    OBVIOUS
  <2>1. q \in net /\ q # r
    BY DEF Answered
  <2>2. Agree(r, q)
    BY <2>1 DEF Messages
  <2> QED BY <2>1, <2>2 DEF Agree
<1>3. MessageOf(r.send, r.n, r.msg)
  BY DEF Messages
<1>4. r.msg.id = <<r.send, r.n>>
  BY <1>0, <1>3 DEF MessageOf, Valid
<1>5. now' = now
  BY DEF Answered
<1>6. now + Retention > r.msg.exp + Leeway /\ Retention \in Nat
  <2>1. /\ r.msg.exp - r.msg.iat <= MaxLifetime /\ r.msg.iat <= now + Leeway
        /\ r.msg.exp \in Int /\ r.msg.iat \in Int
    BY <1>0, <1>3 DEF Valid, InTime, MessageOf
  <2>2. /\ now \in Nat /\ Leeway \in Nat /\ MaxLifetime \in Nat /\ Retention \in Nat
        /\ Retention > MaxLifetime + 2 * Leeway
    BY DocumentsAssumption, DeliveryAssumption DEF Typed
  <2> QED BY SMTT(30), <2>1, <2>2
<1>7. r.msg.exp \in Int
  BY <1>3 DEF MessageOf
<1> QED BY <1>1, <1>2, <1>4, <1>5, <1>6, <1>7

\* The cache keeps what Replays says of it.
LEMMA ReplaysStep ==
    ASSUME Typed, Messages, Replays, Typed', Messages', [Next]_vars
    PROVE  Replays'
<1>1. CASE UNCHANGED vars
  BY <1>1 DEF vars, Replays, Spent, Key
<1>2. CASE Next
  <2>0. /\ now \in Nat /\ now' \in Nat /\ now' >= now
        /\ \A t \in Sends : snd[t].n \in Nat /\ snd'[t].n \in Nat /\ snd'[t].n >= snd[t].n
        /\ \A q \in net' : q.msg.exp \in Int /\ q.n \in Nat /\ q.send \in Sends
    <3>1. now \in Nat /\ now' \in Nat /\ now' >= now
      BY <1>2, BoxSteps DEF Typed
    <3>2. \A t \in Sends : snd[t].n \in Nat /\ snd'[t].n \in Nat /\ snd'[t].n >= snd[t].n
      BY <1>2, SendsTypedStep DEF Typed, SendTyped
    <3>3. \A q \in net' : q.n \in Nat /\ q.send \in Sends
      BY DEF Typed, RequestTyped
    <3>4. \A q \in net' : q.msg.exp \in Int
      BY DEF Messages, MessageOf
    <3> QED BY <3>1, <3>2, <3>3, <3>4
  <2>1. /\ \A e \in box.replay : e.until \in Int
        /\ \A d \in box.decided : d.send \in Sends /\ d.n \in Nat /\ d.n <= snd[d.send].n
        /\ \A d, e \in box.decided : d.send = e.send /\ d.n = e.n => d = e
        /\ \A d \in box.decided : \A r \in net :
               SameAttempt(d, r) => Spent(r) /\ (d.copy \/ r.copy)
        /\ \A e \in box.replay : \E d \in box.decided : \E x : e.id = <<x, <<d.send, d.n>>>>
    BY DEF Replays
  <2>2. ASSUME Live(box) \subseteq box'.replay, NEW d \in box.decided, NEW q \in net',
               SameAttempt(d, q)
        PROVE  Spent(q)' /\ (d.copy \/ q.copy)
    <3>1. d.send \in Sends /\ d.n <= snd[d.send].n /\ d.n \in Nat /\ d.n = q.n /\ d.send = q.send
      BY <2>1, <2>2 DEF SameAttempt
    <3>2. ~(q.n > snd[q.send].n)
      BY SMTT(30), <2>0, <3>1
    <3>3. PICK r \in net : SameAttempt(r, q) /\ r.msg = q.msg /\ (q.copy \/ ~r.copy)
      BY <1>2, <3>2, NetSteps
    <3>4. Spent(r) /\ (d.copy \/ r.copy)
      BY <2>1, <2>2, <3>3 DEF SameAttempt
    <3>5. Spent(q)
      BY <3>3, <3>4 DEF Spent, Key
    <3>6. Spent(q)'
      BY <2>0, <2>1, <2>2, <3>5, SpentStays
    <3> QED BY <3>3, <3>4, <3>6
  <2>3. CASE Kept
    <3>1. /\ box'.replay \subseteq box.replay /\ Live(box) \subseteq box'.replay
          /\ box'.decided = box.decided
      BY <2>3 DEF Kept, Live
    <3>2. \A e \in box'.replay : e.until \in Int
      BY <2>1, <3>1
    <3>3. \A d \in box'.decided : d.send \in Sends /\ d.n \in Nat /\ d.n <= snd'[d.send].n
      <4> SUFFICES ASSUME NEW d \in box.decided
                   PROVE  d.send \in Sends /\ d.n \in Nat /\ d.n <= snd'[d.send].n
        BY <3>1
      <4>1. d.send \in Sends /\ d.n \in Nat /\ d.n <= snd[d.send].n
        BY <2>1
      <4> QED BY SMTT(30), <2>0, <4>1
    <3>4. \A d, e \in box'.decided : d.send = e.send /\ d.n = e.n => d = e
      BY <2>1, <3>1
    <3>5. \A d \in box'.decided : \A q \in net' :
               SameAttempt(d, q) => Spent(q)' /\ (d.copy \/ q.copy)
      BY <2>2, <3>1
    <3>6. \A e \in box'.replay : \E d \in box'.decided : \E x : e.id = <<x, <<d.send, d.n>>>>
      BY <2>1, <3>1
    <3> QED BY <3>2, <3>3, <3>4, <3>5, <3>6 DEF Replays, SameAttempt
  <2>4. ASSUME NEW r \in net, NEW c, NEW b, Answered(r, c, b), Admitted(r, c)
        PROVE  Replays'
    <3> DEFINE new == [send |-> r.send, n |-> r.n, copy |-> r.copy, code |-> c]
               entry == [id |-> Key(r), until |-> now + Retention]
    <3>0. /\ new.send = r.send /\ new.n = r.n /\ new.copy = r.copy
          /\ entry.id = Key(r) /\ entry.until = now + Retention
      OBVIOUS
    <3>1. box'.replay = Live(box) \cup {entry} /\ box'.decided = box.decided \cup {new}
      BY <2>4 DEF Admitted
    <3> HIDE DEF new, entry
    <3>2. /\ \A d \in box.decided : ~SameAttempt(d, r)
          /\ \A q \in net' : SameAttempt(r, q) =>
                 q \in net /\ q.msg = r.msg /\ (q.copy \/ r.copy)
          /\ r.msg.id = <<r.send, r.n>>
          /\ now' = now /\ now + Retention > r.msg.exp + Leeway
          /\ r.msg.exp \in Int /\ Retention \in Nat
      BY <2>4, AdmittedNew
    <3>3. Live(box) \subseteq box.replay
      BY DEF Live
    <3>4. \A e \in box'.replay : e.until \in Int
      <4>1. entry.until \in Int
        BY SMTT(30), <2>0, <3>0, <3>2
      <4> QED BY <2>1, <3>1, <3>3, <4>1
    <3>5. \A d \in box'.decided : d.send \in Sends /\ d.n \in Nat /\ d.n <= snd'[d.send].n
      <4>1. ASSUME NEW d \in box.decided
            PROVE  d.send \in Sends /\ d.n \in Nat /\ d.n <= snd'[d.send].n
        <5>1. d.send \in Sends /\ d.n \in Nat /\ d.n <= snd[d.send].n
          BY <2>1
        <5> QED BY SMTT(30), <2>0, <5>1
      <4>2. r.send \in Sends /\ r.n \in Nat /\ r.n <= snd[r.send].n
        BY DEF Typed, RequestTyped
      <4>3. r.n <= snd'[r.send].n
        BY SMTT(30), <2>0, <4>2
      <4>4. new.send \in Sends /\ new.n \in Nat /\ new.n <= snd'[new.send].n
        BY <3>0, <4>2, <4>3
      <4> QED BY <3>1, <4>1, <4>4
    <3>6. \A d, e \in box'.decided : d.send = e.send /\ d.n = e.n => d = e
      BY ZenonT(60), <2>1, <3>0, <3>1, <3>2 DEF SameAttempt
    <3>7. ASSUME NEW d \in box'.decided, NEW q \in net', SameAttempt(d, q)
          PROVE  Spent(q)' /\ (d.copy \/ q.copy)
      <4>1. CASE d \in box.decided
        BY <2>2, <3>1, <3>7, <4>1
      <4>2. CASE d = new
        <5>1. q.msg = r.msg /\ (q.copy \/ r.copy)
          BY <3>0, <3>2, <3>7, <4>2 DEF SameAttempt
        <5>2. entry.id = Key(q) /\ entry.until > q.msg.exp + Leeway /\ entry \in box'.replay
          BY <3>0, <3>1, <3>2, <5>1 DEF Key
        <5>3. Spent(q)'
          BY <5>2 DEF Spent, Key
        <5> QED BY <3>0, <4>2, <5>1, <5>3
      <4> QED BY <3>1, <3>7, <4>1, <4>2
    <3>8. ASSUME NEW e \in box'.replay
          PROVE  \E d \in box'.decided : \E x : e.id = <<x, <<d.send, d.n>>>>
      <4>1. CASE e \in box.replay
        BY <2>1, <3>1, <4>1
      <4>2. CASE e = entry
        <5>1. e.id = <<r.msg.from.id, <<new.send, new.n>>>> /\ new \in box'.decided
          BY <3>0, <3>1, <3>2, <4>2 DEF Key
        <5> QED BY <5>1
      <4> QED BY <3>1, <3>3, <3>8, <4>1, <4>2
    <3> QED BY <3>4, <3>5, <3>6, <3>7, <3>8 DEF Replays, SameAttempt
  <2> QED BY <1>2, <2>3, <2>4, BoxSteps
<1> QED BY <1>1, <1>2
-----------------------------------------------------------------------------
(* Verdicts: what a call hears is what the receiver decided of its attempt. *)

Stays(t) ==
    /\ snd'[t].pc = snd[t].pc /\ snd'[t].code = snd[t].code /\ snd'[t].out = snd[t].out
    /\ snd'[t].n = snd[t].n /\ snd[t].lost \subseteq snd'[t].lost
    /\ snd[t].shaken => snd'[t].shaken
Moves(t) ==
    /\ snd[t].pc \notin {"answered", "done"} /\ snd'[t].pc # "answered"
    /\ snd'[t].out \notin WireErrors \cup {"accepted"} /\ snd'[t].lost = snd[t].lost
Told(t, r, c, b) == ~r.copy /\ r.send = t /\ Hears(t, r.n, c, b)

\* What may become of a call in a step.
LEMMA Fates ==
    ASSUME Typed, Next, NEW t \in Sends
    PROVE  \/ Stays(t) \/ Moves(t) \/ ReadOut(t)
           \/ \E r \in net : \E c, b : Answered(r, c, b) /\ Told(t, r, c, b)
<1>0. snd[t].pc # "done" => snd[t].out = None
  BY DEF Typed, SendTyped
<1>1. ASSUME NEW s \in Sends, Quiet(s) PROVE Stays(t) \/ Moves(t)
  <2>1. CASE t = s
    <3>1. /\ snd[t].pc \notin {"answered", "done"} /\ snd'[t].pc # "answered"
          /\ snd'[t].lost = snd[t].lost
          /\ \/ snd'[t].out = None
             \/ snd'[t].out \in {"bad_address", "unresolved", "card_error", "pin_mismatch",
                                 "mint_error", "exhausted"}
      BY <1>0, <1>1, <2>1 DEF Quiet
    <3> QED BY <3>1, NoneIsNoOutcome DEF Moves, Outcomes, WireErrors
  <2>2. CASE t # s
    BY <1>1, <2>2 DEF Quiet, Others, Stays
  <2> QED BY <2>1, <2>2
<1>2. ASSUME NEW s \in Sends, NEW m, Posted(s, m) PROVE Stays(t) \/ Moves(t)
  <2>1. CASE t = s
    <3>1. /\ snd[t].pc \notin {"answered", "done"} /\ snd'[t].pc # "answered"
          /\ snd'[t].lost = snd[t].lost /\ snd'[t].out = None
      BY <1>0, <1>2, <2>1 DEF Posted
    <3> QED BY <3>1, NoneIsNoOutcome DEF Moves, Outcomes
  <2>2. CASE t # s
    BY <1>2, <2>2 DEF Posted, Others, Stays
  <2> QED BY <2>1, <2>2
<1>3. ASSUME NEW s \in Sends, ReadOut(s) PROVE Stays(t) \/ ReadOut(t)
  <2>1. CASE t # s
    BY <1>3, <2>1 DEF ReadOut, Others, Stays
  <2> QED BY <1>3, <2>1
<1>4. ASSUME NEW r \in net, NEW c, NEW b, Answered(r, c, b)
      PROVE  Stays(t) \/ (Answered(r, c, b) /\ Told(t, r, c, b))
  <2>0. r.send \in Sends /\ AnswerTo(r, c, b)
    BY <1>4 DEF Answered, Typed, RequestTyped
  <2>1. CASE UNCHANGED snd
    BY <2>1 DEF Stays
  <2>2. CASE t # r.send /\ (Hears(r.send, r.n, c, b) \/ Loses(r.send, r.n))
    BY <2>2 DEF Hears, Loses, Others, Stays
  <2>3. CASE t = r.send /\ Loses(r.send, r.n)
    BY <2>3 DEF Loses, Stays
  <2>4. CASE ~r.copy /\ t = r.send /\ Hears(r.send, r.n, c, b)
    BY <1>4, <2>4 DEF Told
  <2> QED BY <2>0, <2>1, <2>2, <2>3, <2>4 DEF AnswerTo
<1>5. ASSUME Turned PROVE Stays(t)
  BY <1>5 DEF Turned, Stays
<1>6. ASSUME UNCHANGED snd PROVE Stays(t)
  BY <1>6 DEF Stays
<1> QED BY Steps, <1>1, <1>2, <1>3, <1>4, <1>5, <1>6 DEF Copied, Resolved, Ticked

\* Nothing decided is forgotten.
LEMMA DecidedStays ==
    ASSUME Typed, [Next]_vars
    PROVE  box.decided \subseteq box'.decided
<1>1. CASE UNCHANGED vars
  BY <1>1 DEF vars
<1>2. CASE Next
  BY <1>2, BoxSteps DEF Kept, Admitted
<1> QED BY <1>1, <1>2

Verdict(s) ==
    /\ snd[s].pc = "answered" => snd[s].code \in WireErrors \cup {"accepted", "raises"}
    /\ snd[s].out \in WireErrors =>
           snd[s].out = IF snd[s].code = "raises" THEN "parse_error" ELSE snd[s].code
    /\ (snd[s].pc = "answered" /\ snd[s].code = "replay") \/ snd[s].out = "replay" =>
           \E d \in box.decided : d.send = s /\ d.n = snd[s].n /\ d.copy
    /\ (snd[s].pc = "answered" /\ snd[s].code = "accepted") \/ snd[s].out = "accepted" =>
           \E d \in box.decided : d.send = s /\ d.n = snd[s].n /\ d.code = "accepted"
Verdicts == \A s \in Sends : Verdict(s)

\* A request that is answered as a replay was overtaken by a copy.
LEMMA ReplayedByCopy ==
    ASSUME Typed, Messages, Replays, NEW r \in net, ~r.copy, NEW c, Replayed(r, c)
    PROVE  \E d \in box.decided : d.send = r.send /\ d.n = r.n /\ d.copy
<1>1. PICK e \in Live(box) : e.id = Key(r)
  BY DEF Replayed
<1>2. e \in box.replay
  BY DEF Live
<1>3. PICK d \in box.decided : \E x : e.id = <<x, <<d.send, d.n>>>>
  BY <1>2 DEF Replays
<1>4. r.msg.id = <<r.send, r.n>>
  BY DEF Replayed, Valid, Messages, MessageOf
<1>5. PICK x : <<r.msg.from.id, <<r.send, r.n>>>> = <<x, <<d.send, d.n>>>>
  BY <1>1, <1>3, <1>4 DEF Key
<1>6. <<r.send, r.n>> = <<d.send, d.n>>
  BY <1>5
<1>7. SameAttempt(d, r) /\ d.send = r.send /\ d.n = r.n
  BY <1>6 DEF SameAttempt
<1>8. d.copy
  BY <1>7 DEF Replays
<1> QED BY <1>7, <1>8

\* Every step keeps the verdicts.
LEMMA VerdictsStep ==
    ASSUME Typed, Messages, Replays, Verdicts, [Next]_vars
    PROVE  Verdicts'
<1>1. CASE UNCHANGED vars
  BY ZenonT(60), <1>1 DEF vars, Verdicts, Verdict
<1>2. CASE Next
  <2> SUFFICES ASSUME NEW t \in Sends PROVE Verdict(t)'
    BY DEF Verdicts
  <2>0. Verdict(t) /\ box.decided \subseteq box'.decided /\ None \notin WireErrors \cup {"accepted"}
    BY <1>2, DecidedStays, NoneIsNoOutcome DEF Verdicts, Outcomes
  <2>1. CASE Stays(t)
    BY <2>0, <2>1 DEF Stays, Verdict
  <2>2. CASE Moves(t)
    BY <2>2 DEF Moves, Verdict, WireErrors
  <2>3. CASE ReadOut(t)
    <3>1. /\ snd[t].pc = "answered" /\ snd'[t].pc = "done" /\ snd'[t].code = snd[t].code
          /\ snd'[t].n = snd[t].n /\ snd'[t].out \in {Outcome(t), "pin_mismatch"}
      BY <2>3 DEF ReadOut
    <3>2. CASE snd'[t].out = "pin_mismatch"
      BY <3>1, <3>2 DEF Verdict, WireErrors
    <3>3. CASE snd'[t].out = Outcome(t)
      <4>1. CASE snd[t].code = "accepted"
        <5>1. snd'[t].out = "accepted"
          BY <3>3, <4>1 DEF Outcome
        <5> QED BY <2>0, <3>1, <4>1, <5>1 DEF Verdict, WireErrors
      <4>2. CASE snd[t].code = "raises"
        <5>1. snd'[t].out = "parse_error"
          BY <3>3, <4>2 DEF Outcome, Interpreted, WireErrors
        <5> QED BY <2>0, <3>1, <4>2, <5>1 DEF Verdict, WireErrors
      <4>3. CASE snd[t].code \in WireErrors
        <5>1. snd'[t].out = snd[t].code
          BY <3>3, <4>3 DEF Outcome, Interpreted, WireErrors
        <5> QED BY <2>0, <3>1, <4>3, <5>1 DEF Verdict, WireErrors
      <4> QED BY <2>0, <3>1, <4>1, <4>2, <4>3 DEF Verdict
    <3> QED BY <3>1, <3>2, <3>3
  <2>4. ASSUME NEW r \in net, NEW c, NEW b, Answered(r, c, b), Told(t, r, c, b)
        PROVE  Verdict(t)'
    <3>1. /\ snd'[t].pc = "answered" /\ snd'[t].code = c /\ snd'[t].out = None
          /\ snd'[t].n = r.n /\ r.send = t /\ ~r.copy
      BY <2>4 DEF Told, Hears, Typed, SendTyped
    <3>2. CASE Refused(c)
      BY <2>0, <3>1, <3>2 DEF Refused, Verdict, WireErrors
    <3>3. CASE Replayed(r, c)
      <4>1. c = "replay" /\ \E d \in box.decided : d.send = r.send /\ d.n = r.n /\ d.copy
        BY <3>1, <3>3, ReplayedByCopy DEF Replayed
      <4> QED BY <2>0, <3>1, <4>1 DEF Verdict, WireErrors
    <3>4. CASE Admitted(r, c)
      <4> DEFINE new == [send |-> r.send, n |-> r.n, copy |-> r.copy, code |-> c]
      <4>1. /\ c \in (WireErrors \ {"replay", "signature"}) \cup {"accepted", "raises"}
            /\ new \in box'.decided
        BY <3>4 DEF Admitted
      <4>2. new.send = r.send /\ new.n = r.n /\ new.code = c
        OBVIOUS
      <4> HIDE DEF new
      <4> QED BY <2>0, <3>1, <4>1, <4>2 DEF Verdict, WireErrors
    <3> QED BY <2>4, <3>2, <3>3, <3>4 DEF Answered
  <2> QED BY <1>2, Fates, <2>1, <2>2, <2>3, <2>4
<1> QED BY <1>1, <1>2
-----------------------------------------------------------------------------
(* Without copies every acceptance is one that was heard of or got lost.   *)

AcceptedOnce ==
    setup.copies \/ \A s \in Sends : \A a \in Accepted(s) :
                        a.n \in snd[s].lost \/ (Heard(s) /\ a.n = snd[s].n)

\* Every step keeps the balance.
LEMMA AcceptedOnceStep ==
    ASSUME Typed, Messages, AcceptedOnce, [Next]_vars
    PROVE  AcceptedOnce'
<1>1. CASE UNCHANGED vars
  BY <1>1 DEF vars, AcceptedOnce, Accepted, Heard
<1>2. CASE Next
  <2>0. setup' = setup
    BY <1>2, SendsTypedStep
  <2> SUFFICES ASSUME NEW t \in Sends, ~setup.copies, NEW a \in Accepted(t)'
               PROVE  a.n \in snd'[t].lost \/ (Heard(t)' /\ a.n = snd'[t].n)
    BY <2>0 DEF AcceptedOnce
  <2>1. snd[t].pc # "done" => snd[t].out \notin {"accepted", "pin_mismatch"}
    BY NoneIsNoOutcome DEF Typed, SendTyped, Outcomes
  <2>2. (Heard(t) => Heard(t)' /\ snd'[t].n = snd[t].n) /\ snd[t].lost \subseteq snd'[t].lost
    <3>1. CASE Stays(t)
      BY <3>1 DEF Stays, Heard
    <3>2. CASE Moves(t)
      BY <2>1, <3>2 DEF Moves, Heard
    <3>3. CASE ReadOut(t)
      <4>1. /\ snd[t].pc = "answered" /\ snd'[t].lost = snd[t].lost /\ snd'[t].n = snd[t].n
            /\ snd'[t].out \in {Outcome(t), "pin_mismatch"}
        BY <3>3 DEF ReadOut
      <4>2. ASSUME Heard(t) PROVE snd'[t].out \in {"accepted", "pin_mismatch"}
        BY <2>1, <4>1, <4>2 DEF Heard, Outcome
      <4> QED BY <4>1, <4>2 DEF Heard
    <3>4. ASSUME NEW r, NEW c, NEW b, Told(t, r, c, b)
          PROVE  ~Heard(t) /\ snd'[t].lost = snd[t].lost
      BY <2>1, <3>4 DEF Told, Hears, Heard
    <3> QED BY <1>2, Fates, <3>1, <3>2, <3>3, <3>4
  <2>3. CASE a \in Accepted(t)
    BY <2>2, <2>3 DEF AcceptedOnce
  <2>4. ASSUME Kept PROVE a \in Accepted(t)
    BY <2>4 DEF Kept, Accepted
  <2>5. ASSUME NEW r \in net, NEW c, NEW b, Answered(r, c, b), Admitted(r, c), a \notin Accepted(t)
        PROVE  a.n \in snd'[t].lost \/ (Heard(t)' /\ a.n = snd'[t].n)
    <3> DEFINE new == [send |-> r.send, n |-> r.n, copy |-> r.copy, code |-> c]
    <3>0. /\ box'.decided = box.decided \cup {new}
          /\ new.send = r.send /\ new.n = r.n /\ new.code = c
      BY <2>5 DEF Admitted
    <3> HIDE DEF new
    <3>1. a.n = r.n /\ r.send = t /\ c = "accepted"
      BY <2>5, <3>0 DEF Accepted
    <3>2. ~r.copy /\ AnswerTo(r, c, b)
      BY <2>5 DEF Messages, Answered
    <3>3. CASE Hears(t, r.n, c, b)
      BY <3>1, <3>3 DEF Hears, Heard
    <3>4. CASE Loses(t, r.n)
      BY <3>1, <3>4 DEF Loses
    <3> QED BY <3>1, <3>2, <3>3, <3>4 DEF AnswerTo
  <2> QED BY <1>2, BoxSteps, <2>3, <2>4, <2>5
<1> QED BY <1>1, <1>2
-----------------------------------------------------------------------------
(* Keys: a Shadow that is published stays published, whatever its provider *)
(* and it do to their keys.                                                *)

TxtFields == {"pairs", "v", "ep", "pk", "delegate"}
Listed == Keys \cup {"malformed"}

\* Published, with the record and the key that make it so.
Signed(w, i, t, k) ==
    /\ is_shadowname(i) /\ ~is_public_key_identifier(i)
    /\ i.domain \in DOMAIN w.dns /\ i \in DOMAIN w.cards
    /\ i \in DOMAIN w.signing /\ w.signing[i] \in Keys
    /\ DOMAIN t = TxtFields /\ t.pk \in Seq(Listed)
    /\ Parsed(w.dns[i.domain]) = {t} /\ k \in Elements(t.pk)
    /\ w.cards[i] = build_signed_agent_card(w.signing[i], i.domain, k)
Known(w, i) ==
    \/ /\ is_public_key_identifier(i) /\ ~is_shadowname(i)
       /\ i \in DOMAIN w.signing /\ w.signing[i] = i.key
    \/ \E t, k : Signed(w, i, t, k)

\* What is published at first is known.
LEMMA PublishedIsKnown ==
    ASSUME setup \in Setups, NEW i, Published(setup.world, i)
    PROVE  Known(setup.world, i)
<1>1. \A d \in DOMAIN setup.world.dns : \A t \in setup.world.dns[d] :
          DOMAIN t = TxtFields /\ t.pk \in Seq(Listed)
  BY SetupsAssumption DEF TxtFields, Listed
<1> QED BY <1>1 DEF Published, Known, Signed

\* The keys of a record with one more.
LEMMA MoreKeys ==
    ASSUME NEW s \in Seq(Listed)
    PROVE  /\ Append(s, "k2") \in Seq(Listed) /\ Append(s, "k2") # <<>>
           /\ Elements(Append(s, "k2")) = Elements(s) \cup {"k2"}
           /\ (<<"k2">> \o s) \in Seq(Listed) /\ (<<"k2">> \o s) # <<>>
           /\ Elements(<<"k2">> \o s) = Elements(s) \cup {"k2"}
<1> DEFINE a == Append(s, "k2")
           p == <<"k2">> \o s
<1>0. "k2" \in Listed
  BY DeliveryAssumption DEF Listed
<1>1. /\ a \in Seq(Listed) /\ Len(a) = Len(s) + 1 /\ Len(s) \in Nat
      /\ DOMAIN a = 1 .. Len(s) + 1 /\ DOMAIN s = 1 .. Len(s)
      /\ a[Len(s) + 1] = "k2" /\ \A j \in 1 .. Len(s) : a[j] = s[j]
  <2>2. Len(s) \in Nat /\ DOMAIN s = 1 .. Len(s)
    BY SMTT(30)
  <2>3. /\ a \in Seq(Listed) /\ Len(a) = Len(s) + 1
        /\ a[Len(s) + 1] = "k2" /\ \A j \in 1 .. Len(s) : a[j] = s[j]
    BY SMTT(30), <1>0
  <2> HIDE DEF a
  <2>4. DOMAIN a = 1 .. Len(a)
    BY SMTT(30), <2>3
  <2> QED BY <2>2, <2>3, <2>4
<1>2. /\ p \in Seq(Listed) /\ Len(p) = Len(s) + 1
      /\ DOMAIN p = 1 .. Len(s) + 1
      /\ p[1] = "k2" /\ \A j \in 1 .. Len(s) : p[j + 1] = s[j]
  <2>1. <<"k2">> \in Seq(Listed) /\ Len(<<"k2">>) = 1 /\ <<"k2">>[1] = "k2"
    BY SMTT(30), <1>0
  <2>2. /\ p \in Seq(Listed) /\ Len(p) = 1 + Len(s)
        /\ \A j \in 1 .. 1 + Len(s) : p[j] = IF j <= 1 THEN <<"k2">>[j] ELSE s[j - 1]
    BY SMTT(30), <2>1
  <2> HIDE DEF p
  <2>3. DOMAIN p = 1 .. Len(p)
    BY SMTT(30), <2>2
  <2>4. p[1] = "k2"
    BY SMTT(30), <1>1, <2>1, <2>2
  <2>5. ASSUME NEW j \in 1 .. Len(s) PROVE p[j + 1] = s[j]
    <3>1. j + 1 \in 1 .. 1 + Len(s) /\ ~(j + 1 <= 1) /\ (j + 1) - 1 = j
      BY SMTT(30), <1>1
    <3> QED BY <2>2, <3>1
  <2> QED BY SMTT(30), <1>1, <2>2, <2>3, <2>4, <2>5
<1> HIDE DEF a, p
<1>3. Elements(a) = Elements(s) \cup {"k2"} /\ a # <<>>
  <2>1. \A x \in Elements(a) : x \in Elements(s) \cup {"k2"}
    BY SMTT(30), <1>1 DEF Elements
  <2>2. \A x \in Elements(s) : x \in Elements(a)
    BY SMTT(30), <1>1 DEF Elements
  <2>3. "k2" \in Elements(a) /\ a # <<>>
    BY SMTT(30), <1>1 DEF Elements
  <2> QED BY <2>1, <2>2, <2>3
<1>4. Elements(p) = Elements(s) \cup {"k2"} /\ p # <<>>
  <2>1. ASSUME NEW x \in Elements(p) PROVE x \in Elements(s) \cup {"k2"}
    <3>1. PICK j \in 1 .. Len(s) + 1 : x = p[j]
      BY <1>2 DEF Elements
    <3>2. CASE j = 1
      BY <1>2, <3>1, <3>2
    <3>3. CASE j # 1
      <4>1. j - 1 \in 1 .. Len(s) /\ p[(j - 1) + 1] = s[j - 1] /\ (j - 1) + 1 = j
        BY SMTT(30), <1>1, <1>2, <3>3
      <4> QED BY <1>1, <3>1, <4>1 DEF Elements
    <3> QED BY <3>2, <3>3
  <2>2. ASSUME NEW x \in Elements(s) PROVE x \in Elements(p)
    <3>1. PICK j \in 1 .. Len(s) : x = s[j]
      BY <1>1 DEF Elements
    <3>2. j + 1 \in DOMAIN p /\ p[j + 1] = x
      BY SMTT(30), <1>1, <1>2, <3>1
    <3> QED BY <3>2 DEF Elements
  <2>3. "k2" \in Elements(p) /\ p # <<>>
    BY SMTT(30), <1>1, <1>2 DEF Elements
  <2> QED BY <2>1, <2>2, <2>3
<1> QED BY <1>1, <1>2, <1>3, <1>4 DEF a, p

\* A record whose keys change stays the only one.
LEMMA SoleRecord ==
    ASSUME NEW D, NEW t, Parsed(D) = {t}, DOMAIN t = TxtFields,
           NEW keys, keys # <<>>, "malformed" \notin Elements(keys),
           NEW q, q = [t EXCEPT !.pk = keys]
    PROVE  DOMAIN q = TxtFields /\ q.pk = keys /\ Parsed((D \ {t}) \cup {q}) = {q}
<1>1. /\ DOMAIN q = TxtFields /\ q.pk = keys /\ q.pairs = t.pairs /\ q.v = t.v /\ q.ep = t.ep
  BY DEF TxtFields
<1>2. parse_provider_txt(t) /\ \A u \in D : parse_provider_txt(u) => u = t
  BY DEF Parsed
<1>3. parse_provider_txt(q)
  BY <1>1, <1>2 DEF parse_provider_txt
<1>4. Parsed((D \ {t}) \cup {q}) = {q}
  BY <1>2, <1>3 DEF Parsed
<1> QED BY <1>1, <1>4

\* A card as it is built.
LEMMA CardFields ==
    ASSUME NEW pk, NEW d, NEW k, NEW c, c = build_signed_agent_card(pk, d, k)
    PROVE  /\ c.body.pk = pk /\ Elements(c.signatures) = {Signature(Shadowname("shadownet", d), k)}
           /\ c.signatures[1].key = k /\ DOMAIN c.signatures = {1}
           /\ c.signatures[1] = Signature(Shadowname("shadownet", d), k)
<1> DEFINE sig == Signature(Shadowname("shadownet", d), k)
<1>1. c.body = CardBody(pk) /\ c.signatures = <<sig>>
  BY DEF build_signed_agent_card, SignedCard
<1>2. sig.key = k /\ CardBody(pk).pk = pk
  BY DEF Signature, CardBody
<1> HIDE DEF sig
<1>3. DOMAIN <<sig>> = {1} /\ <<sig>>[1] = sig
  BY SMTT(30)
<1> QED BY SMTT(30), <1>1, <1>2, <1>3 DEF Elements, sig

\* What a change of the world changes.
LEMMA ChangeWorld ==
    ASSUME Typed, NEW kind, NEW w, DOMAIN w = DOMAIN world, Change(kind, w)
    PROVE  world'.dns = w.dns /\ world'.cards = w.cards /\ world'.signing = w.signing
BY DEF Change, Typed, Shape

\* A provider's record gets other keys.
Rekeys(d, u, keys) ==
    /\ d \in DOMAIN world.dns /\ u \in Parsed(world.dns[d])
    /\ world'.dns = [world.dns EXCEPT ![d] = (world.dns[d] \ {u}) \cup {[u EXCEPT !.pk = keys]}]
    /\ world'.cards = world.cards /\ world'.signing = world.signing
Keeps(i, k, d, keys) ==
    d = i.domain => /\ keys \in Seq(Listed) /\ keys # <<>>
                    /\ "malformed" \notin Elements(keys) /\ k \in Elements(keys)

\* Its cards stay published when their key is among them.
LEMMA Rekeyed ==
    ASSUME NEW i, NEW t, NEW k, NEW d, NEW u, NEW keys, Signed(world, i, t, k),
           Rekeys(d, u, keys), Keeps(i, k, d, keys)
    PROVE  \E q : Signed(world', i, q, k)
<1> USE DEF Rekeys, Keeps
<1>0. DOMAIN world'.dns = DOMAIN world.dns
  OBVIOUS
<1>1. CASE d # i.domain
  <2>1. i.domain \in DOMAIN world.dns
    BY DEF Signed
  <2>2. world'.dns[i.domain] = world.dns[i.domain]
    BY <1>1, <2>1
  <2>3. Signed(world', i, t, k)
    BY <1>0, <2>2 DEF Signed
  <2> QED BY <2>3
<1>2. CASE d = i.domain
  <2> DEFINE q == [t EXCEPT !.pk = keys]
             E == world.dns[d]
  <2>1. u = t /\ Parsed(E) = {t} /\ DOMAIN t = TxtFields
    BY <1>2 DEF Signed
  <2>2. DOMAIN q = TxtFields /\ q.pk = keys /\ Parsed((E \ {t}) \cup {q}) = {q}
    <3>1. keys # <<>> /\ "malformed" \notin Elements(keys)
      BY <1>2
    <3> HIDE DEF E
    <3>2. q = [t EXCEPT !.pk = keys]
      OBVIOUS
    <3> HIDE DEF q
    <3> QED BY SMTT(30), <2>1, <3>1, <3>2, SoleRecord
  <2>3. world'.dns[i.domain] = (E \ {t}) \cup {q}
    BY <1>2, <2>1
  <2> HIDE DEF q
  <2>4. Signed(world', i, q, k)
    BY <1>0, <1>2, <2>2, <2>3 DEF Signed
  <2> QED BY <2>4
<1> QED BY <1>1, <1>2

\* The keys of a record that parses.
LEMMA SignerIsKey ==
    ASSUME NEW w, NEW i, NEW t, NEW k, Signed(w, i, t, k)
    PROVE  t \in w.dns[i.domain] /\ k \in Keys /\ "malformed" \notin Elements(t.pk)
<1>1. t \in Parsed(w.dns[i.domain])
  BY DEF Signed
<1>2. t \in w.dns[i.domain] /\ "malformed" \notin Elements(t.pk)
  BY <1>1 DEF Parsed, parse_provider_txt
<1>3. k \in Elements(t.pk) /\ t.pk \in Seq(Listed)
  BY DEF Signed
<1>4. PICK j \in DOMAIN t.pk : k = t.pk[j]
  BY <1>3 DEF Elements
<1>5. k \in Listed
  BY SMTT(30), <1>3, <1>4
<1> QED BY <1>2, <1>3, <1>5 DEF Listed

\* Whatever an operator does, the Shadow stays published.
LEMMA KnownStep ==
    ASSUME Typed, NEW i, Known(world, i), Operator
    PROVE  Known(world', i)
<1>0. DOMAIN world = {"dns", "cards", "signing", "certs", "left"}
  BY DEF Typed, Shape
<1>1. CASE PublishKey
  <2>1. PICK d \in DOMAIN world.dns : \E u \in Parsed(world.dns[d]) : \E first \in BOOLEAN :
          Change("publish", [world EXCEPT !.dns[d] = (world.dns[d] \ {u}) \cup
              {[u EXCEPT !.pk = IF first THEN <<"k2">> \o u.pk ELSE Append(u.pk, "k2")]}])
    BY <1>1 DEF PublishKey
  <2>2. PICK u \in Parsed(world.dns[d]) : \E first \in BOOLEAN :
          Change("publish", [world EXCEPT !.dns[d] = (world.dns[d] \ {u}) \cup
              {[u EXCEPT !.pk = IF first THEN <<"k2">> \o u.pk ELSE Append(u.pk, "k2")]}])
    BY <2>1
  <2>3. PICK keys : /\ keys \in {<<"k2">> \o u.pk, Append(u.pk, "k2")}
                    /\ Change("publish", [world EXCEPT !.dns[d] = (world.dns[d] \ {u}) \cup
                                              {[u EXCEPT !.pk = keys]}])
    BY <2>2
  <2> DEFINE w == [world EXCEPT !.dns[d] = (world.dns[d] \ {u}) \cup {[u EXCEPT !.pk = keys]}]
  <2>4. /\ DOMAIN w = DOMAIN world /\ w.cards = world.cards /\ w.signing = world.signing
        /\ w.dns = [world.dns EXCEPT ![d] = (world.dns[d] \ {u}) \cup {[u EXCEPT !.pk = keys]}]
    BY <1>0
  <2>5. /\ world'.cards = world.cards /\ world'.signing = world.signing
        /\ world'.dns = [world.dns EXCEPT ![d] = (world.dns[d] \ {u}) \cup {[u EXCEPT !.pk = keys]}]
    <3> HIDE DEF w
    <3>1. Change("publish", w)
      BY <2>3 DEF w
    <3> QED BY <2>4, <3>1, ChangeWorld
  <2>6. ASSUME NEW t, NEW k, Signed(world, i, t, k) PROVE Known(world', i)
    <3>1. ASSUME d = i.domain
          PROVE  /\ keys \in Seq(Listed) /\ keys # <<>>
                 /\ "malformed" \notin Elements(keys) /\ k \in Elements(keys)
      <4>1. u = t
        BY <2>6, <3>1 DEF Signed
      <4>2. t.pk \in Seq(Listed) /\ k \in Elements(t.pk) /\ "malformed" \notin Elements(t.pk)
        BY <2>6, SignerIsKey DEF Signed
      <4>3. keys \in Seq(Listed) /\ keys # <<>> /\ Elements(keys) = Elements(t.pk) \cup {"k2"}
        BY <2>3, <4>1, <4>2, MoreKeys
      <4> QED BY <4>2, <4>3
    <3>2. Rekeys(d, u, keys)
      BY <2>1, <2>2, <2>5 DEF Rekeys
    <3>3. Keeps(i, k, d, keys)
      BY <3>1 DEF Keeps
    <3>4. \E q : Signed(world', i, q, k)
      BY <2>6, <3>2, <3>3, Rekeyed
    <3> QED BY <3>4 DEF Known
  <2> QED BY <2>5, <2>6 DEF Known
<1>2. CASE ResignCards
  <2> DEFINE cs == [n \in DOMAIN world.cards |->
                      IF is_shadowname(n) /\ Publishes(n.domain, "k2")
                      THEN build_signed_agent_card(world.cards[n].body.pk, n.domain, "k2")
                      ELSE world.cards[n]]
             w == [world EXCEPT !.cards = cs]
  <2>1. Change("resign", w)
    BY <1>2 DEF ResignCards
  <2>2. DOMAIN w = DOMAIN world /\ w.cards = cs /\ w.signing = world.signing /\ w.dns = world.dns
    <3> HIDE DEF cs
    <3> QED BY <1>0
  <2>3. world'.cards = cs /\ world'.signing = world.signing /\ world'.dns = world.dns
    <3> HIDE DEF w
    <3> QED BY <2>1, <2>2, ChangeWorld
  <2>4. ASSUME NEW t, NEW k, Signed(world, i, t, k) PROVE Known(world', i)
    <3>1. i \in DOMAIN world.cards /\ is_shadowname(i) /\ world.cards[i].body.pk = world.signing[i]
      BY SMTT(30), <2>4, CardFields DEF Signed
    <3>2. DOMAIN cs = DOMAIN world.cards
      OBVIOUS
    <3>3. CASE Publishes(i.domain, "k2")
      <4>1. cs[i] = build_signed_agent_card(world.signing[i], i.domain, "k2")
        BY <3>1, <3>3
      <4>2. "k2" \in Elements(t.pk)
        BY <2>4, <3>3 DEF Signed, Publishes
      <4>3. Signed(world', i, t, "k2")
        BY <2>3, <2>4, <3>2, <4>1, <4>2 DEF Signed
      <4> QED BY <4>3 DEF Known
    <3>4. CASE ~Publishes(i.domain, "k2")
      <4>1. cs[i] = world.cards[i]
        BY <3>1, <3>4
      <4>2. Signed(world', i, t, k)
        BY <2>3, <2>4, <3>2, <4>1 DEF Signed
      <4> QED BY <4>2 DEF Known
    <3> QED BY <3>3, <3>4
  <2> QED BY <2>3, <2>4 DEF Known
<1>3. CASE RetireKey
  <2>1. PICK d \in DOMAIN world.dns : \E u \in Parsed(world.dns[d]) :
           /\ \A n \in DOMAIN world.cards : is_shadowname(n) /\ n.domain = d =>
                  \A sig \in Elements(world.cards[n].signatures) : sig.key = "k2"
           /\ Change("retire", [world EXCEPT !.dns[d] = (world.dns[d] \ {u}) \cup
                                    {[u EXCEPT !.pk = <<"k2">>]}])
    BY <1>3 DEF RetireKey
  <2>2. PICK u \in Parsed(world.dns[d]) :
           /\ \A n \in DOMAIN world.cards : is_shadowname(n) /\ n.domain = d =>
                  \A sig \in Elements(world.cards[n].signatures) : sig.key = "k2"
           /\ Change("retire", [world EXCEPT !.dns[d] = (world.dns[d] \ {u}) \cup
                                    {[u EXCEPT !.pk = <<"k2">>]}])
    BY <2>1
  <2> DEFINE w == [world EXCEPT !.dns[d] = (world.dns[d] \ {u}) \cup {[u EXCEPT !.pk = <<"k2">>]}]
  <2>3. /\ DOMAIN w = DOMAIN world /\ w.cards = world.cards /\ w.signing = world.signing
        /\ w.dns = [world.dns EXCEPT ![d] = (world.dns[d] \ {u}) \cup {[u EXCEPT !.pk = <<"k2">>]}]
    BY <1>0
  <2>4. /\ world'.cards = world.cards /\ world'.signing = world.signing
        /\ world'.dns = [world.dns EXCEPT ![d] = (world.dns[d] \ {u}) \cup {[u EXCEPT !.pk = <<"k2">>]}]
    <3> HIDE DEF w
    <3>1. Change("retire", w)
      BY <2>2 DEF w
    <3> QED BY <2>3, <3>1, ChangeWorld
  <2>5. ASSUME NEW t, NEW k, Signed(world, i, t, k) PROVE Known(world', i)
    <3>1. ASSUME d = i.domain
          PROVE  /\ <<"k2">> \in Seq(Listed) /\ <<"k2">> # <<>>
                 /\ "malformed" \notin Elements(<<"k2">>) /\ k \in Elements(<<"k2">>)
      <4> DEFINE sig == Signature(Shadowname("shadownet", i.domain), k)
      <4>1. Elements(world.cards[i].signatures) = {sig}
        <5>1. world.cards[i] = build_signed_agent_card(world.signing[i], i.domain, k)
          BY <2>5 DEF Signed
        <5> QED BY SMTT(30), <5>1, CardFields
      <4>2. sig.key = k
        BY DEF Signature
      <4> HIDE DEF sig
      <4>3. k = "k2"
        BY <2>2, <2>5, <3>1, <4>1, <4>2 DEF Signed
      <4>4. Elements(<<"k2">>) = {"k2"} /\ <<"k2">> # <<>>
        <5>1. DOMAIN <<"k2">> = {1} /\ <<"k2">>[1] = "k2"
          BY SMTT(30)
        <5>2. DOMAIN <<>> = {}
          BY SMTT(30)
        <5> QED BY <5>1, <5>2 DEF Elements
      <4>5. "k2" \in Listed
        BY DeliveryAssumption DEF Listed
      <4> QED BY SMTT(30), <4>3, <4>4, <4>5
    <3>2. Rekeys(d, u, <<"k2">>)
      BY <2>1, <2>2, <2>4 DEF Rekeys
    <3>3. Keeps(i, k, d, <<"k2">>)
      BY <3>1 DEF Keeps
    <3>4. \E q : Signed(world', i, q, k)
      BY <2>5, <3>2, <3>3, Rekeyed
    <3> QED BY <3>4 DEF Known
  <2> QED BY <2>4, <2>5 DEF Known
<1>4. CASE RotateShadowKey
  <2>1. PICK n \in DOMAIN world.signing :
          /\ is_shadowname(n)
          /\ Change("rotate", [world EXCEPT !.signing[n] = "n2",
                                  !.cards[n] = build_signed_agent_card("n2", n.domain,
                                                   world.cards[n].signatures[1].key)])
    BY <1>4 DEF RotateShadowKey
  <2> DEFINE card == build_signed_agent_card("n2", n.domain, world.cards[n].signatures[1].key)
             w == [world EXCEPT !.signing[n] = "n2", !.cards[n] = card]
  <2>2. /\ DOMAIN w = DOMAIN world /\ w.dns = world.dns
        /\ w.signing = [world.signing EXCEPT ![n] = "n2"]
        /\ w.cards = [world.cards EXCEPT ![n] = card]
    <3> HIDE DEF card
    <3> QED BY <1>0
  <2>3. /\ world'.dns = world.dns
        /\ world'.signing = [world.signing EXCEPT ![n] = "n2"]
        /\ world'.cards = [world.cards EXCEPT ![n] = card]
    <3> HIDE DEF w
    <3>1. Change("rotate", w)
      BY <2>1 DEF w
    <3> QED BY <2>2, <3>1, ChangeWorld
  <2>4. ASSUME NEW t, NEW k, Signed(world, i, t, k) PROVE Known(world', i)
    <3>1. CASE n = i
      <4>1. card = build_signed_agent_card("n2", i.domain, k)
        BY SMTT(30), <2>4, <3>1, CardFields DEF Signed
      <4> HIDE DEF card
      <4>2. /\ world'.signing[i] = "n2" /\ world'.cards[i] = card /\ "n2" \in Keys
            /\ i \in DOMAIN world'.cards /\ i \in DOMAIN world'.signing
        BY <2>3, <2>4, <3>1, DeliveryAssumption DEF Signed
      <4>3. Signed(world', i, t, k)
        BY <2>3, <2>4, <4>1, <4>2 DEF Signed
      <4> QED BY <4>3 DEF Known
    <3>2. CASE n # i
      <4> HIDE DEF card
      <4>2. /\ world'.signing[i] = world.signing[i] /\ world'.cards[i] = world.cards[i]
            /\ i \in DOMAIN world'.cards /\ i \in DOMAIN world'.signing
        BY <2>3, <2>4, <3>2 DEF Signed
      <4>3. Signed(world', i, t, k)
        BY <2>3, <2>4, <4>2 DEF Signed
      <4> QED BY <4>3 DEF Known
    <3> QED BY <3>1, <3>2
  <2>5. ASSUME ~is_shadowname(i), i \in DOMAIN world.signing
        PROVE  i \in DOMAIN world'.signing /\ world'.signing[i] = world.signing[i]
    BY <2>1, <2>3, <2>5
  <2> QED BY <2>4, <2>5 DEF Known
<1>5. CASE RenewCert
  <2>1. PICK h \in DOMAIN world.certs : Change("renew", [world EXCEPT !.certs[h] = "c2"])
    BY <1>5 DEF RenewCert
  <2>2. world'.cards = world.cards /\ world'.signing = world.signing /\ world'.dns = world.dns
    BY SMTT(30), <1>0, <2>1, ChangeWorld
  <2>3. ASSUME NEW t, NEW k, Signed(world, i, t, k) PROVE Signed(world', i, t, k)
    BY <2>2, <2>3 DEF Signed
  <2> QED BY <2>2, <2>3 DEF Known
<1> QED BY <1>1, <1>2, <1>3, <1>4, <1>5 DEF Operator
-----------------------------------------------------------------------------
(* Signatures: an attempt during which nothing changed fits what the       *)
(* receiver finds published.                                               *)

StaysKnown == \A i : Published(setup.world, i) => Known(world, i)

\* No step but an operator's changes the world.
LEMMA WorldSteps ==
    ASSUME Typed, Next
    PROVE  world' = world \/ Operator
<1>1. ASSUME NEW s \in Sends, Quiet(s) \/ ReadOut(s) \/ \E m : Posted(s, m) PROVE world' = world
  BY <1>1 DEF Quiet, ReadOut, Posted
<1>2. ASSUME NEW r \in net, NEW q, Copied(r, q) \/ Resolved(r, q) PROVE world' = world
  BY <1>2 DEF Copied, Resolved
<1>3. ASSUME NEW r \in net, NEW c, NEW b, Answered(r, c, b) PROVE world' = world
  BY <1>3 DEF Answered
<1> QED BY Steps, <1>1, <1>2, <1>3 DEF Ticked

\* A published Shadow stays published.
LEMMA StaysKnownStep ==
    ASSUME Typed, StaysKnown, [Next]_vars
    PROVE  StaysKnown'
<1>1. CASE UNCHANGED vars
  BY <1>1 DEF vars, StaysKnown
<1>2. CASE Next
  <2>0. setup' = setup
    BY <1>2, SendsTypedStep
  <2> SUFFICES ASSUME NEW i, Published(setup.world, i) PROVE Known(world', i)
    BY <2>0 DEF StaysKnown
  <2>1. Known(world, i)
    BY DEF StaysKnown
  <2>2. CASE world' = world
    BY <2>1, <2>2
  <2>3. CASE Operator
    BY <2>1, <2>3, KnownStep
  <2> QED BY <1>2, <2>2, <2>3, WorldSteps
<1> QED BY <1>1, <1>2

\* What a request carries while its call waits and nothing changes.
Awaited(r) ==
    /\ ~r.copy /\ snd[r.send].pc = "waiting" /\ snd[r.send].n = r.n
    /\ ~snd[r.send].shaken /\ Call(r.send).defects = <<>>
Fits(r) ==
    /\ r.msg.key = world.signing[Call(r.send).from]
    /\ r.stage = "resolved" /\ ~is_public_key_identifier(Call(r.send).from) =>
           r.rec = Record(world.dns[Call(r.send).from.domain])
Fitting == \A r \in net : Awaited(r) => Fits(r)

\* Every step keeps that.
LEMMA FittingStep ==
    ASSUME Typed, Messages, Fitting, [Next]_vars
    PROVE  Fitting'
<1>1. CASE UNCHANGED vars
  BY <1>1 DEF vars, Fitting, Awaited, Fits, Call
<1>2. CASE Next
  <2>0. setup' = setup /\ \A r \in net : r.n \in Nat /\ r.n <= snd[r.send].n /\ r.send \in Sends
    BY <1>2, SendsTypedStep DEF Typed, RequestTyped
  <2>1. ASSUME NEW q \in net, world' = world, snd'[q.send].pc = snd[q.send].pc,
               snd'[q.send].n = snd[q.send].n, snd'[q.send].shaken = snd[q.send].shaken
        PROVE  Awaited(q)' => Fits(q)'
    BY <2>0, <2>1 DEF Fitting, Awaited, Fits, Call
  <2>2. ASSUME NEW q \in net, snd'[q.send].pc # "waiting" PROVE Awaited(q)' => Fits(q)'
    BY <2>2 DEF Awaited
  <2>3. ASSUME NEW s \in Sends, Quiet(s) \/ ReadOut(s) PROVE Fitting'
    <3> SUFFICES ASSUME NEW q \in net' PROVE Awaited(q)' => Fits(q)'
      BY DEF Fitting
    <3>1. q \in net /\ q.send \in Sends
      BY <2>0, <2>3 DEF Quiet, ReadOut
    <3>2. CASE q.send = s
      <4>1. snd'[q.send].pc # "waiting"
        BY <2>3, <3>2 DEF Quiet, ReadOut
      <4> QED BY <2>2, <3>1, <4>1
    <3>3. CASE q.send # s
      <4>1. snd'[q.send] = snd[q.send] /\ world' = world
        BY <2>3, <3>1, <3>3 DEF Quiet, ReadOut, Others
      <4> QED BY <2>1, <3>1, <4>1
    <3> QED BY <3>2, <3>3
  <2>4. ASSUME NEW s \in Sends, NEW m, Posted(s, m) PROVE Fitting'
    <3> SUFFICES ASSUME NEW q \in net' PROVE Awaited(q)' => Fits(q)'
      BY DEF Fitting
    <3>1. PICK p : /\ net' = net \cup {p} /\ p.send = s /\ p.n = snd[s].n + 1
                   /\ p.copy = FALSE /\ p.msg = m /\ p.stage = "sent"
      BY ZenonT(60), <2>4, PostedRequest
    <3>2. CASE q = p
      <4>1. Call(s).defects = <<>> => m.key = world.signing[Call(s).from]
        BY <2>4 DEF Posted
      <4>2. world' = world /\ Call(s)' = Call(s)
        BY <2>0, <2>4 DEF Posted, Call
      <4> QED BY <3>1, <3>2, <4>1, <4>2 DEF Awaited, Fits
    <3>3. CASE q \in net /\ q.send = s
      <4>1. snd'[s].n = snd[s].n + 1 /\ snd[s].n \in Nat /\ q.n \in Nat /\ q.n <= snd[s].n
        BY <2>0, <2>4, <3>3 DEF Posted, Typed, SendTyped
      <4>2. snd'[s].n # q.n
        BY SMTT(30), <4>1
      <4> QED BY <3>3, <4>2 DEF Awaited
    <3>4. CASE q \in net /\ q.send # s
      <4>1. snd'[q.send] = snd[q.send] /\ world' = world
        BY <2>0, <2>4, <3>4 DEF Posted, Others
      <4> QED BY <2>1, <3>4, <4>1
    <3> QED BY <3>1, <3>2, <3>3, <3>4
  <2>5. ASSUME NEW r \in net, NEW p, Copied(r, p) PROVE Fitting'
    <3> SUFFICES ASSUME NEW q \in net' PROVE Awaited(q)' => Fits(q)'
      BY DEF Fitting
    <3>1. CASE q = p
      BY <2>5, <3>1 DEF Copied, Awaited
    <3>2. CASE q \in net
      BY <2>1, <2>5, <3>2 DEF Copied
    <3> QED BY <2>5, <3>1, <3>2 DEF Copied
  <2>6. ASSUME NEW r \in net, NEW p, Resolved(r, p) PROVE Fitting'
    <3> SUFFICES ASSUME NEW q \in net' PROVE Awaited(q)' => Fits(q)'
      BY DEF Fitting
    <3>0. /\ p.send = r.send /\ p.n = r.n /\ p.copy = r.copy /\ p.msg = r.msg
          /\ world' = world /\ snd' = snd
          /\ ~is_public_key_identifier(r.msg.from.id) =>
                 p.rec = Record(world.dns[r.msg.from.id.domain])
      BY <2>6 DEF Resolved
    <3>1. CASE q = p
      <4> SUFFICES ASSUME Awaited(p)' PROVE Fits(p)'
        BY <3>1
      <4>1. Awaited(r)
        BY <2>0, <3>0 DEF Awaited, Call
      <4>2. Fits(r) /\ r.msg.from.id = Call(r.send).from
        BY <4>1 DEF Fitting, Messages, MessageOf, Awaited
      <4> QED BY <2>0, <3>0, <4>2 DEF Fits, Call
    <3>2. CASE q \in net
      BY <2>1, <3>0, <3>2
    <3> QED BY <2>6, <3>1, <3>2 DEF Resolved
  <2>7. ASSUME NEW r \in net, NEW c, NEW b, Answered(r, c, b) PROVE Fitting'
    <3> SUFFICES ASSUME NEW q \in net' PROVE Awaited(q)' => Fits(q)'
      BY DEF Fitting
    <3>0. q \in net /\ q.send \in Sends /\ r.send \in Sends /\ world' = world /\ AnswerTo(r, c, b)
      BY <2>0, <2>7 DEF Answered
    <3>1. CASE UNCHANGED snd
      BY <2>1, <3>0, <3>1
    <3>2. CASE q.send = r.send /\ Hears(r.send, r.n, c, b)
      BY <2>2, <3>0, <3>2 DEF Hears
    <3>3. CASE q.send = r.send /\ Loses(r.send, r.n)
      BY <2>1, <3>0, <3>3 DEF Loses
    <3>4. CASE q.send # r.send /\ (Hears(r.send, r.n, c, b) \/ Loses(r.send, r.n))
      <4>1. snd'[q.send] = snd[q.send]
        BY <3>0, <3>4 DEF Hears, Loses, Others
      <4> QED BY <2>1, <3>0, <4>1
    <3> QED BY <3>0, <3>1, <3>2, <3>3, <3>4 DEF AnswerTo
  <2>8. ASSUME Ticked PROVE Fitting'
    BY <2>1, <2>8 DEF Ticked, Fitting
  <2>9. ASSUME Turned PROVE Fitting'
    <3> SUFFICES ASSUME NEW q \in net' PROVE Awaited(q)' => Fits(q)'
      BY DEF Fitting
    <3>1. /\ q \in net /\ q.send \in Sends /\ snd'[q.send].pc = snd[q.send].pc
          /\ snd'[q.send].shaken = (snd[q.send].shaken \/ snd[q.send].pc = "waiting")
      BY <2>0, <2>9 DEF Turned
    <3> QED BY <3>1 DEF Awaited
  <2> QED BY <1>2, Steps, <2>3, <2>4, <2>5, <2>6, <2>7, <2>8, <2>9
<1> QED BY <1>1, <1>2

\* The receiver cannot fault the signature of such a request.
LEMMA FaultlessSignature ==
    ASSUME Typed, Messages, StaysKnown, Fitting, NEW r \in net, Awaited(r),
           Published(setup.world, Call(r.send).from)
    PROVE  ~SignatureCause(r, "signature", FALSE)
<1> DEFINE i == Call(r.send).from
           card == world.cards[i]
<1>1. Fits(r) /\ r.msg.from.id = i /\ Known(world, i)
  BY DEF Fitting, Messages, MessageOf, Awaited, StaysKnown
<1> SUFFICES ASSUME SignatureCause(r, "signature", FALSE) PROVE FALSE
  OBVIOUS
<1> HIDE DEF i
<1>2. /\ r.stage = "resolved"
      /\ IF is_public_key_identifier(i) THEN r.msg.key # i.key
         ELSE card = None \/ ~verify_agent_card(card, r.rec, i) \/ r.msg.key # card.body.pk
  BY <1>1 DEF SignatureCause
<1>3. r.msg.key = world.signing[i]
  BY <1>1 DEF Fits, i
<1>4. CASE is_public_key_identifier(i) /\ world.signing[i] = i.key
  BY <1>2, <1>3, <1>4
<1>5. ASSUME NEW t, NEW k, Signed(world, i, t, k) PROVE FALSE
  <2>1. r.rec = Record(world.dns[i.domain]) /\ Parsed(world.dns[i.domain]) = {t}
    BY <1>1, <1>2, <1>5 DEF Fits, Signed, i
  <2>2. r.rec = t
    BY <2>1 DEF Record
  <2>3. /\ card = build_signed_agent_card(world.signing[i], i.domain, k)
        /\ world.signing[i] \in Keys /\ k \in Elements(t.pk) /\ k \in Keys
    BY <1>5, SignerIsKey DEF Signed
  <2>4. card # None
    <3>1. i.domain \in DOMAIN setup.world.dns /\ setup \in Setups
      BY <1>5 DEF Published, Signed, Typed, i
    <3>2. build_signed_agent_card(world.signing[i], i.domain, k) # None
      BY <2>3, <3>1, SetupsAssumption
    <3> QED BY <2>3, <3>2
  <2>5. card.body.pk = world.signing[i]
    BY SMTT(30), <2>3, CardFields
  <2>6. verify_agent_card(card, r.rec, i)
    <3> DEFINE kid == Shadowname("shadownet", i.domain)
    <3>1. DOMAIN card.signatures = {1} /\ card.signatures[1] = Signature(kid, k)
      BY SMTT(30), <2>3, CardFields
    <3>2. VerifyOne(Signature(kid, k), t.pk, kid)
      BY <2>3 DEF VerifyOne, Signature
    <3>3. VerifySignatures(card, r.rec.pk, kid)
      BY <2>2, <3>1, <3>2 DEF VerifySignatures
    <3>4. WellFormedCard(card.body)
      <4>1. card.body = CardBody(world.signing[i])
        BY SMTT(30), <2>3 DEF build_signed_agent_card, SignedCard
      <4>2. world.signing[i] # None /\ world.signing[i] # "malformed"
        BY <2>3, DeliveryAssumption
      <4> QED BY SMTT(30), <4>1, <4>2 DEF CardBody, WellFormedCard
    <3> QED BY <3>3, <3>4 DEF verify_agent_card
  <2>7. ~is_public_key_identifier(i)
    BY <1>5 DEF Signed
  <2> QED BY <1>2, <1>3, <2>4, <2>5, <2>6, <2>7
<1> QED BY <1>1, <1>4, <1>5 DEF Known

\* A call that has heard, or ended with, a refused signature.
Blamed(s) == (snd[s].pc = "answered" /\ snd[s].code = "signature") \/ snd[s].out = "signature"
Shaken ==
    \A s \in Sends :
        Blamed(s) /\ Call(s).defects = <<>> /\ Published(setup.world, Call(s).from)
            => snd[s].shaken

\* Every step keeps it.
LEMMA ShakenStep ==
    ASSUME Typed, Messages, Verdicts, StaysKnown, Fitting, Shaken, [Next]_vars
    PROVE  Shaken'
<1>1. CASE UNCHANGED vars
  BY <1>1 DEF vars, Shaken, Blamed, Call
<1>2. CASE Next
  <2>0. setup' = setup
    BY <1>2, SendsTypedStep
  <2> SUFFICES ASSUME NEW t \in Sends, Blamed(t)', Call(t).defects = <<>>,
                      Published(setup.world, Call(t).from)
               PROVE  snd'[t].shaken
    BY <2>0 DEF Shaken, Call
  <2>1. CASE Stays(t)
    BY <2>1 DEF Stays, Shaken, Blamed
  <2>2. CASE Moves(t)
    BY <2>2 DEF Moves, Blamed, WireErrors
  <2>3. CASE ReadOut(t)
    <3>1. /\ snd[t].pc = "answered" /\ snd'[t].pc = "done" /\ snd'[t].shaken = snd[t].shaken
          /\ snd'[t].out \in {Outcome(t), "pin_mismatch"}
      BY <2>3 DEF ReadOut
    <3>2. Outcome(t) = "signature"
      BY <3>1 DEF Blamed
    <3>3. snd[t].code \in WireErrors \cup {"accepted", "raises"}
      BY <3>1 DEF Verdicts, Verdict
    <3>4. snd[t].code = "signature"
      BY <3>2, <3>3 DEF Outcome, Interpreted, WireErrors
    <3> QED BY <3>1, <3>4 DEF Shaken, Blamed
  <2>4. ASSUME NEW r \in net, NEW c, NEW b, Answered(r, c, b), Told(t, r, c, b),
               ~snd'[t].shaken
        PROVE  FALSE
    <3>1. /\ snd[t].pc = "waiting" /\ snd[t].n = r.n /\ r.send = t /\ ~r.copy
          /\ snd'[t].code = c /\ snd'[t].out = None
          /\ snd'[t].shaken = (snd[t].shaken \/ b)
      BY <2>4 DEF Told, Hears, Typed, SendTyped
    <3>2. c = "signature"
      BY <3>1, NoneIsNoOutcome DEF Blamed, Outcomes, WireErrors
    <3>3. Awaited(r) /\ b = FALSE
      BY <2>4, <3>1 DEF Awaited, Answered, Typed, SendTyped
    <3>4. SignatureCause(r, "signature", FALSE)
      BY <2>4, <3>2, <3>3 DEF Answered
    <3> QED BY <3>1, <3>3, <3>4, FaultlessSignature
  <2> QED BY <1>2, Fates, <2>1, <2>2, <2>3, <2>4
<1> QED BY <1>1, <1>2
-----------------------------------------------------------------------------
(* Pins, for which no invariant is needed.                                  *)

\* A certificate that fits leaves every recorded pin alone.
LEMMA RecordPinKeeps ==
    ASSUME NEW s, NEW c, PinMatches(s, c), NEW h \in DOMAIN pins, pins[h] # None
    PROVE  RecordPin(s, c)[h] = pins[h]
<1> DEFINE a == Address(s)
<1>1. CASE a.pin # None
  BY <1>1 DEF RecordPin
<1>2. CASE a.pin = None
  <2>1. pins[a.host] \in {None, c} /\ RecordPin(s, c) = [pins EXCEPT ![a.host] = c]
    BY <1>2 DEF PinMatches, RecordPin
  <2> HIDE DEF a
  <2>2. CASE h = a.host
    BY <2>1, <2>2
  <2>3. CASE h # a.host
    BY <2>1, <2>3
  <2> QED BY <2>2, <2>3
<1> QED BY <1>1, <1>2

\* Every step keeps the recorded pins.
LEMMA PinsStep ==
    ASSUME [Next]_vars
    PROVE  [\A h \in DOMAIN pins : pins[h] # None => pins'[h] = pins[h]]_pins
<1>1. CASE UNCHANGED vars
  BY <1>1 DEF vars
<1>2. ASSUME NEW s \in Sends, FetchDirectCard(s)
      PROVE  pins' = pins \/ \E c : PinMatches(s, c) /\ pins' = RecordPin(s, c)
  BY <1>2 DEF FetchDirectCard
<1>3. ASSUME NEW s \in Sends, ReadPinnedAnswer(s)
      PROVE  pins' = pins \/ \E c : PinMatches(s, c) /\ pins' = RecordPin(s, c)
  BY <1>3 DEF ReadPinnedAnswer
<1>4. ASSUME NEW s \in Sends, SendStep(s), ~FetchDirectCard(s), ~ReadPinnedAnswer(s)
      PROVE  pins' = pins
  BY <1>4 DEF SendStep, Start, LookupProvider, FetchCard, Post, ReadAnswer, TransportFails, Wake
<1>5. ASSUME NEW r \in net, Duplicate(r) \/ Resolve(r) \/ Decide(r) PROVE pins' = pins
  BY <1>5 DEF Duplicate, Resolve, Decide, Admit
<1>6. ASSUME Tick \/ Operator PROVE pins' = pins
  BY <1>6 DEF Tick, Operator, PublishKey, ResignCards, RetireKey, RotateShadowKey, RenewCert, Change
<1>7. ASSUME Next
      PROVE  pins' = pins \/ \E s, c : PinMatches(s, c) /\ pins' = RecordPin(s, c)
  BY <1>2, <1>3, <1>4, <1>5, <1>6, <1>7 DEF Next
<1> QED BY <1>1, <1>7, RecordPinKeeps
-----------------------------------------------------------------------------
(* Together.                                                                *)

IInv ==
    /\ Typed /\ Clocked /\ LostSent /\ Messages /\ Replays /\ Verdicts /\ AcceptedOnce
    /\ StaysKnown /\ Fitting /\ Shaken

\* It holds when nothing has been sent.
LEMMA IInvInit ==
    ASSUME Init
    PROVE  IInv
<1>1. Typed /\ Clocked
  BY TypedInit, ClockedInit
<1>2. /\ net = {} /\ world = setup.world /\ setup \in Setups
      /\ box = [replay |-> {}, cached |-> setup.cached, contacts |-> setup.contacts, decided |-> {}]
      /\ snd = [s \in Sends |-> IF s \in DOMAIN setup.calls THEN Idle
                                ELSE [Idle EXCEPT !.pc = "done"]]
  BY DEF Init
<1>3. box.replay = {} /\ box.decided = {}
  BY <1>2
<1>4. ASSUME NEW s \in Sends
      PROVE  snd[s].pc \in {"idle", "done"} /\ snd[s].out = None /\ snd[s].lost = {} /\ snd[s].n = 0
  BY <1>2 DEF Idle
<1>5. None \notin WireErrors \cup {"accepted"}
  BY NoneIsNoOutcome DEF Outcomes
<1>7. LostSent
  BY <1>4 DEF LostSent
<1>8. Messages /\ Fitting /\ Replays
  BY <1>2, <1>3 DEF Messages, Fitting, Replays
<1>9. Verdicts
  BY <1>4, <1>5 DEF Verdicts, Verdict, WireErrors
<1>10. AcceptedOnce
  BY <1>3 DEF AcceptedOnce, Accepted
<1>11. StaysKnown
  BY <1>2, PublishedIsKnown DEF StaysKnown
<1>12. Shaken
  BY <1>4, <1>5 DEF Shaken, Blamed, WireErrors
<1> QED BY <1>1, <1>7, <1>8, <1>9, <1>10, <1>11, <1>12 DEF IInv

\* Every step keeps it.
LEMMA IInvStep ==
    ASSUME IInv, [Next]_vars
    PROVE  IInv'
<1>0. /\ Typed /\ Clocked /\ LostSent /\ Messages /\ Replays /\ Verdicts /\ AcceptedOnce
      /\ StaysKnown /\ Fitting /\ Shaken
  BY DEF IInv
<1>1. Typed'
  BY <1>0, TypedStep
<1>2. Messages'
  BY <1>0, MessagesStep
<1>3. Clocked' /\ LostSent'
  BY <1>0, ClockedStep, LostSentStep
<1>4. Replays' /\ Verdicts' /\ AcceptedOnce'
  BY <1>0, <1>1, <1>2, ReplaysStep, VerdictsStep, AcceptedOnceStep
<1>5. StaysKnown' /\ Fitting' /\ Shaken'
  BY <1>0, StaysKnownStep, FittingStep, ShakenStep
<1> QED BY <1>1, <1>2, <1>3, <1>4, <1>5 DEF IInv

\* IInv is an invariant of the delivery of messages.
LEMMA Invariant == Spec => []IInv
<1>1. Init => IInv
  BY IInvInit
<1>2. IInv /\ [Next]_vars => IInv'
  BY IInvStep
<1> QED BY <1>1, <1>2, PTL DEF Spec

\* Calls and requests have their types, whatever the setup.
THEOREM Typing == Spec => []TypeOK
<1>1. ASSUME IInv PROVE TypeOK
  <2>1. ASSUME NEW r \in net PROVE r.n \in 1 .. snd[r.send].n
    BY SMTT(30), <1>1, <2>1 DEF IInv, Typed, SendTyped, RequestTyped
  <2> QED BY <1>1, <2>1 DEF IInv, Typed, SendTyped, RequestTyped, LostSent, TypeOK, Pcs
<1> QED BY <1>1, Invariant, PTL

\* Retrying delivers at least once and no attempt twice: send_with_retries and
\* the replay cache of ReceiverPipeline.receive together, for every network
\* that loses, delays or duplicates, every budget and every retention longer
\* than an envelope lives.
THEOREM AtLeastOnce == Spec => []CopiesExplained
<1>1. ASSUME IInv PROVE CopiesExplained
  <2>1. ASSUME NEW s \in Sends, snd[s].out = "accepted" PROVE \E a \in Accepted(s) : a.n = snd[s].n
    BY SMTT(30), <1>1, <2>1 DEF IInv, Verdicts, Verdict, Accepted
  <2> QED BY <1>1, <2>1 DEF IInv, Replays, AcceptedOnce, CopiesExplained
<1> QED BY <1>1, Invariant, PTL

\* A retry is never refused as the replay of an earlier attempt: each has a
\* messageId of its own, and only a copy of the same attempt can have used it.
THEOREM RetriesNew == Spec => []RetriesAreNew
<1>1. ASSUME IInv PROVE RetriesAreNew
  BY <1>1 DEF IInv, Verdicts, Verdict, RetriesAreNew
<1> QED BY <1>1, Invariant, PTL

\* No attempt of send_with_retries starts after its budget, for every delay,
\* jitter and Retry-After.
THEOREM Budgeted == Spec => []AttemptsInBudget
<1>1. ASSUME IInv PROVE AttemptsInBudget
  BY <1>1 DEF IInv, Clocked, InBudget, AttemptsInBudget
<1> QED BY <1>1, Invariant, PTL

\* A published Shadow's own message is refused for its signature only if
\* something changed, or a lookup failed, while it was under way: whatever the
\* operators publish, re-sign, rotate or retire, in whichever order.
THEOREM Genuine == Spec => []GenuineNotRefused
<1>1. ASSUME IInv PROVE GenuineNotRefused
  BY <1>1 DEF IInv, Shaken, Blamed, GenuineNotRefused
<1> QED BY <1>1, Invariant, PTL

\* The sender's exception is the receiver's verdict, for every code and every
\* way the answer took.
THEOREM VerdictLearnt == Spec => []SenderLearnsVerdict
<1>1. ASSUME IInv PROVE SenderLearnsVerdict
  BY ZenonT(60), <1>1 DEF IInv, Verdicts, Verdict, SenderLearnsVerdict
<1> QED BY <1>1, Invariant, PTL

\* A pin recorded on first use is never replaced, however the certificates
\* change and whoever connects (verify_tls_pin).
THEOREM PinsStay == Spec => PinStable
<1>1. [Next]_vars => [\A h \in DOMAIN pins : pins[h] # None => pins'[h] = pins[h]]_pins
  BY PinsStep
<1> QED BY <1>1, PTL DEF Spec, PinStable
=============================================================================
