------------------------- MODULE CoordinationProofs -------------------------
(***************************************************************************)
(* Proofs about Coordination, for any number of agents, plans and events,  *)
(* and any cooldowns.                                                      *)
(***************************************************************************)
EXTENDS Coordination, SequenceTheorems, TLAPS

USE Zenon, SMTT(10)

LogEntry == [key : DedupKeys, at : Nat]

\* The ids an adapter or an agent has in hand are ids of its sidecar's events.
Ids(p) == 1 .. Len(events[p])
Within ==
    \A p \in Agents :
        /\ batch[p] \in Seq(Ids(p)) /\ cursor[p] <= Len(events[p])
        /\ todo[p] \subseteq Ids(p) /\ told[p] \subseteq Ids(p)

BaseInv == TypeOK /\ Within

\* The event at hand is one of the sidecar's.
LEMMA AtHand ==
    ASSUME BaseInv, NEW p \in Agents, Ready(p)
    PROVE  /\ Head(batch[p]) \in Ids(p) /\ Tail(batch[p]) \in Seq(Ids(p)) /\ At(p) \in Events
           /\ Ids(p) \subseteq Nat
<1>1. batch[p] \in Seq(Ids(p)) /\ batch[p] # <<>> /\ events[p] \in Seq(Events)
  BY DEF BaseInv, TypeOK, Within, Ready
<1>2. Head(batch[p]) \in Ids(p) /\ Tail(batch[p]) \in Seq(Ids(p))
  BY <1>1, HeadTailProperties
<1>3. events[p][Head(batch[p])] \in Events
  BY <1>1, <1>2, ElementOfSeq DEF Ids
<1>4. Ids(p) \subseteq Nat
  BY <1>1, LenProperties DEF Ids
<1> QED BY <1>2, <1>3, <1>4 DEF At

\* An event that an agent has not acted on is one of its sidecar's.
LEMMA ToDo ==
    ASSUME BaseInv, NEW p \in Agents, NEW i \in todo[p]
    PROVE  i \in Ids(p) /\ events[p][i] \in Events
<1>1. i \in Ids(p) /\ events[p] \in Seq(Events)
  BY DEF BaseInv, TypeOK, Within
<1> QED BY <1>1, ElementOfSeq DEF Ids

\* Messages, task updates and the rest can be told apart by what they say.
LEMMA EventKinds ==
    ASSUME NEW e \in Events
    PROVE  /\ e.from \in Agents
           /\ e.what \in Intents \cup {"text"} =>
                  e.name = "inbox.message" /\ e.ctx \in Contexts
           /\ e.name = "task.update" /\ e.ctx # NoContext => e.ctx \in Contexts /\ e.what \in Statuses
BY CoordinationAssumption DEF Events, Intents

\* The key of an event that is deduplicated is a key.
LEMMA DedupKeyTyped ==
    ASSUME NEW e \in Events,
           \/ e.name = "task.update" /\ e.ctx # NoContext
           \/ e.what \in Intents
    PROVE  DedupKey(e) \in DedupKeys
<1>1. CASE e.name = "task.update" /\ e.ctx # NoContext
  BY <1>1, EventKinds DEF DedupKey, DedupKeys
<1>2. CASE e.what \in Intents
  BY <1>2, EventKinds DEF DedupKey, DedupKeys
<1> QED BY <1>1, <1>2

\* Windows are natural numbers, and the keys of a table have one window.
LEMMA Windows ==
    /\ \A k \in DedupKeys : Window(k) \in Nat
    /\ \A k, l \in DedupKeys : SameTable(k, l) => Window(l) = Window(k)
BY CoordinationAssumption DEF Window, SameTable

\* Stamping a key evicts entries that are older than twice their window only.
LEMMA StampedProperties ==
    ASSUME NEW s \in [DedupKeys -> Nat \cup {None}], NEW k \in DedupKeys, now \in Nat
    PROVE  /\ Stamped(s, k) \in [DedupKeys -> Nat \cup {None}]
           /\ Stamped(s, k)[k] = now
           /\ \A l \in DedupKeys \ {k} :
                 \/ Stamped(s, k)[l] = s[l]
                 \/ s[l] # None /\ now - s[l] > 2 * Window(l)
<1> DEFINE t == [s EXCEPT ![k] = now]
           w == 2 * Window(k)
           v == Evicted(t, w)
<1>1. /\ t \in [DedupKeys -> Nat \cup {None}] /\ t[k] = now
      /\ \A l \in DedupKeys \ {k} : t[l] = s[l]
  OBVIOUS
<1>2. w \in Nat
  <2>1. Window(k) \in Nat
    BY Windows
  <2> QED BY <2>1
<1>3. Stamped(s, k) = [l \in DedupKeys |-> IF SameTable(k, l) THEN v[l] ELSE t[l]]
  BY DEF Stamped
<1> HIDE DEF t, w
<1>4. \A l \in DedupKeys : v[l] = IF t[l] # None /\ now - t[l] > w THEN None ELSE t[l]
  BY <1>1 DEF Evicted
<1> HIDE DEF v
<1>5. v[k] = now
  BY <1>1, <1>2, <1>4
<1>6. \A l \in DedupKeys : v[l] \in Nat \cup {None}
  BY <1>1, <1>4
<1>7. \A l \in DedupKeys \ {k} : SameTable(k, l) => v[l] = s[l] \/ (s[l] # None /\ now - s[l] > w)
  BY <1>1, <1>4
<1>8. \A l \in DedupKeys : SameTable(k, l) => w = 2 * Window(l)
  BY Windows DEF w
<1> QED BY <1>1, <1>3, <1>5, <1>6, <1>7, <1>8

-----------------------------------------------------------------------------
(* What the steps do, one group of variables at a time.                    *)

\* What p's adapter remembers and logs: nothing new, or one key that was not
\* too soon, which is logged if something was sent or injected.
Stamps(p) ==
    \/ UNCHANGED <<stamps, log>>
    \/ \E k \in DedupKeys :
          /\ ~TooSoon(p, k)
          /\ stamps' = [stamps EXCEPT ![p] = Stamped(stamps[p], k)]
          /\ \/ UNCHANGED log
             \/ log' = [log EXCEPT ![p] = Append(@, [key |-> k, at |-> now])]

\* What reaches a chat of p: the event at hand, or nothing.
Tells(p) ==
    \/ UNCHANGED <<told, todo>>
    \/ /\ told' = [told EXCEPT ![p] = @ \cup {Head(batch[p])}]
       /\ todo' = [todo EXCEPT ![p] = @ \cup {Head(batch[p])}]

Dispatch(p) == InjectTaskUpdate(p) \/ InjectCoordination(p) \/ InjectFreeForm(p)
               \/ SurfaceInbound(p) \/ IgnoreEvent(p)

\* A dispatched event is stamped and told as above, and the loop moves on.
LEMMA DispatchSteps ==
    ASSUME BaseInv, NEW p \in Agents, Dispatch(p)
    PROVE  Ready(p) /\ Stamps(p) /\ Tells(p) /\ NextEvent(p)
<1>0. /\ Ready(p) /\ At(p) \in Events /\ NextEvent(p)
  BY AtHand DEF Dispatch, InjectTaskUpdate, InjectCoordination, InjectFreeForm, SurfaceInbound,
                IgnoreEvent
<1>1. ASSUME Drop, UNCHANGED stamps PROVE Stamps(p) /\ Tells(p)
  BY <1>1 DEF Drop, Stamps, Tells
<1>2. ASSUME NEW k \in DedupKeys, InjectOnce(p, k) PROVE Stamps(p) /\ Tells(p)
  <2>1. CASE TooSoon(p, k)
    BY <1>1, <1>2, <2>1 DEF InjectOnce
  <2>2. CASE ~TooSoon(p, k)
    <3>1. /\ stamps' = [stamps EXCEPT ![p] = Stamped(stamps[p], k)]
          /\ Drop \/ HandleMessage(p, <<[key |-> k, at |-> now]>>)
      BY <1>2, <2>2 DEF InjectOnce
    <3>2. CASE Drop
      BY <2>2, <3>1, <3>2 DEF Drop, Stamps, Tells
    <3>3. CASE HandleMessage(p, <<[key |-> k, at |-> now]>>)
      <4> DEFINE entry == [key |-> k, at |-> now]
      <4>1. log[p] \in Seq(LogEntry) /\ entry \in LogEntry
        BY DEF BaseInv, TypeOK, LogEntry
      <4>2. log[p] \o <<entry>> = Append(log[p], entry)
        BY <4>1, AppendIsConcat
      <4> HIDE DEF entry
      <4>3. \/ UNCHANGED <<told, todo, log>>
            \/ /\ told' = [told EXCEPT ![p] = @ \cup {Head(batch[p])}]
               /\ todo' = [todo EXCEPT ![p] = @ \cup {Head(batch[p])}]
               /\ log' = [log EXCEPT ![p] = @ \o <<entry>>]
        BY <3>3 DEF HandleMessage, entry
      <4>4. \/ UNCHANGED <<told, todo, log>>
            \/ /\ told' = [told EXCEPT ![p] = @ \cup {Head(batch[p])}]
               /\ todo' = [todo EXCEPT ![p] = @ \cup {Head(batch[p])}]
               /\ log' = [log EXCEPT ![p] = Append(@, entry)]
        BY <4>2, <4>3
      <4> QED BY <2>2, <3>1, <4>4 DEF Stamps, Tells, entry
    <3> QED BY <3>1, <3>2, <3>3
  <2> QED BY <2>1, <2>2
<1>3. ASSUME HandleMessage(p, <<>>), UNCHANGED stamps PROVE Stamps(p) /\ Tells(p)
  <2>1. log[p] \o <<>> = log[p] /\ log = [log EXCEPT ![p] = log[p]]
    BY ConcatEmptySeq DEF BaseInv, TypeOK
  <2> QED BY <1>3, <2>1 DEF HandleMessage, Stamps, Tells
<1>4. CASE InjectTaskUpdate(p)
  BY <1>0, <1>1, <1>2, <1>4, DedupKeyTyped DEF InjectTaskUpdate
<1>5. CASE InjectCoordination(p)
  BY <1>0, <1>1, <1>2, <1>5, DedupKeyTyped DEF InjectCoordination
<1>6. CASE InjectFreeForm(p) \/ SurfaceInbound(p) \/ IgnoreEvent(p)
  BY <1>1, <1>3, <1>6 DEF InjectFreeForm, SurfaceInbound, IgnoreEvent
<1> QED BY <1>0, <1>4, <1>5, <1>6 DEF Dispatch

\* A message p sends is appended to the events of q, or lost.
Message(p, x, what) == [name |-> "inbox.message", from |-> p, ctx |-> x, what |-> what]

\* The sidecars' event logs only grow.
Grows ==
    /\ events' \in [Agents -> Seq(Events)]
    /\ \A a \in Agents : /\ Len(events[a]) <= Len(events'[a])
                         /\ \A i \in Ids(a) : events'[a][i] = events[a][i]

\* An event appended to one log lets the logs grow.
LEMMA AppendGrows ==
    ASSUME BaseInv, NEW q \in Agents, NEW e \in Events,
           events' = [events EXCEPT ![q] = Append(@, e)]
    PROVE  /\ Grows
           /\ \A a \in Agents : \A i \in 1 .. Len(events'[a]) :
                 i \in Ids(a) \/ (a = q /\ events'[a][i] = e)
<1>1. events[q] \in Seq(Events) /\ events \in [Agents -> Seq(Events)]
  BY DEF BaseInv, TypeOK
<1>2. /\ Append(events[q], e) \in Seq(Events) /\ Len(Append(events[q], e)) = Len(events[q]) + 1
      /\ \A i \in 1 .. Len(events[q]) : Append(events[q], e)[i] = events[q][i]
      /\ Append(events[q], e)[Len(events[q]) + 1] = e
  BY <1>1, AppendProperties
<1>3. events'[q] = Append(events[q], e) /\ \A a \in Agents \ {q} : events'[a] = events[a]
  BY <1>1
<1>4. events' \in [Agents -> Seq(Events)]
  BY <1>1, <1>2
<1>5. \A a \in Agents : Len(events[a]) \in Nat
  BY <1>1, LenProperties
<1>6. \A a \in Agents : /\ Len(events[a]) <= Len(events'[a])
                        /\ \A i \in Ids(a) : events'[a][i] = events[a][i]
  BY <1>2, <1>3, <1>5 DEF Ids
<1>7. \A a \in Agents : \A i \in 1 .. Len(events'[a]) :
          i \in Ids(a) \/ (a = q /\ events'[a][i] = e)
  BY <1>2, <1>3, <1>5 DEF Ids
<1> QED BY <1>4, <1>6, <1>7 DEF Grows

\* So does a log nobody appends to.
LEMMA SameGrows ==
    ASSUME BaseInv, UNCHANGED events
    PROVE  Grows /\ \A a \in Agents : \A i \in 1 .. Len(events'[a]) : i \in Ids(a)
<1>1. \A a \in Agents : Len(events[a]) \in Nat
  BY LenProperties DEF BaseInv, TypeOK
<1> QED BY <1>1 DEF BaseInv, TypeOK, Grows, Ids

\* What an adapter has in hand stays within logs that grow.
LEMMA GrowthKeepsWithin ==
    ASSUME BaseInv, Grows, UNCHANGED <<batch, cursor, told>>,
           \A a \in Agents : todo'[a] \subseteq todo[a]
    PROVE  Within'
<1> SUFFICES ASSUME NEW a \in Agents
             PROVE  /\ batch'[a] \in Seq(Ids(a)') /\ cursor'[a] <= Len(events'[a])
                    /\ todo'[a] \subseteq Ids(a)' /\ told'[a] \subseteq Ids(a)'
  BY DEF Within
<1>1. Len(events[a]) \in Nat /\ Len(events'[a]) \in Nat /\ Len(events[a]) <= Len(events'[a])
  BY LenProperties DEF BaseInv, TypeOK, Grows
<1>2. Ids(a) \subseteq Ids(a)'
  BY <1>1 DEF Ids
<1>3. batch[a] \in Seq(Ids(a)')
  BY <1>2, SeqMonotonic DEF BaseInv, Within
<1>4. cursor[a] \in Nat /\ cursor[a] <= Len(events[a])
  BY DEF BaseInv, TypeOK, Within
<1> QED BY <1>1, <1>2, <1>3, <1>4 DEF BaseInv, Within

-----------------------------------------------------------------------------
(* The agents.                                                             *)

\* Who confirms has agreed, and when a plan is accepted both sides have.
EventsAgreed ==
    \A p \in Agents : \A i \in Ids(p) :
        /\ events[p][i].what = "confirm" => events[p][i].from \in agreed[events[p][i].ctx]
        /\ events[p][i].what = "accept" => {p, events[p][i].from} \subseteq agreed[events[p][i].ctx]

\* Nobody's agreement is withdrawn.
AgreementGrows ==
    /\ agreed' \in [Contexts -> SUBSET Agents]
    /\ \A x \in Contexts : agreed[x] \subseteq agreed'[x]

\* Events that are agreed on stay so.
LEMMA AgreedStays ==
    ASSUME BaseInv, EventsAgreed, Grows, AgreementGrows, NEW a \in Agents, NEW i \in Ids(a)
    PROVE  LET e == events'[a][i]
           IN  /\ e.what = "confirm" => e.from \in agreed'[e.ctx]
               /\ e.what = "accept" => {a, e.from} \subseteq agreed'[e.ctx]
<1>1. events'[a][i] = events[a][i]
  BY DEF Grows
<1>2. events[a][i] \in Events
  BY ElementOfSeq DEF BaseInv, TypeOK, Ids
<1>3. events[a][i].what \in {"confirm", "accept"} => events[a][i].ctx \in Contexts
  BY <1>2, EventKinds DEF Intents
<1> QED BY <1>1, <1>3 DEF EventsAgreed, AgreementGrows

\* A message that is appended, or lost, is one its sender may send.
LEMMA DeliverKeeps ==
    ASSUME BaseInv, NEW p \in Agents, NEW q \in Agents, NEW x \in Contexts,
           NEW what \in Intents \cup {"text"}, Deliver(p, q, x, what), AgreementGrows,
           EventsAgreed => /\ what = "confirm" => p \in agreed'[x]
                           /\ what = "accept" => {p, q} \subseteq agreed'[x]
    PROVE  Grows /\ (EventsAgreed => EventsAgreed')
<1> DEFINE e == Message(p, x, what)
<1>1. CASE UNCHANGED events
  <2>1. Grows /\ \A a \in Agents : \A i \in 1 .. Len(events'[a]) : i \in Ids(a)
    BY <1>1, SameGrows
  <2> QED BY <2>1, AgreedStays DEF EventsAgreed, Ids
<1>2. CASE events' = [events EXCEPT ![q] = Append(@, e)]
  <2>1. e \in Events /\ e.what = what /\ e.from = p /\ e.ctx = x
    BY DEF Message, Events
  <2> HIDE DEF e
  <2>2. Grows /\ \A a \in Agents : \A i \in 1 .. Len(events'[a]) :
                    i \in Ids(a) \/ (a = q /\ events'[a][i] = e)
    BY <1>2, <2>1, AppendGrows
  <2>3. ASSUME EventsAgreed PROVE EventsAgreed'
    <3> SUFFICES ASSUME NEW a \in Agents, NEW i \in 1 .. Len(events'[a])
                 PROVE  /\ events'[a][i].what = "confirm" =>
                               events'[a][i].from \in agreed'[events'[a][i].ctx]
                        /\ events'[a][i].what = "accept" =>
                               {a, events'[a][i].from} \subseteq agreed'[events'[a][i].ctx]
      BY DEF EventsAgreed, Ids
    <3>1. CASE i \in Ids(a)
      BY <2>2, <2>3, <3>1, AgreedStays
    <3>2. CASE a = q /\ events'[a][i] = e
      BY <2>1, <2>3, <3>2
    <3> QED BY <2>2, <3>1, <3>2
  <2> QED BY <2>2, <2>3
<1> QED BY <1>1, <1>2 DEF Deliver, Message

\* What a step of an agent or of its user leaves alone or lets grow.
AgentStep(p) ==
    /\ UNCHANGED <<now, setup, loop, restarts, told>>
    /\ Grows /\ AgreementGrows /\ Stamps(p)
    /\ todo' \in [Agents -> SUBSET Nat] /\ \A a \in Agents : todo'[a] \subseteq todo[a]
    /\ EventsAgreed => EventsAgreed'

\* Agreement that nobody changes grows.
LEMMA AgreementSame == BaseInv /\ UNCHANGED agreed => AgreementGrows
BY DEF BaseInv, TypeOK, AgreementGrows

\* Dropping an id from what is to do leaves less to do.
LEMMA LessToDo ==
    ASSUME BaseInv, NEW p \in Agents, NEW i, todo' = [todo EXCEPT ![p] = @ \ {i}]
    PROVE  todo' \in [Agents -> SUBSET Nat] /\ \A a \in Agents : todo'[a] \subseteq todo[a]
BY DEF BaseInv, TypeOK

\* Events that nobody adds to stay agreed on.
LEMMA SameAgreed ==
    ASSUME BaseInv, UNCHANGED events, AgreementGrows
    PROVE  Grows /\ (EventsAgreed => EventsAgreed')
<1>1. Grows /\ \A a \in Agents : \A i \in 1 .. Len(events'[a]) : i \in Ids(a)
  BY SameGrows
<1> QED BY <1>1, AgreedStays DEF EventsAgreed, Ids

\* The agent that follows an instruction sends the next message of the flow,
\* after its user has said yes where the instruction asks for it.
LEMMA FollowSteps ==
    ASSUME BaseInv, NEW p \in Agents, FollowInstruction(p)
    PROVE  AgentStep(p)
<1>1. PICK i \in todo[p] :
          LET e == events[p][i]
              do == Instruction(e.what)
          IN  /\ e.what \in Intents
              /\ todo' = [todo EXCEPT ![p] = @ \ {i}]
              /\ IF do.ask THEN agreed' = [agreed EXCEPT ![e.ctx] = @ \cup {p}]
                 ELSE UNCHANGED agreed
              /\ IF do.reply = "none" THEN UNCHANGED events
                 ELSE Deliver(p, e.from, e.ctx, do.reply)
  BY DEF FollowInstruction
<1> DEFINE e == events[p][i]
           do == Instruction(e.what)
<1>2. i \in Ids(p) /\ e \in Events
  BY ToDo
<1>3. e.from \in Agents /\ e.ctx \in Contexts
  BY <1>1, <1>2, EventKinds
<1>4. AgreementGrows /\ (do.ask => p \in agreed'[e.ctx])
  <2>1. agreed \in [Contexts -> SUBSET Agents]
    BY DEF BaseInv, TypeOK
  <2>2. CASE do.ask
    <3>1. agreed' = [agreed EXCEPT ![e.ctx] = @ \cup {p}]
      BY <1>1, <2>2
    <3> HIDE DEF e, do
    <3> QED BY <1>3, <2>1, <3>1 DEF AgreementGrows
  <2>3. CASE ~do.ask
    BY <1>1, <2>3, AgreementSame
  <2> QED BY <2>2, <2>3
<1>5. \/ e.what = "coordinate" /\ do.reply = "propose"
      \/ e.what = "propose" /\ do.ask /\ do.reply = "confirm"
      \/ e.what = "confirm" /\ do.ask /\ do.reply = "accept"
      \/ e.what = "accept" /\ do.reply = "none"
  BY <1>1 DEF Intents, Instruction
<1>6. Grows /\ (EventsAgreed => EventsAgreed')
  <2>1. CASE do.reply = "none"
    BY <1>1, <1>4, <2>1, SameAgreed
  <2>2. CASE do.reply # "none"
    <3>1. do.reply \in Intents \cup {"text"} /\ Deliver(p, e.from, e.ctx, do.reply)
      BY <1>1, <1>5, <2>2 DEF Intents
    <3>2. do.reply = "confirm" => p \in agreed'[e.ctx]
      BY <1>4, <1>5
    <3>3. EventsAgreed /\ do.reply = "accept" => {p, e.from} \subseteq agreed'[e.ctx]
      BY <1>2, <1>3, <1>4, <1>5 DEF EventsAgreed, AgreementGrows
    <3> HIDE DEF e, do
    <3> QED BY <1>3, <1>4, <3>1, <3>2, <3>3, DeliverKeeps
  <2> QED BY <2>1, <2>2
<1>7. todo' \in [Agents -> SUBSET Nat] /\ \A a \in Agents : todo'[a] \subseteq todo[a]
  BY <1>1, LessToDo
<1>8. UNCHANGED <<now, setup, loop, restarts, told, stamps, log>>
  BY DEF FollowInstruction
<1> QED BY <1>4, <1>6, <1>7, <1>8 DEF AgentStep, Stamps

\* send: the cooldown starts before the call, whatever becomes of the call.
LEMMA SendSteps ==
    ASSUME BaseInv, NEW p \in Agents, Send(p)
    PROVE  AgentStep(p)
<1>1. PICK i \in todo[p] :
          LET q == events[p][i].from
              k == <<"send", q>>
          IN  /\ events[p][i].what = "text" /\ setup.notify[p] = "none"
              /\ todo' = [todo EXCEPT ![p] = @ \ {i}]
              /\ \/ TooSoon(p, k) /\ UNCHANGED <<stamps, events, log>>
                 \/ /\ ~TooSoon(p, k)
                    /\ stamps' = [stamps EXCEPT ![p] = Stamped(stamps[p], k)]
                    /\ IF conn[p] = "up" THEN Deliver(p, q, events[p][i].ctx, "text")
                       ELSE UNCHANGED events
                    /\ log' = [log EXCEPT ![p] = Append(@, [key |-> k, at |-> now])]
  BY DEF Send
<1> DEFINE e == events[p][i]
           k == <<"send", e.from>>
<1>2. e \in Events
  BY ToDo
<1>3. e.from \in Agents /\ e.ctx \in Contexts
  BY <1>1, <1>2, EventKinds
<1>4. k \in DedupKeys
  BY <1>3 DEF DedupKeys
<1>5. UNCHANGED <<now, setup, loop, agreed, restarts, told>>
  BY DEF Send
<1>6. AgreementGrows
  BY <1>5, AgreementSame
<1>7. UNCHANGED events \/ Deliver(p, e.from, e.ctx, "text")
  BY <1>1
<1>8. Stamps(p)
  BY <1>1, <1>4 DEF Stamps
<1>9. Grows /\ (EventsAgreed => EventsAgreed')
  <2> HIDE DEF e
  <2> QED BY <1>3, <1>6, <1>7, SameAgreed, DeliverKeeps
<1>10. todo' \in [Agents -> SUBSET Nat] /\ \A a \in Agents : todo'[a] \subseteq todo[a]
  BY <1>1, LessToDo
<1> QED BY <1>5, <1>6, <1>8, <1>9, <1>10 DEF AgentStep

\* The remaining steps of agents, users and sidecars.
LEMMA OtherAgentSteps ==
    ASSUME BaseInv, NEW p \in Agents,
           LetBe(p) \/ Report(p) \/ \E q \in Peers(p), x \in Contexts : StartPlan(p, q, x) \/ Write(p, q, x)
    PROVE  AgentStep(p)
<1>0. \A q \in Peers(p) : q \in Agents
  BY DEF Peers
<1>1. UNCHANGED todo => todo' \in [Agents -> SUBSET Nat] /\ \A a \in Agents : todo'[a] \subseteq todo[a]
  BY DEF BaseInv, TypeOK
<1>2. CASE LetBe(p)
  <2>1. UNCHANGED <<now, setup, events, loop, stamps, agreed, restarts, told, log>>
    BY <1>2 DEF LetBe
  <2>2. todo' \in [Agents -> SUBSET Nat] /\ \A a \in Agents : todo'[a] \subseteq todo[a]
    BY <1>2, LessToDo DEF LetBe
  <2>3. AgreementGrows /\ Grows /\ (EventsAgreed => EventsAgreed')
    BY <2>1, AgreementSame, SameAgreed
  <2> QED BY <2>1, <2>2, <2>3 DEF AgentStep, Stamps
<1>3. CASE Report(p)
  <2>1. UNCHANGED <<now, setup, loop, stamps, todo, agreed, restarts, told, log>>
    BY <1>3 DEF Report
  <2>2. PICK e \in Events : /\ e.from = p /\ e.name # "inbox.message"
                            /\ events' = [events EXCEPT ![p] = Append(@, e)]
    BY <1>3 DEF Report
  <2>3. e.what \notin {"confirm", "accept"}
    BY <2>2, EventKinds DEF Intents
  <2>4. AgreementGrows
    BY <2>1, AgreementSame
  <2>5. Grows /\ \A a \in Agents : \A i \in 1 .. Len(events'[a]) :
                    i \in Ids(a) \/ (a = p /\ events'[a][i] = e)
    <3>1. events' = [events EXCEPT ![p] = Append(@, e)]
      BY <2>2
    <3> QED BY <3>1, AppendGrows
  <2>6. ASSUME EventsAgreed PROVE EventsAgreed'
    <3> SUFFICES ASSUME NEW a \in Agents, NEW i \in 1 .. Len(events'[a])
                 PROVE  /\ events'[a][i].what = "confirm" =>
                               events'[a][i].from \in agreed'[events'[a][i].ctx]
                        /\ events'[a][i].what = "accept" =>
                               {a, events'[a][i].from} \subseteq agreed'[events'[a][i].ctx]
      BY DEF EventsAgreed, Ids
    <3>1. CASE i \in Ids(a)
      BY <2>4, <2>5, <2>6, <3>1, AgreedStays
    <3> QED BY <2>3, <2>5, <3>1
  <2> QED BY <1>1, <2>1, <2>4, <2>5, <2>6 DEF AgentStep, Stamps
<1>4. ASSUME NEW q \in Peers(p), NEW x \in Contexts, StartPlan(p, q, x)
      PROVE  AgentStep(p)
  <2>1. /\ UNCHANGED <<now, setup, loop, stamps, todo, restarts, told, log>>
        /\ agreed[x] = {} /\ agreed' = [agreed EXCEPT ![x] = {p}]
        /\ Deliver(p, q, x, "coordinate")
    BY <1>4 DEF StartPlan
  <2>2. AgreementGrows
    BY <2>1 DEF AgreementGrows, BaseInv, TypeOK
  <2>3. "coordinate" \in Intents
    BY DEF Intents
  <2>4. Grows /\ (EventsAgreed => EventsAgreed')
    BY <1>0, <2>1, <2>2, <2>3, DeliverKeeps
  <2> QED BY <1>1, <2>1, <2>2, <2>4 DEF AgentStep, Stamps
<1>5. ASSUME NEW q \in Peers(p), NEW x \in Contexts, Write(p, q, x)
      PROVE  AgentStep(p)
  <2>1. /\ UNCHANGED <<now, setup, loop, stamps, todo, agreed, restarts, told, log>>
        /\ Deliver(p, q, x, "text")
    BY <1>5 DEF Write
  <2>2. AgreementGrows
    BY <2>1, AgreementSame
  <2>3. Grows /\ (EventsAgreed => EventsAgreed')
    BY <1>0, <2>1, <2>2, DeliverKeeps
  <2> QED BY <1>1, <2>1, <2>2, <2>3 DEF AgentStep, Stamps
<1> QED BY <1>2, <1>3, <1>4, <1>5

-----------------------------------------------------------------------------
(* Types and bounds.                                                       *)

\* What Stamps leaves has its type.
LEMMA StampsTyped ==
    ASSUME BaseInv, NEW p \in Agents, Stamps(p)
    PROVE  /\ stamps' \in [Agents -> [DedupKeys -> Nat \cup {None}]]
           /\ log' \in [Agents -> Seq(LogEntry)]
<1>1. /\ stamps \in [Agents -> [DedupKeys -> Nat \cup {None}]]
      /\ log \in [Agents -> Seq(LogEntry)] /\ now \in Nat
  BY DEF BaseInv, TypeOK, LogEntry
<1>2. CASE UNCHANGED <<stamps, log>>
  BY <1>1, <1>2
<1>3. ASSUME NEW k \in DedupKeys, stamps' = [stamps EXCEPT ![p] = Stamped(stamps[p], k)],
             UNCHANGED log \/ log' = [log EXCEPT ![p] = Append(@, [key |-> k, at |-> now])]
      PROVE  /\ stamps' \in [Agents -> [DedupKeys -> Nat \cup {None}]]
             /\ log' \in [Agents -> Seq(LogEntry)]
  <2>1. Stamped(stamps[p], k) \in [DedupKeys -> Nat \cup {None}]
    BY <1>1, StampedProperties
  <2>2. [key |-> k, at |-> now] \in LogEntry
    BY <1>1 DEF LogEntry
  <2>3. Append(log[p], [key |-> k, at |-> now]) \in Seq(LogEntry)
    BY <1>1, <2>2, AppendProperties
  <2> HIDE DEF LogEntry
  <2> QED BY <1>1, <1>3, <2>1, <2>3
<1> QED BY <1>2, <1>3 DEF Stamps

\* A step of an agent keeps types and bounds.
LEMMA AgentBase ==
    ASSUME BaseInv, NEW p \in Agents, AgentStep(p)
    PROVE  BaseInv'
<1>1. /\ stamps' \in [Agents -> [DedupKeys -> Nat \cup {None}]]
      /\ log' \in [Agents -> Seq(LogEntry)]
  BY StampsTyped DEF AgentStep
<1>2. UNCHANGED <<conn, cursor, batch, item, base, handled, now, setup, restarts, told>>
  BY DEF AgentStep, loop
<1>3. /\ todo' \in [Agents -> SUBSET Nat] /\ events' \in [Agents -> Seq(Events)]
      /\ agreed' \in [Contexts -> SUBSET Agents]
  BY DEF AgentStep, Grows, AgreementGrows
<1>4. TypeOK'
  BY <1>1, <1>2, <1>3 DEF BaseInv, TypeOK, LogEntry
<1>5. Within'
  BY <1>2, GrowthKeepsWithin DEF AgentStep
<1> QED BY <1>4, <1>5 DEF BaseInv

\* A dispatched event keeps types and bounds.
LEMMA DispatchBase ==
    ASSUME BaseInv, NEW p \in Agents, Dispatch(p)
    PROVE  BaseInv'
<1>0. Ready(p) /\ Stamps(p) /\ Tells(p) /\ NextEvent(p)
  BY DispatchSteps
<1> DEFINE i == Head(batch[p])
           b == Tail(batch[p])
<1>1. i \in Ids(p) /\ b \in Seq(Ids(p)) /\ Ids(p) \subseteq Nat
  BY <1>0, AtHand
<1>2. b \in Seq(Nat) /\ Append(handled[p], i) \in Seq(Nat)
  BY <1>1, SeqMonotonic, AppendProperties DEF BaseInv, TypeOK
<1>3. /\ stamps' \in [Agents -> [DedupKeys -> Nat \cup {None}]]
      /\ log' \in [Agents -> Seq(LogEntry)]
  BY <1>0, StampsTyped
<1>4. /\ batch' = [batch EXCEPT ![p] = b] /\ item' = [item EXCEPT ![p] = "none"]
      /\ handled' = [handled EXCEPT ![p] = Append(handled[p], i)]
      /\ UNCHANGED <<now, setup, events, conn, cursor, base, agreed, restarts>>
  BY <1>0 DEF NextEvent
<1>5. \/ UNCHANGED <<told, todo>>
      \/ told' = [told EXCEPT ![p] = @ \cup {i}] /\ todo' = [todo EXCEPT ![p] = @ \cup {i}]
  BY <1>0 DEF Tells
<1> HIDE DEF i, b
<1>6. told' \in [Agents -> SUBSET Nat] /\ todo' \in [Agents -> SUBSET Nat]
  <2>1. i \in Nat /\ told \in [Agents -> SUBSET Nat] /\ todo \in [Agents -> SUBSET Nat]
    BY <1>1 DEF BaseInv, TypeOK
  <2> QED BY <1>5, <2>1
<1>7. /\ batch' \in [Agents -> Seq(Nat)] /\ item' \in [Agents -> {"none", "text", "missing"}]
      /\ handled' \in [Agents -> Seq(Nat)]
  BY <1>2, <1>4 DEF BaseInv, TypeOK
<1>8. TypeOK'
  BY <1>3, <1>4, <1>6, <1>7 DEF BaseInv, TypeOK, LogEntry
<1>9. Within'
  <2> SUFFICES ASSUME NEW a \in Agents
               PROVE  /\ batch'[a] \in Seq(Ids(a)) /\ cursor[a] <= Len(events[a])
                      /\ todo'[a] \subseteq Ids(a) /\ told'[a] \subseteq Ids(a)
    BY <1>4 DEF Within, Ids
  <2>1. batch'[a] = batch[a] \/ (a = p /\ batch'[a] = b)
    BY <1>4 DEF BaseInv, TypeOK
  <2>2. /\ todo'[a] = todo[a] \/ (a = p /\ todo'[a] = todo[a] \cup {i})
        /\ told'[a] = told[a] \/ (a = p /\ told'[a] = told[a] \cup {i})
    BY <1>5 DEF BaseInv, TypeOK
  <2> QED BY <1>1, <2>1, <2>2 DEF BaseInv, Within
<1> QED BY <1>8, <1>9 DEF BaseInv

\* Connecting, disconnecting, restarting and fetching keep types and bounds.
LEMMA ConnectionBase ==
    ASSUME BaseInv, NEW p \in Agents, Connect(p) \/ Disconnect(p) \/ Restart(p) \/ FetchInboxItem(p)
    PROVE  BaseInv'
<1>0. \A S : <<>> \in Seq(S)
  BY EmptySeq
<1>1. \A a \in Agents : Len(events[a]) \in Nat
  BY LenProperties DEF BaseInv, TypeOK
<1>2. CASE Connect(p)
  <2>1. PICK c \in {0, Len(events[p])} : base' = [base EXCEPT ![p] = c] /\ cursor' = [cursor EXCEPT ![p] = c]
    BY <1>2 DEF Connect
  <2>2. c \in Nat /\ c <= Len(events[p])
    BY <1>1
  <2>3. /\ base' \in [Agents -> Nat] /\ cursor' \in [Agents -> Nat]
        /\ \A a \in Agents : cursor'[a] = cursor[a] \/ (a = p /\ cursor'[a] = c)
    BY <2>1, <2>2 DEF BaseInv, TypeOK
  <2>4. handled' \in [Agents -> Seq(Nat)] /\ conn' \in [Agents -> {"down", "up"}] /\ restarts' \in Nat
    BY <1>0, <1>2 DEF Connect, BaseInv, TypeOK
  <2>5. UNCHANGED <<now, setup, events, batch, item, stamps, todo, agreed, told, log>>
    BY <1>2 DEF Connect
  <2>6. TypeOK'
    BY <2>3, <2>4, <2>5 DEF BaseInv, TypeOK
  <2>7. Within'
    BY <2>2, <2>3, <2>5 DEF BaseInv, Within, Ids
  <2> QED BY <2>6, <2>7 DEF BaseInv
<1>3. CASE Disconnect(p) \/ Restart(p)
  <2>1. /\ conn' = [conn EXCEPT ![p] = "down"] /\ cursor' = [cursor EXCEPT ![p] = 0]
        /\ batch' = [batch EXCEPT ![p] = <<>>] /\ item' = [item EXCEPT ![p] = "none"]
        /\ UNCHANGED <<now, setup, events, base, handled, todo, agreed, told>>
    BY <1>3 DEF Disconnect, Restart
  <2>2. /\ conn' \in [Agents -> {"down", "up"}] /\ cursor' \in [Agents -> Nat]
        /\ batch' \in [Agents -> Seq(Nat)] /\ item' \in [Agents -> {"none", "text", "missing"}]
    BY <1>0, <2>1 DEF BaseInv, TypeOK
  <2>3. /\ stamps' \in [Agents -> [DedupKeys -> Nat \cup {None}]] /\ restarts' \in Nat
        /\ log' \in [Agents -> Seq(LogEntry)]
    <3>1. /\ stamps \in [Agents -> [DedupKeys -> Nat \cup {None}]] /\ restarts \in Nat
          /\ log \in [Agents -> Seq(LogEntry)] /\ [k \in DedupKeys |-> None] \in [DedupKeys -> Nat \cup {None}]
      BY DEF BaseInv, TypeOK, LogEntry
    <3>2. CASE Disconnect(p)
      BY <3>1, <3>2 DEF Disconnect
    <3>3. CASE Restart(p)
      <4>1. /\ stamps' = [stamps EXCEPT ![p] = [k \in DedupKeys |-> None]]
            /\ log' = [log EXCEPT ![p] = <<>>] /\ restarts' = restarts + 1
        BY <3>3 DEF Restart
      <4> DEFINE none == [k \in DedupKeys |-> None]
      <4> HIDE DEF none
      <4>2. stamps' \in [Agents -> [DedupKeys -> Nat \cup {None}]]
        BY <3>1, <4>1 DEF none
      <4>3. log' \in [Agents -> Seq(LogEntry)]
        BY <1>0, <3>1, <4>1
      <4> QED BY <3>1, <4>1, <4>2, <4>3
    <3> QED BY <1>3, <3>2, <3>3
  <2>4. TypeOK'
    BY <2>1, <2>2, <2>3 DEF BaseInv, TypeOK, LogEntry
  <2>5. \A a \in Agents : /\ cursor'[a] = cursor[a] \/ cursor'[a] = 0
                          /\ batch'[a] = batch[a] \/ batch'[a] = <<>>
    BY <2>1 DEF BaseInv, TypeOK
  <2>6. Within'
    <3> SUFFICES ASSUME NEW a \in Agents
                 PROVE  /\ batch'[a] \in Seq(Ids(a)) /\ cursor'[a] <= Len(events[a])
                        /\ todo[a] \subseteq Ids(a) /\ told[a] \subseteq Ids(a)
      BY <2>1 DEF Within, Ids
    <3>1. /\ batch[a] \in Seq(Ids(a)) /\ cursor[a] <= Len(events[a])
          /\ todo[a] \subseteq Ids(a) /\ told[a] \subseteq Ids(a)
      BY DEF BaseInv, Within
    <3>2. batch'[a] \in Seq(Ids(a))
      BY <1>0, <2>5, <3>1
    <3>3. cursor'[a] <= Len(events[a])
      BY <1>1, <2>5, <3>1
    <3> QED BY <3>1, <3>2, <3>3
  <2> QED BY <2>4, <2>6 DEF BaseInv
<1>4. CASE FetchInboxItem(p)
  <2>1. UNCHANGED <<now, setup, events, conn, cursor, batch, base, handled, stamps, todo, agreed,
                    restarts, told, log>>
    BY <1>4 DEF FetchInboxItem
  <2>2. \E r \in {"text", "missing"} : item' = [item EXCEPT ![p] = r]
    BY <1>4, Zenon DEF FetchInboxItem
  <2>3. item' \in [Agents -> {"none", "text", "missing"}]
    BY <2>2 DEF BaseInv, TypeOK
  <2> QED BY <2>1, <2>3, Zenon DEF BaseInv, TypeOK, Within, Ids
<1> QED BY <1>2, <1>3, <1>4

\* Consecutive numbers after a, and those after them, are consecutive.
LEMMA Consecutive ==
    ASSUME NEW a \in Nat, NEW b \in Nat, NEW c \in Nat, a <= b, b <= c
    PROVE  [i \in 1 .. b - a |-> a + i] \o [i \in 1 .. c - b |-> b + i]
               = [i \in 1 .. c - a |-> a + i]
<1> DEFINE s == [i \in 1 .. b - a |-> a + i]
           t == [i \in 1 .. c - b |-> b + i]
           u == [i \in 1 .. c - a |-> a + i]
<1>1. s \in Seq(Nat) /\ Len(s) = b - a
  BY SMT
<1>2. t \in Seq(Nat) /\ Len(t) = c - b
  BY SMT
<1>3. u \in Seq(Nat) /\ Len(u) = c - a
  BY SMT
<1>4. s \o t \in Seq(Nat) /\ Len(s \o t) = c - a
  BY <1>1, <1>2, ConcatProperties
<1>5. ASSUME NEW i \in 1 .. c - a PROVE (s \o t)[i] = u[i]
  <2>1. (s \o t)[i] = IF i <= Len(s) THEN s[i] ELSE t[i - Len(s)]
    BY <1>1, <1>2, ConcatProperties
  <2>2. u[i] = a + i
    OBVIOUS
  <2>3. CASE i <= b - a
    BY <2>1, <2>2, <2>3, <1>1
  <2>4. CASE i > b - a
    <3>1. t[i - (b - a)] = b + (i - (b - a))
      BY <2>4, SMT
    <3> QED BY <2>1, <2>2, <2>4, <3>1, <1>1
  <2> QED BY <2>3, <2>4
<1> HIDE DEF s, t, u
<1>6. s \o t = u
  BY <1>3, <1>4, <1>5, SeqEqual
<1> QED BY <1>6 DEF s, t, u

\* The ids inbox_wait returns are ids of events, and follow the cursor.
LEMMA WaitSteps ==
    ASSUME BaseInv, NEW p \in Agents, InboxWait(p)
    PROVE  \E n \in Nat :
              /\ cursor[p] <= n /\ n <= Len(events[p])
              /\ [i \in 1 .. n - cursor[p] |-> cursor[p] + i] \in Seq(Ids(p))
              /\ batch' = [batch EXCEPT ![p] = [i \in 1 .. n - cursor[p] |-> cursor[p] + i]]
              /\ cursor' = [cursor EXCEPT ![p] = n]
<1>1. PICK n \in cursor[p] + 1 .. Len(events[p]) :
          /\ batch' = [batch EXCEPT ![p] = [i \in 1 .. n - cursor[p] |-> cursor[p] + i]]
          /\ cursor' = [cursor EXCEPT ![p] = n]
  BY DEF InboxWait, NextEventId
<1>2. cursor[p] \in Nat /\ Len(events[p]) \in Nat
  BY LenProperties DEF BaseInv, TypeOK
<1>3. n \in Nat /\ cursor[p] <= n /\ n <= Len(events[p])
  BY <1>1, <1>2
<1>4. [i \in 1 .. n - cursor[p] |-> cursor[p] + i] \in Seq(Ids(p))
  <2> DEFINE c == cursor[p]
             m == Len(events[p])
  <2>1. c \in Nat /\ m \in Nat /\ c <= n /\ n <= m
    BY <1>2, <1>3
  <2>2. Ids(p) = 1 .. m
    BY DEF Ids
  <2> HIDE DEF c, m
  <2>3. \A i \in 1 .. n - c : c + i \in 1 .. m
    BY <1>3, <2>1
  <2>4. [i \in 1 .. n - c |-> c + i] \in Seq(1 .. m)
    BY <1>3, <2>1, <2>3, IsASeq, SMT
  <2> QED BY <2>2, <2>4 DEF c
<1> QED BY <1>1, <1>3, <1>4

\* inbox_wait keeps types and bounds.
LEMMA WaitBase ==
    ASSUME BaseInv, NEW p \in Agents, InboxWait(p)
    PROVE  BaseInv'
<1>1. PICK n \in Nat, b \in Seq(Ids(p)) :
          /\ n <= Len(events[p])
          /\ batch' = [batch EXCEPT ![p] = b]
          /\ cursor' = [cursor EXCEPT ![p] = n]
  BY WaitSteps
<1>2. Ids(p) \subseteq Nat
  BY LenProperties DEF BaseInv, TypeOK, Ids
<1>3. b \in Seq(Nat)
  BY <1>2, SeqMonotonic
<1>4. UNCHANGED <<now, setup, events, conn, item, base, handled, stamps, todo, agreed, restarts,
                  told, log>>
  BY DEF InboxWait
<1>5. batch' \in [Agents -> Seq(Nat)] /\ cursor' \in [Agents -> Nat]
  BY <1>1, <1>3 DEF BaseInv, TypeOK
<1>6. TypeOK'
  BY <1>4, <1>5 DEF BaseInv, TypeOK
<1>7. \A a \in Agents : /\ batch'[a] = batch[a] \/ (a = p /\ batch'[a] = b)
                        /\ cursor'[a] = cursor[a] \/ (a = p /\ cursor'[a] = n)
  BY <1>1 DEF BaseInv, TypeOK
<1>8. Within'
  BY <1>1, <1>4, <1>7 DEF BaseInv, Within, Ids
<1> QED BY <1>6, <1>8 DEF BaseInv

\* The first state satisfies types and bounds.
LEMMA InitBase == Init => BaseInv
<1> SUFFICES ASSUME Init PROVE BaseInv OBVIOUS
<1>1. \A S : <<>> \in Seq(S)
  BY EmptySeq
<1>2. stamps \in [Agents -> [DedupKeys -> Nat \cup {None}]]
  BY DEF Init
<1>3. Len(<<>>) = 0
  BY EmptySeq
<1>4. TypeOK
  BY <1>1, <1>2 DEF Init, TypeOK
<1>5. Within
  <2> SUFFICES ASSUME NEW p \in Agents
               PROVE  /\ batch[p] \in Seq(Ids(p)) /\ cursor[p] <= Len(events[p])
                      /\ todo[p] \subseteq Ids(p) /\ told[p] \subseteq Ids(p)
    BY DEF Within
  <2>1. batch[p] = <<>> /\ cursor[p] = 0 /\ events[p] = <<>> /\ todo[p] = {} /\ told[p] = {}
    BY DEF Init
  <2> QED BY <1>1, <1>3, <2>1
<1> QED BY <1>4, <1>5 DEF BaseInv

\* What a step is: the adapter's, an agent's, the clock's or none.
LEMMA Steps ==
    ASSUME BaseInv, [Next]_vars
    PROVE  \/ \E p \in Agents : \/ Connect(p) \/ Disconnect(p) \/ Restart(p) \/ FetchInboxItem(p)
                                \/ InboxWait(p) \/ Dispatch(p) \/ AgentStep(p)
           \/ Tick \/ UNCHANGED vars
BY FollowSteps, SendSteps, OtherAgentSteps DEF Next, Adapter, OnEvent, Agent, Dispatch

\* Every step keeps types and bounds.
LEMMA NextBase == BaseInv /\ [Next]_vars => BaseInv'
<1> SUFFICES ASSUME BaseInv, [Next]_vars PROVE BaseInv' OBVIOUS
<1>1. CASE Tick
  <2>1. now' \in Nat /\ UNCHANGED <<setup, events, loop, stamps, todo, agreed, restarts, told, log>>
    BY <1>1 DEF Tick, BaseInv, TypeOK
  <2> QED BY <2>1 DEF loop, BaseInv, TypeOK, Within, Ids
<1>2. CASE UNCHANGED vars
  BY <1>2 DEF vars, loop, BaseInv, TypeOK, Within, Ids
<1> QED BY <1>1, <1>2, Steps, ConnectionBase, WaitBase, DispatchBase, AgentBase

-----------------------------------------------------------------------------
(* The inbox loop.                                                         *)

LoopInv ==
    \A p \in Agents :
        /\ conn[p] = "down" => batch[p] = <<>>
        /\ conn[p] = "up" =>
              /\ base[p] <= cursor[p]
              /\ handled[p] \o batch[p] = [i \in 1 .. cursor[p] - base[p] |-> base[p] + i]

\* Moving the head of one sequence to the end of another leaves what they are
\* together.
LEMMA MoveHead ==
    ASSUME NEW S, NEW s \in Seq(S), NEW t \in Seq(S), t # <<>>
    PROVE  Append(s, Head(t)) \o Tail(t) = s \o t
<1>1. Head(t) \in S /\ Tail(t) \in Seq(S) /\ t = <<Head(t)>> \o Tail(t)
  <2>1. Head(t) \in S /\ Tail(t) \in Seq(S) /\ Len(Tail(t)) = Len(t) - 1
        /\ \A i \in 1 .. Len(Tail(t)) : Tail(t)[i] = t[i + 1]
    BY HeadTailProperties
  <2>2. t = <<Head(t)>> \o Tail(t)
    BY <2>1, SMT
  <2> QED BY <2>1, <2>2
<1>2. Append(s, Head(t)) = s \o <<Head(t)>> /\ <<Head(t)>> \in Seq(S)
  BY <1>1, AppendIsConcat
<1> QED BY <1>1, <1>2, ConcatAssociative

\* Every step keeps the loop in order.
LEMMA NextLoop == BaseInv /\ LoopInv /\ [Next]_vars => LoopInv'
<1> SUFFICES ASSUME BaseInv, LoopInv, [Next]_vars PROVE LoopInv' OBVIOUS
<1> DEFINE InLoop(a) ==
        /\ conn[a] = "down" => batch[a] = <<>>
        /\ conn[a] = "up" =>
              /\ base[a] <= cursor[a]
              /\ handled[a] \o batch[a] = [i \in 1 .. cursor[a] - base[a] |-> base[a] + i]
<1>0. ASSUME NEW p \in Agents, InLoop(p)',
             \A a \in Agents \ {p} :
                 /\ conn'[a] = conn[a] /\ batch'[a] = batch[a] /\ base'[a] = base[a]
                 /\ cursor'[a] = cursor[a] /\ handled'[a] = handled[a]
      PROVE  LoopInv'
  <2> SUFFICES ASSUME NEW a \in Agents PROVE InLoop(a)'
    BY DEF LoopInv
  <2>1. CASE a = p
    BY <1>0, <2>1
  <2>2. CASE a # p
    BY <1>0, <2>2 DEF LoopInv
  <2> QED BY <2>1, <2>2
<1>1. CASE UNCHANGED <<conn, batch, base, cursor, handled>>
  BY <1>1 DEF LoopInv
<1>2. ASSUME NEW p \in Agents, Connect(p) PROVE LoopInv'
  <2>1. PICK c \in {0, Len(events[p])} : base' = [base EXCEPT ![p] = c] /\ cursor' = [cursor EXCEPT ![p] = c]
    BY <1>2 DEF Connect
  <2>2. c \in Nat
    BY LenProperties DEF BaseInv, TypeOK
  <2>3. /\ base'[p] = c /\ cursor'[p] = c /\ handled'[p] = <<>> /\ conn'[p] = "up"
        /\ batch'[p] = <<>>
    BY <1>2, <2>1 DEF Connect, BaseInv, TypeOK, LoopInv
  <2>4. <<>> \o <<>> = [i \in 1 .. c - c |-> c + i]
    <3>1. [i \in 1 .. c - c |-> c + i] = <<>>
      BY <2>2, SMT
    <3>2. <<>> \o <<>> = <<>>
      BY EmptySeq, ConcatEmptySeq
    <3> QED BY <3>1, <3>2
  <2>5. InLoop(p)'
    BY <2>2, <2>3, <2>4
  <2>6. \A a \in Agents \ {p} :
            /\ conn'[a] = conn[a] /\ batch'[a] = batch[a] /\ base'[a] = base[a]
            /\ cursor'[a] = cursor[a] /\ handled'[a] = handled[a]
    BY <1>2, <2>1 DEF Connect, BaseInv, TypeOK
  <2> HIDE DEF InLoop
  <2> QED BY <1>0, <2>5, <2>6
<1>3. ASSUME NEW p \in Agents, Disconnect(p) \/ Restart(p) PROVE LoopInv'
  <2>1. conn'[p] = "down" /\ batch'[p] = <<>>
    BY <1>3 DEF Disconnect, Restart, BaseInv, TypeOK
  <2>2. \A a \in Agents \ {p} :
            /\ conn'[a] = conn[a] /\ batch'[a] = batch[a] /\ base'[a] = base[a]
            /\ cursor'[a] = cursor[a] /\ handled'[a] = handled[a]
    BY <1>3 DEF Disconnect, Restart, BaseInv, TypeOK
  <2> QED BY <1>0, <2>1, <2>2
<1>4. ASSUME NEW p \in Agents, InboxWait(p) PROVE LoopInv'
  <2>1. PICK n \in Nat :
              /\ cursor[p] <= n
              /\ batch' = [batch EXCEPT ![p] = [i \in 1 .. n - cursor[p] |-> cursor[p] + i]]
              /\ cursor' = [cursor EXCEPT ![p] = n]
    BY <1>4, WaitSteps
  <2> DEFINE new == [i \in 1 .. n - cursor[p] |-> cursor[p] + i]
  <2>2. /\ conn[p] = "up" /\ batch[p] = <<>> /\ UNCHANGED <<conn, base, handled>>
        /\ base[p] \in Nat /\ cursor[p] \in Nat /\ handled[p] \in Seq(Nat)
    BY <1>4 DEF InboxWait, BaseInv, TypeOK
  <2>3. base[p] <= cursor[p] /\ handled[p] = [i \in 1 .. cursor[p] - base[p] |-> base[p] + i]
    <3>1. handled[p] \o <<>> = handled[p]
      BY <2>2, ConcatEmptySeq
    <3> QED BY <2>2, <3>1 DEF LoopInv
  <2>4. handled[p] \o new = [i \in 1 .. n - base[p] |-> base[p] + i]
    <3> DEFINE a == base[p]
               b == cursor[p]
    <3>1. a \in Nat /\ b \in Nat /\ a <= b /\ b <= n
      BY <2>1, <2>2, <2>3
    <3>2. handled[p] = [i \in 1 .. b - a |-> a + i]
      BY <2>3
    <3> HIDE DEF a, b
    <3>3. [i \in 1 .. b - a |-> a + i] \o [i \in 1 .. n - b |-> b + i] = [i \in 1 .. n - a |-> a + i]
      BY <3>1, Consecutive
    <3>4. new = [i \in 1 .. n - b |-> b + i]
      BY DEF b
    <3> HIDE DEF new
    <3> QED BY <3>2, <3>3, <3>4 DEF a
  <2> HIDE DEF new
  <2>5. batch'[p] = new /\ cursor'[p] = n
    BY <2>1 DEF BaseInv, TypeOK, new
  <2>6. base[p] <= n
    BY <2>1, <2>2, <2>3
  <2>7. InLoop(p)'
    BY <2>2, <2>4, <2>5, <2>6
  <2>8. \A a \in Agents \ {p} :
            /\ conn'[a] = conn[a] /\ batch'[a] = batch[a] /\ base'[a] = base[a]
            /\ cursor'[a] = cursor[a] /\ handled'[a] = handled[a]
    BY <2>1, <2>2 DEF BaseInv, TypeOK
  <2> HIDE DEF InLoop
  <2> QED BY <1>0, <2>7, <2>8
<1>5. ASSUME NEW p \in Agents, Dispatch(p) PROVE LoopInv'
  <2>1. Ready(p) /\ NextEvent(p)
    BY <1>5, DispatchSteps
  <2>2. /\ conn[p] = "up" /\ batch[p] # <<>> /\ batch[p] \in Seq(Nat) /\ handled[p] \in Seq(Nat)
        /\ UNCHANGED <<conn, cursor, base>>
        /\ batch' = [batch EXCEPT ![p] = Tail(batch[p])]
        /\ handled' = [handled EXCEPT ![p] = Append(handled[p], Head(batch[p]))]
    BY <2>1 DEF Ready, NextEvent, BaseInv, TypeOK
  <2>3. Append(handled[p], Head(batch[p])) \o Tail(batch[p]) = handled[p] \o batch[p]
    BY <2>2, MoveHead
  <2>4. batch'[p] = Tail(batch[p]) /\ handled'[p] = Append(handled[p], Head(batch[p]))
    BY <2>2 DEF BaseInv, TypeOK
  <2>5. InLoop(p)'
    BY <2>2, <2>3, <2>4 DEF LoopInv
  <2>6. \A a \in Agents \ {p} :
            /\ conn'[a] = conn[a] /\ batch'[a] = batch[a] /\ base'[a] = base[a]
            /\ cursor'[a] = cursor[a] /\ handled'[a] = handled[a]
    BY <2>2 DEF BaseInv, TypeOK
  <2> HIDE DEF InLoop
  <2> QED BY <1>0, <2>5, <2>6
<1>6. ASSUME NEW p \in Agents, FetchInboxItem(p) \/ AgentStep(p) PROVE LoopInv'
  <2>1. UNCHANGED <<conn, batch, base, cursor, handled>>
    BY <1>6 DEF FetchInboxItem, AgentStep, loop
  <2> QED BY <1>1, <2>1
<1>7. CASE Tick \/ UNCHANGED vars
  BY <1>1, <1>7 DEF Tick, vars, loop
<1> HIDE DEF InLoop
<1> QED BY <1>2, <1>3, <1>4, <1>5, <1>6, <1>7, Steps

-----------------------------------------------------------------------------
(* The cooldowns.                                                          *)

\* A logged key is still stamped, no earlier than it was logged, or its window
\* has passed.
Covered(p, i) ==
    LET l == log[p][i]
    IN  /\ l.at <= now
        /\ \/ stamps[p][l.key] # None /\ l.at <= stamps[p][l.key]
           \/ now - l.at >= Window(l.key)
LogInv == OnePerWindow /\ \A p \in Agents : \A i \in DOMAIN log[p] : Covered(p, i)

\* Stamping a key that is not too soon keeps the log apart and covered.
LEMMA StampsKeepLog ==
    ASSUME BaseInv, LogInv, UNCHANGED now, NEW p \in Agents, Stamps(p)
    PROVE  LogInv'
<1>1. CASE UNCHANGED <<stamps, log>>
  BY <1>1 DEF LogInv, OnePerWindow, Covered
<1>2. ASSUME NEW k \in DedupKeys, ~TooSoon(p, k),
             stamps' = [stamps EXCEPT ![p] = Stamped(stamps[p], k)],
             UNCHANGED log \/ log' = [log EXCEPT ![p] = Append(@, [key |-> k, at |-> now])]
      PROVE  LogInv'
  <2> DEFINE e == [key |-> k, at |-> now]
             S == Stamped(stamps[p], k)
             n == Len(log[p])
  <2>0. /\ log \in [Agents -> Seq(LogEntry)] /\ now \in Nat /\ n \in Nat
        /\ stamps \in [Agents -> [DedupKeys -> Nat \cup {None}]]
    BY LenProperties DEF BaseInv, TypeOK, LogEntry
  <2>1. /\ S \in [DedupKeys -> Nat \cup {None}] /\ S[k] = now
        /\ \A l \in DedupKeys \ {k} : S[l] = stamps[p][l] \/
                                      (stamps[p][l] # None /\ now - stamps[p][l] > 2 * Window(l))
    BY <2>0, StampedProperties
  <2>2. e \in LogEntry /\ e.key = k /\ e.at = now
    BY <2>0 DEF LogEntry
  <2> HIDE DEF e, S
  <2>3. /\ stamps'[p] = S
        /\ \A a \in Agents \ {p} : stamps'[a] = stamps[a] /\ log'[a] = log[a]
        /\ log'[p] = log[p] \/ log'[p] = Append(log[p], e)
    BY <1>2, <2>0 DEF S, e
  <2>4. /\ Len(Append(log[p], e)) = n + 1 /\ Append(log[p], e)[n + 1] = e
        /\ \A i \in 1 .. n : Append(log[p], e)[i] = log[p][i]
        /\ DOMAIN Append(log[p], e) = 1 .. n + 1 /\ DOMAIN log[p] = 1 .. n
    BY <2>0, <2>2, AppendProperties, LenProperties
  <2>5. \A i \in 1 .. n : /\ log[p][i].key \in DedupKeys /\ log[p][i].at \in Nat
                          /\ Window(log[p][i].key) \in Nat
    <3>1. \A i \in 1 .. n : log[p][i] \in LogEntry
      BY <2>0, ElementOfSeq
    <3> QED BY <3>1, Windows DEF LogEntry
  <2>6. ASSUME NEW i \in 1 .. n, log[p][i].key = k PROVE now - log[p][i].at >= Window(k)
    <3>1. Covered(p, i)
      BY <2>4 DEF LogInv
    <3>2. stamps[p][k] # None => now - stamps[p][k] >= Window(k)
      <4>1. Window(k) \in Nat /\ stamps[p][k] \in Nat \cup {None}
        BY <2>0, Windows
      <4> QED BY <1>2, <2>0, <4>1 DEF TooSoon, None
    <3>3. stamps[p][k] # None => stamps[p][k] \in Nat
      BY <2>0
    <3>4. Window(k) \in Nat
      BY Windows
    <3> QED BY <2>0, <2>5, <2>6, <3>1, <3>2, <3>3, <3>4 DEF Covered
  <2>7. ASSUME NEW i \in 1 .. n
        PROVE  LET l == log[p][i]
               IN  l.at <= now /\ ((S[l.key] # None /\ l.at <= S[l.key]) \/ now - l.at >= Window(l.key))
    <3> DEFINE l == log[p][i]
    <3>1. Covered(p, i) /\ l.key \in DedupKeys /\ l.at \in Nat /\ Window(l.key) \in Nat
      BY <2>4, <2>5 DEF LogInv
    <3>2. l.at <= now
      BY <3>1 DEF Covered
    <3>3. CASE l.key = k
      BY <2>6, <3>2, <3>3
    <3>4. CASE l.key # k /\ S[l.key] = stamps[p][l.key]
      BY <3>1, <3>2, <3>4 DEF Covered
    <3>5. CASE l.key # k /\ stamps[p][l.key] # None /\ now - stamps[p][l.key] > 2 * Window(l.key)
      <4>1. stamps[p][l.key] \in Nat
        BY <2>0, <3>1, <3>5
      <4> QED BY <2>0, <3>1, <3>2, <3>5, <4>1 DEF Covered
    <3> QED BY <2>1, <3>1, <3>3, <3>4, <3>5
  <2>8. \A a \in Agents : \A i \in DOMAIN log'[a] : Covered(a, i)'
    <3> SUFFICES ASSUME NEW a \in Agents, NEW i \in DOMAIN log'[a] PROVE Covered(a, i)'
      OBVIOUS
    <3>1. CASE a # p
      BY <2>3, <3>1 DEF LogInv, Covered
    <3>2. CASE a = p /\ i \in 1 .. n
      <4>1. log'[p][i] = log[p][i]
        BY <2>3, <2>4, <3>2
      <4> QED BY <2>3, <2>7, <3>2, <4>1 DEF Covered
    <3>3. CASE a = p /\ i \notin 1 .. n
      <4>1. log'[p][i] = e
        BY <2>0, <2>3, <2>4, <3>3
      <4>2. now # None
        BY <2>0 DEF None
      <4> QED BY <2>0, <2>1, <2>2, <2>3, <3>3, <4>1, <4>2 DEF Covered
    <3> QED BY <3>1, <3>2, <3>3
  <2>9. OnePerWindow'
    <3> SUFFICES ASSUME NEW a \in Agents, NEW i \in DOMAIN log'[a], NEW j \in DOMAIN log'[a], i < j,
                        log'[a][i].key = log'[a][j].key
                 PROVE  log'[a][j].at - log'[a][i].at >= Window(log'[a][i].key)
      BY DEF OnePerWindow, Window
    <3>1. CASE a # p
      BY <2>3, <3>1 DEF LogInv, OnePerWindow
    <3>2. CASE a = p /\ j \in 1 .. n
      <4>1. i \in 1 .. n
        BY <2>0, <2>3, <2>4, <3>2
      <4>2. log'[p][i] = log[p][i] /\ log'[p][j] = log[p][j]
        BY <2>3, <2>4, <3>2, <4>1
      <4> QED BY <2>4, <3>2, <4>1, <4>2 DEF LogInv, OnePerWindow
    <3>3. CASE a = p /\ j \notin 1 .. n
      <4>1. i \in 1 .. n /\ log'[p][j] = e
        BY <2>0, <2>3, <2>4, <3>3
      <4>2. log'[p][i] = log[p][i]
        BY <2>3, <2>4, <4>1
      <4> QED BY <2>2, <2>6, <3>3, <4>1, <4>2
    <3> QED BY <3>1, <3>2, <3>3
  <2> QED BY <2>8, <2>9 DEF LogInv
<1> QED BY <1>1, <1>2 DEF Stamps

\* Every step keeps the log apart and covered.
LEMMA NextLog == BaseInv /\ LogInv /\ [Next]_vars => LogInv'
<1> SUFFICES ASSUME BaseInv, LogInv, [Next]_vars PROVE LogInv' OBVIOUS
<1>1. CASE UNCHANGED <<now, stamps, log>>
  BY <1>1 DEF LogInv, OnePerWindow, Covered
<1>2. ASSUME NEW p \in Agents, Dispatch(p) \/ AgentStep(p) PROVE LogInv'
  <2>1. Stamps(p) /\ UNCHANGED now
    BY <1>2, DispatchSteps DEF AgentStep, NextEvent
  <2> QED BY <2>1, StampsKeepLog
<1>3. ASSUME NEW p \in Agents, Restart(p) PROVE LogInv'
  <2>1. /\ log'[p] = <<>> /\ UNCHANGED now
        /\ \A a \in Agents \ {p} : log'[a] = log[a] /\ stamps'[a] = stamps[a]
    BY <1>3 DEF Restart, BaseInv, TypeOK
  <2>2. DOMAIN log'[p] = {}
    BY <2>1
  <2>3. OnePerWindow'
    BY <2>1, <2>2 DEF LogInv, OnePerWindow
  <2>4. \A a \in Agents : \A i \in DOMAIN log'[a] : Covered(a, i)'
    BY <2>1, <2>2 DEF LogInv, Covered
  <2> QED BY <2>3, <2>4 DEF LogInv
<1>4. CASE Tick
  <2>1. now' = now + 1 /\ now \in Nat /\ UNCHANGED <<stamps, log>>
    BY <1>4 DEF Tick, BaseInv, TypeOK
  <2>2. ASSUME NEW a \in Agents, NEW i \in DOMAIN log[a] PROVE Covered(a, i)'
    <3>1. log[a][i] \in LogEntry
      <4>1. log[a] \in Seq(LogEntry)
        BY DEF BaseInv, TypeOK, LogEntry
      <4>2. i \in 1 .. Len(log[a])
        BY <2>2, <4>1, LenProperties
      <4> QED BY <4>1, <4>2, ElementOfSeq
    <3>2. log[a][i].at \in Nat /\ Window(log[a][i].key) \in Nat
      BY <3>1, Windows DEF LogEntry
    <3>3. Covered(a, i)
      BY DEF LogInv
    <3> QED BY <2>1, <3>2, <3>3 DEF Covered
  <2> QED BY <2>1, <2>2 DEF LogInv, OnePerWindow
<1>5. ASSUME NEW p \in Agents, Connect(p) \/ Disconnect(p) \/ FetchInboxItem(p) \/ InboxWait(p)
      PROVE  UNCHANGED <<now, stamps, log>>
  BY <1>5 DEF Connect, Disconnect, FetchInboxItem, InboxWait
<1>6. CASE UNCHANGED vars
  BY <1>1, <1>6 DEF vars
<1> QED BY <1>1, <1>2, <1>3, <1>4, <1>5, <1>6, Steps

-----------------------------------------------------------------------------
(* Agreement.                                                              *)

\* Every step keeps what confirmations and acceptances stand for.
LEMMA NextAgreed == BaseInv /\ EventsAgreed /\ [Next]_vars => EventsAgreed'
<1> SUFFICES ASSUME BaseInv, EventsAgreed, [Next]_vars PROVE EventsAgreed' OBVIOUS
<1>1. CASE UNCHANGED <<events, agreed>>
  BY <1>1 DEF EventsAgreed, Ids
<1>2. ASSUME NEW p \in Agents, AgentStep(p) PROVE EventsAgreed'
  BY <1>2 DEF AgentStep
<1>3. ASSUME NEW p \in Agents, Dispatch(p) PROVE UNCHANGED <<events, agreed>>
  BY <1>3, DispatchSteps DEF NextEvent
<1>4. ASSUME NEW p \in Agents,
             Connect(p) \/ Disconnect(p) \/ Restart(p) \/ FetchInboxItem(p) \/ InboxWait(p)
      PROVE  UNCHANGED <<events, agreed>>
  BY <1>4 DEF Connect, Disconnect, Restart, FetchInboxItem, InboxWait
<1>5. CASE Tick \/ UNCHANGED vars
  BY <1>1, <1>5 DEF Tick, vars
<1> QED BY <1>1, <1>2, <1>3, <1>4, <1>5, Steps

\* Everything together holds in the first state.
LEMMA InitInv == Init => BaseInv /\ LoopInv /\ LogInv /\ EventsAgreed
<1> SUFFICES ASSUME Init PROVE BaseInv /\ LoopInv /\ LogInv /\ EventsAgreed OBVIOUS
<1>1. LoopInv
  BY DEF Init, LoopInv
<1>2. \A p \in Agents : DOMAIN log[p] = {}
  <2>1. \A p \in Agents : log[p] = <<>>
    BY DEF Init
  <2>2. DOMAIN <<>> = {}
    OBVIOUS
  <2> QED BY <2>1, <2>2
<1>3. LogInv
  BY <1>2 DEF LogInv, OnePerWindow
<1>4. \A p \in Agents : Ids(p) = {}
  <2>1. Len(<<>>) = 0
    BY EmptySeq
  <2>2. \A p \in Agents : events[p] = <<>>
    BY DEF Init
  <2>3. 1 .. 0 = {}
    BY SMT
  <2>4. ASSUME NEW p \in Agents PROVE Ids(p) = 1 .. 0
    BY <2>1, <2>2, Zenon DEF Ids
  <2> QED BY <2>3, <2>4
<1>5. EventsAgreed
  BY <1>4 DEF EventsAgreed
<1> QED BY <1>1, <1>3, <1>5, InitBase

\* Adapters, sidecars and chats keep their types.
THEOREM TypeCorrect == Spec => []TypeOK
<1>1. BaseInv => TypeOK
  BY DEF BaseInv
<1> QED BY <1>1, InitBase, NextBase, PTL DEF Spec

\* A connection's loop dispatches its sidecar's events in order, skips none
\* and repeats none, for logs of any length and any number of agents.
THEOREM LoopDispatchesInOrder == Spec => []InboxInOrder
<1>1. LoopInv => InboxInOrder
  BY DEF LoopInv, InboxInOrder
<1> QED BY <1>1, InitInv, NextBase, NextLoop, PTL DEF Spec

\* No adapter sends or injects one key twice within its window, whatever the
\* cooldowns are and whatever the eviction removes.
THEOREM CooldownsHold == Spec => []OnePerWindow
<1>1. LogInv => OnePerWindow
  BY DEF LogInv
<1> QED BY <1>1, InitInv, NextBase, NextLog, PTL DEF Spec

\* An accepted plan that reaches a chat has been agreed to by both users, for
\* any number of agents, plans and replays.
THEOREM AcceptedPlansAreAgreed == Spec => []ConfirmedByBoth
<1>1. BaseInv /\ EventsAgreed => ConfirmedByBoth
  BY DEF BaseInv, Within, EventsAgreed, ConfirmedByBoth
<1> QED BY <1>1, InitInv, NextBase, NextAgreed, PTL DEF Spec
=============================================================================
