---------------------------- MODULE Coordination ----------------------------
(***************************************************************************)
(* Two or more people whose Hermes agents run the Shadownet adapter and    *)
(* arrange a plan: the long-poll inbox loop, the routing of events into    *)
(* chat sessions, its deduplication window, the send cooldown, and the     *)
(* four-message coordination flow that the injected instructions drive.    *)
(*                                                                         *)
(* Every await of the inbox loop ends an action, so sends of other tasks,  *)
(* disconnects and restarts come in between.  The sidecars (an event log   *)
(* per user), the language models (they do what an instruction says, or    *)
(* nothing) and the people are the environment.                            *)
(***************************************************************************)
EXTENDS Integers, Sequences

CONSTANTS Agents, Contexts,
          NoContext,        \* a task.update without contextId
          Statuses,         \* task states
          Setups,           \* bound: values of setup
          SendCooldown,     \* 120 s
          NotifyCooldown,   \* 60 s
          InboxLimit,       \* items one inbox call returns, 50
          ConnectBound      \* bound: connects and restarts

\* The coordination profile, in the order of the flow.
Intents == {"coordinate", "propose", "confirm", "accept"}

ASSUME CoordinationAssumption ==
    /\ Setups \subseteq [notify : [Agents -> {"none", "bad", "ok"}],
                          traffic : SUBSET {"plan", "text", "task"},
                          room : [Agents -> Nat], until : Nat]
    /\ NoContext \notin Contexts /\ Statuses \cap (Intents \cup {"text"}) = {}
    /\ SendCooldown \in Nat /\ NotifyCooldown \in Nat /\ InboxLimit \in Nat
    /\ ConnectBound \in Nat

VARIABLES now,
          setup,    \* SHADOWNET_NOTIFY_CHAT of each agent ("bad" names no chat of its
                    \* gateway), and bounds: what is written or reported, events in
                    \* each sidecar, and when the clock stops
          events,   \* of each agent: its sidecar's events, oldest first; its state is
          conn,     \* "down" or "up",
          cursor,   \* last_event_id, 0 before the first answer,
          batch,    \* ids of events received and not yet dispatched,
          item,     \* the inbox item of the event at hand: "none" yet, "text", "missing",
          stamps,   \* _send_timestamps and _notify_timestamps, None where absent
          todo,     \* ids of events in its chats the agent has not acted on
          agreed,   \* who has said yes to, or asked for, the plan of each context
          restarts, \* connects and restarts so far
          base,     \* history: the id before the first event of this connection,
          handled,  \* history: ids dispatched in this connection,
          told,     \* history: ids of events that reached a chat,
          log       \* history: what this adapter sent or injected, and when

loop == <<conn, cursor, batch, item, base, handled>>
vars == <<now, setup, events, loop, stamps, todo, agreed, restarts, told, log>>

None == -1
Peers(p) == Agents \ {p}

Events == [name : {"inbox.message"}, from : Agents, ctx : Contexts,
           what : Intents \cup {"text"}]
          \cup [name : {"task.update"}, from : Agents, ctx : Contexts \cup {NoContext},
                what : Statuses]
          \cup [name : {"other"}, from : Agents, ctx : {NoContext}, what : {"other"}]

\* What may be suppressed as too soon: a send to a contact, or a notice.
DedupKeys == {<<"send", p>> : p \in Agents}
             \cup {<<"task.update", x, s>> : x \in Contexts, s \in Statuses}
             \cup {<<"notify", p, i, x>> : p \in Agents, i \in Intents, x \in Contexts}

Window(k) == IF k[1] = "send" THEN SendCooldown ELSE NotifyCooldown

Init ==
    /\ now = 0
    /\ setup \in Setups
    /\ events = [p \in Agents |-> <<>>]
    /\ conn = [p \in Agents |-> "down"]
    /\ cursor = [p \in Agents |-> 0]
    /\ batch = [p \in Agents |-> <<>>]
    /\ item = [p \in Agents |-> "none"]
    /\ stamps = [p \in Agents |-> [k \in DedupKeys |-> None]]
    /\ todo = [p \in Agents |-> {}]
    /\ agreed = [x \in Contexts |-> {}]
    /\ restarts = 0
    /\ base = [p \in Agents |-> 0]
    /\ handled = [p \in Agents |-> <<>>]
    /\ told = [p \in Agents |-> {}]
    /\ log = [p \in Agents |-> <<>>]

-----------------------------------------------------------------------------
(* The connection and the inbox loop.                                      *)

\* connect: the session, identity, and a new inbox loop with no cursor.  A
\* sidecar asked without last_event_id replays what it kept, or only what
\* comes from now on.
Connect(p) ==
    /\ conn[p] = "down"
    /\ restarts < ConnectBound
    /\ restarts' = restarts + 1
    /\ conn' = [conn EXCEPT ![p] = "up"]
    /\ \E b \in {0, Len(events[p])} : /\ base' = [base EXCEPT ![p] = b]
                                      /\ cursor' = [cursor EXCEPT ![p] = b]
    /\ handled' = [handled EXCEPT ![p] = <<>>]
    /\ UNCHANGED <<now, setup, events, batch, item, stamps, todo, agreed, told, log>>

\* disconnect cancels the loop: cursor and undispatched events go with it.
Disconnect(p) ==
    /\ conn[p] = "up"
    /\ conn' = [conn EXCEPT ![p] = "down"]
    /\ cursor' = [cursor EXCEPT ![p] = 0]
    /\ batch' = [batch EXCEPT ![p] = <<>>]
    /\ item' = [item EXCEPT ![p] = "none"]
    /\ UNCHANGED <<now, setup, events, base, handled, stamps, todo, agreed, restarts, told, log>>

\* The gateway restarts: a new adapter, with empty timestamps.
Restart(p) ==
    /\ restarts < ConnectBound
    /\ restarts' = restarts + 1
    /\ conn' = [conn EXCEPT ![p] = "down"]
    /\ cursor' = [cursor EXCEPT ![p] = 0]
    /\ batch' = [batch EXCEPT ![p] = <<>>]
    /\ item' = [item EXCEPT ![p] = "none"]
    /\ stamps' = [stamps EXCEPT ![p] = [k \in DedupKeys |-> None]]
    /\ log' = [log EXCEPT ![p] = <<>>]
    /\ UNCHANGED <<now, setup, events, base, handled, todo, agreed, told>>

\* A slip: the cursor goes to the newest event, not to the last one received.
NewestEvent(p, n) == Len(events[p])

\* last_event_id = result.next_event_id
NextEventId(p, n) == n

\* inbox_wait answers with some events after the cursor.  A call that fails or
\* times out changes nothing: the loop asks again.
InboxWait(p) ==
    /\ conn[p] = "up" /\ batch[p] = <<>>
    /\ \E n \in cursor[p] + 1 .. Len(events[p]) :
          /\ batch' = [batch EXCEPT ![p] = [i \in 1 .. n - cursor[p] |-> cursor[p] + i]]
          /\ cursor' = [cursor EXCEPT ![p] = NextEventId(p, n)]
    /\ UNCHANGED <<now, setup, events, conn, item, base, handled, stamps, todo, agreed, restarts,
                   told, log>>

-----------------------------------------------------------------------------
(* _on_event                                                               *)

At(p) == events[p][Head(batch[p])]
Ready(p) == conn[p] = "up" /\ batch[p] # <<>>

\* The event at hand is dealt with, whatever came of it.
NextEvent(p) ==
    /\ batch' = [batch EXCEPT ![p] = Tail(@)]
    /\ item' = [item EXCEPT ![p] = "none"]
    /\ handled' = [handled EXCEPT ![p] = Append(@, Head(batch[p]))]
    /\ UNCHANGED <<now, setup, events, conn, cursor, base, agreed, restarts>>

\* The item is among the newest InboxLimit.
Listed(p) == Len(events[p]) - Head(batch[p]) < InboxLimit

\* A slip: the item is asked for until it is found.
FetchUntilFound(p) ==
    /\ Ready(p) /\ item[p] = "none" /\ At(p).name = "inbox.message" /\ Listed(p)
    /\ item' = [item EXCEPT ![p] = "text"]
    /\ UNCHANGED <<now, setup, events, conn, cursor, batch, base, handled, stamps, todo, agreed,
                   restarts, told, log>>

\* _fetch_inbox_item: the event carries no body, so the newest items are asked
\* for.  An older message, or a failed call, leaves it without one.
FetchInboxItem(p) ==
    /\ Ready(p) /\ item[p] = "none" /\ At(p).name = "inbox.message"
    /\ \E r \in {"text", "missing"} : /\ r = "text" => Listed(p)
                                      /\ item' = [item EXCEPT ![p] = r]
    /\ UNCHANGED <<now, setup, events, conn, cursor, batch, base, handled, stamps, todo, agreed,
                   restarts, told, log>>

\* A slip: every entry is evicted.
EvictAll(s, age) == [k \in DOMAIN s |-> None]

\* _evict_stale_timestamps
Evicted(s, age) == [k \in DOMAIN s |-> IF s[k] # None /\ now - s[k] > age THEN None ELSE s[k]]

\* The eviction touches the dictionary of the key only.
SameTable(k, l) == (k[1] = "send") <=> (l[1] = "send")

Stamped(s, k) ==
    LET t == [s EXCEPT ![k] = now]
    IN  [l \in DedupKeys |-> IF SameTable(k, l) THEN Evicted(t, 2 * Window(k))[l] ELSE t[l]]

TooSoon(p, k) == stamps[p][k] # None /\ now - stamps[p][k] < Window(k)

\* dedup_key
DedupKey(e) == IF e.name = "task.update" THEN <<"task.update", e.ctx, e.what>>
               ELSE <<"notify", e.from, e.what, e.ctx>>

\* handle_message puts the event into a chat, or fails and is logged.
HandleMessage(p, entry) ==
    LET i == Head(batch[p])
    IN  \/ /\ told' = [told EXCEPT ![p] = @ \cup {i}]
           /\ todo' = [todo EXCEPT ![p] = @ \cup {i}]
           /\ log' = [log EXCEPT ![p] = @ \o entry]
        \/ UNCHANGED <<told, todo, log>>

Drop == UNCHANGED <<told, todo, log>>

\* _resolve_notify_target
Target(p) == setup.notify[p] = "ok"

\* _inject_coordination_event and _inject_task_update from the deduplication
\* on: the timestamp is set before the target is known to exist.
InjectOnce(p, k) ==
    \/ TooSoon(p, k) /\ Drop /\ UNCHANGED stamps
    \/ /\ ~TooSoon(p, k)
       /\ stamps' = [stamps EXCEPT ![p] = Stamped(stamps[p], k)]
       /\ IF Target(p) THEN HandleMessage(p, <<[key |-> k, at |-> now]>>) ELSE Drop

InjectTaskUpdate(p) ==
    /\ Ready(p) /\ At(p).name = "task.update"
    /\ IF At(p).ctx = NoContext \/ setup.notify[p] = "none" THEN Drop /\ UNCHANGED stamps
       ELSE InjectOnce(p, DedupKey(At(p)))
    /\ NextEvent(p)

InjectCoordination(p) ==
    /\ Ready(p) /\ item[p] # "none" /\ At(p).what \in Intents
    /\ IF setup.notify[p] = "none" THEN Drop /\ UNCHANGED stamps ELSE InjectOnce(p, DedupKey(At(p)))
    /\ NextEvent(p)

InjectFreeForm(p) ==
    /\ Ready(p) /\ item[p] = "text" /\ At(p).what = "text" /\ setup.notify[p] # "none"
    /\ IF Target(p) THEN HandleMessage(p, <<>>) ELSE Drop
    /\ NextEvent(p) /\ UNCHANGED stamps

\* _surface_inbound_message: a chat with the sender, answered through send.
SurfaceInbound(p) ==
    /\ Ready(p) /\ item[p] = "text" /\ At(p).what = "text" /\ setup.notify[p] = "none"
    /\ HandleMessage(p, <<>>)
    /\ NextEvent(p) /\ UNCHANGED stamps

\* Other events, and messages without a text.
IgnoreEvent(p) ==
    /\ Ready(p)
    /\ \/ At(p).name = "other"
       \/ At(p).what = "text" /\ item[p] = "missing"
    /\ Drop /\ NextEvent(p) /\ UNCHANGED stamps

OnEvent(p) == \/ FetchInboxItem(p) \/ InjectTaskUpdate(p) \/ InjectCoordination(p)
              \/ InjectFreeForm(p) \/ SurfaceInbound(p) \/ IgnoreEvent(p)

-----------------------------------------------------------------------------
(* The agents and their users.                                             *)

\* The sidecar of q stores a message from p, if the tool call succeeds.
Deliver(p, q, x, what) ==
    \/ /\ Len(events[q]) < setup.room[q]
       /\ events' = [events EXCEPT ![q] =
             Append(@, [name |-> "inbox.message", from |-> p, ctx |-> x, what |-> what])]
    \/ UNCHANGED events

\* A slip: the agent accepts without asking.
AcceptAtOnce(intent) ==
    CASE intent = "coordinate" -> [ask |-> FALSE, reply |-> "propose"]
      [] intent = "propose"    -> [ask |-> TRUE,  reply |-> "confirm"]
      [] intent = "confirm"    -> [ask |-> FALSE, reply |-> "accept"]
      [] intent = "accept"     -> [ask |-> FALSE, reply |-> "none"]

\* _build_coordination_inject: what the agent is told to do, and whether its
\* user is to say yes first.
Instruction(intent) ==
    CASE intent = "coordinate" -> [ask |-> FALSE, reply |-> "propose"]
      [] intent = "propose"    -> [ask |-> TRUE,  reply |-> "confirm"]
      [] intent = "confirm"    -> [ask |-> TRUE,  reply |-> "accept"]
      [] intent = "accept"     -> [ask |-> FALSE, reply |-> "none"]

\* The agent follows the instruction of an event in its chat.
FollowInstruction(p) ==
    /\ \E i \in todo[p] :
          LET e == events[p][i]
              do == Instruction(e.what)
          IN  /\ e.what \in Intents
              /\ todo' = [todo EXCEPT ![p] = @ \ {i}]
              /\ IF do.ask THEN agreed' = [agreed EXCEPT ![e.ctx] = @ \cup {p}]
                 ELSE UNCHANGED agreed
              /\ IF do.reply = "none" THEN UNCHANGED events
                 ELSE Deliver(p, e.from, e.ctx, do.reply)
    /\ UNCHANGED <<now, setup, loop, stamps, restarts, told, log>>

\* The user says no, or reads a task update or a bridged message: no reply.
LetBe(p) ==
    /\ \E i \in todo[p] : todo' = [todo EXCEPT ![p] = @ \ {i}]
    /\ UNCHANGED <<now, setup, events, loop, stamps, agreed, restarts, told, log>>

\* send: the agent answers a surfaced chat.  A suppressed send changes nothing
\* and reports success; otherwise the cooldown starts before the call is made.
Send(p) ==
    /\ \E i \in todo[p] :
          LET q == events[p][i].from
              k == <<"send", q>>
          IN  /\ events[p][i].what = "text" /\ setup.notify[p] = "none"
              /\ todo' = [todo EXCEPT ![p] = @ \ {i}]
              /\ \/ TooSoon(p, k) /\ UNCHANGED <<stamps, events, log>>
                 \/ /\ ~TooSoon(p, k)
                    /\ stamps' = [stamps EXCEPT ![p] = Stamped(stamps[p], k)]
                    /\ IF conn[p] = "up" THEN Deliver(p, q, events[p][i].ctx, "text")
                       ELSE UNCHANGED events
                    /\ log' = [log EXCEPT ![p] = Append(@, [key |-> k, at |-> now])]
    /\ UNCHANGED <<now, setup, loop, agreed, restarts, told>>

\* A user asks their agent to coordinate with q, in a new context, or to pass
\* on a text.
StartPlan(p, q, x) ==
    /\ "plan" \in setup.traffic
    /\ agreed[x] = {}
    /\ agreed' = [agreed EXCEPT ![x] = {p}]
    /\ Deliver(p, q, x, "coordinate")
    /\ UNCHANGED <<now, setup, loop, stamps, todo, restarts, told, log>>

Write(p, q, x) ==
    /\ "text" \in setup.traffic
    /\ Deliver(p, q, x, "text")
    /\ UNCHANGED <<now, setup, loop, stamps, todo, agreed, restarts, told, log>>

\* The sidecar reports a task of p, or something the adapter ignores.
Report(p) ==
    /\ "task" \in setup.traffic
    /\ Len(events[p]) < setup.room[p]
    /\ \E e \in Events : /\ e.from = p /\ e.name # "inbox.message"
                         /\ events' = [events EXCEPT ![p] = Append(@, e)]
    /\ UNCHANGED <<now, setup, loop, stamps, todo, agreed, restarts, told, log>>

Tick ==
    /\ now < setup.until
    /\ now' = now + 1
    /\ UNCHANGED <<setup, events, loop, stamps, todo, agreed, restarts, told, log>>

Adapter(p) == Connect(p) \/ Disconnect(p) \/ Restart(p) \/ InboxWait(p) \/ OnEvent(p)
Agent(p) == FollowInstruction(p) \/ LetBe(p) \/ Send(p) \/ Report(p)

Next == \/ \E p \in Agents : Adapter(p) \/ Agent(p)
        \/ \E p \in Agents : \E q \in Peers(p), x \in Contexts : StartPlan(p, q, x) \/ Write(p, q, x)
        \/ Tick

Spec == Init /\ [][Next]_vars

\* The inbox loop runs forever: it asks again after a failure, and Python's
\* event loop resumes it.  Nothing else is promised to happen.
Fairness == \A p \in Agents : WF_vars(InboxWait(p)) /\ WF_vars(OnEvent(p))

FairSpec == Spec /\ Fairness
-----------------------------------------------------------------------------
TypeOK ==
    /\ now \in Nat
    /\ setup \in Setups
    /\ events \in [Agents -> Seq(Events)]
    /\ conn \in [Agents -> {"down", "up"}]
    /\ cursor \in [Agents -> Nat]
    /\ batch \in [Agents -> Seq(Nat)]
    /\ item \in [Agents -> {"none", "text", "missing"}]
    /\ stamps \in [Agents -> [DedupKeys -> Nat \cup {None}]]
    /\ todo \in [Agents -> SUBSET Nat]
    /\ agreed \in [Contexts -> SUBSET Agents]
    /\ restarts \in Nat
    /\ base \in [Agents -> Nat]
    /\ handled \in [Agents -> Seq(Nat)]
    /\ told \in [Agents -> SUBSET Nat]
    /\ log \in [Agents -> Seq([key : DedupKeys, at : Nat])]

(* "The plan is fully confirmed by both sides" is what the injected text   *)
(* tells the user on accept_plan_v1: by then both users have said yes, or  *)
(* asked for it, whatever was repeated, lost or replayed on the way.       *)
ConfirmedByBoth ==
    \A p \in Agents : \A i \in told[p] :
        events[p][i].what = "accept" => {p, events[p][i].from} \subseteq agreed[events[p][i].ctx]

(* While a connection lasts, what the loop has dispatched and what it has  *)
(* still in hand are the sidecar's events up to the cursor, in order: none *)
(* is skipped and none is dispatched twice.                                *)
InboxInOrder ==
    \A p \in Agents : conn[p] = "up" =>
        handled[p] \o batch[p] = [i \in 1 .. cursor[p] - base[p] |-> base[p] + i]

(* One adapter sends to a contact, or injects one notice, at most once per *)
(* cooldown window: the eviction of old timestamps never opens it early.   *)
OnePerWindow ==
    \A p \in Agents : \A i, j \in DOMAIN log[p] :
        i < j /\ log[p][i].key = log[p][j].key
            => log[p][j].at - log[p][i].at >= Window(log[p][i].key)

\* The sidecar holds events that the loop of p has not dispatched.
Pending(p) == base[p] + Len(handled[p]) < Len(events[p])

(* The inbox loop never stalls: while a connection stays up, it catches up *)
(* with its sidecar, whatever its calls and the chats make of the events.  *)
LoopCatchesUp == \A p \in Agents : (conn[p] = "up") ~> (conn[p] = "down" \/ ~Pending(p))
=============================================================================
