------------------------------ MODULE Receiver ------------------------------
(***************************************************************************)
(* ReceiverPipeline.receive and its async sibling: the validation of an    *)
(* envelope, the replay cache, the credential cache and the classification *)
(* of the sender, for concurrent deliveries to one Subject.                *)
(*                                                                         *)
(* A delivery is one run of receive.  Each call on a store or the network  *)
(* is one action: in the async pipeline other deliveries run at every      *)
(* await, in the sync one other threads run between any two calls.  The    *)
(* asyncio in-memory stores never suspend, so seen and remember are one    *)
(* step with them: Interleaved is FALSE.                                   *)
(***************************************************************************)
EXTENDS Integers

CONSTANTS Deliveries,   \* runs of receive
          Envelopes,    \* signed envelopes; any may be delivered several times
          Senders, MessageIds, Contexts, Credentials,
          NoContext,    \* "the message has no contextId"
          BadContext,   \* "its contextId is not a string"
          NoCredential, \* "no credential is being checked"
          SameOrg,      \* senders the same_provider_org shortcut applies to
          Trusted,      \* credentials that satisfy the stranger policy
          AskStrangers, \* FALSE: fromStranger is empty, strangers are rejected
          Interleaved,  \* whether others may run between seen and remember
          ContextIds,                   \* bound: contextIds of messages,
          IatRange, Lifetimes,          \* iat and exp - iat of envelopes,
          CredExps,                     \* exp of credentials
          MaxLifetime, Leeway,          \* 300 s and 60 s
          Retention,                    \* REPLAY_CACHE_RETENTION, 600 s
          MaxDelay,                     \* longest time from verify to seen
          CacheLeeway, CacheTtl,        \* 60 s and 30 days
          Lookback,                     \* auto_add_lookback_seconds, 7 days
          Peers,                        \* bound: senders the owner deals with
          TimeBound                     \* bound: the clock stops here

ASSUME ReceiverAssumption ==
    /\ SameOrg \subseteq Senders /\ Peers \subseteq Senders /\ Trusted \subseteq Credentials
    /\ NoContext \notin Contexts /\ BadContext \notin Contexts \cup {NoContext}
    /\ ContextIds \subseteq Contexts \cup {NoContext, BadContext}
    /\ NoCredential \notin Credentials
    /\ AskStrangers \in BOOLEAN /\ Interleaved \in BOOLEAN
    /\ IatRange \subseteq Nat /\ Lifetimes \subseteq Nat /\ CredExps \subseteq Nat
    /\ MaxLifetime \in Nat /\ Leeway \in Nat /\ MaxDelay \in Nat
    /\ CacheLeeway \in Nat /\ CacheTtl \in Nat /\ Lookback \in Nat /\ TimeBound \in Nat
    /\ Retention \in Nat

\* The retention the replay cache needs: 600 > 300 + 2 * 60 + MaxDelay.
ASSUME RetentionAssumption == Retention > MaxLifetime + 2 * Leeway + MaxDelay

VARIABLES now,
          envelopes,  \* claims of each envelope, and the message it is bound to
          credExp,    \* exp of each credential
          revoked,    \* credentials whose issuer has revoked them
          replay,     \* expiry of each (sender, messageId), 0 if not cached
          cached,     \* sender -> set of <<credential, expires_at>>
          contacts,   \* the owner's contacts
          outbound,   \* time of the last message to a peer in a context, or None
          pc, env,    \* of each delivery: its next call, its envelope,
          at,         \* when it checked the envelope, then the first credential,
          cur,        \* the credential it is checking,
          creds,      \* the credentials it goes by,
          result,     \* and its decision or wire error
          vetted,     \* history: credentials found unrevoked here
          known       \* history: senders the owner added or wrote to

cfgvars == <<envelopes, credExp>>
stores == <<replay, cached, contacts, outbound>>
vars == <<now, cfgvars, revoked, stores, pc, env, at, cur, creds, result, vetted, known>>

None == -1
Keys == Senders \X MessageIds

Claims == [from : Senders, id : MessageIds, iat : IatRange, life : Lifetimes,
           ctx : ContextIds, creds : SUBSET Credentials]

Init ==
    /\ now = 0
    /\ envelopes \in [Envelopes -> Claims]
    /\ credExp \in [Credentials -> CredExps]
    /\ revoked = {}
    /\ replay = [k \in Keys |-> 0]
    /\ cached = [s \in Senders |-> {}]
    /\ contacts = {}
    /\ outbound = [x \in Contexts \X Senders |-> None]
    /\ pc = [d \in Deliveries |-> "idle"]
    /\ env \in [Deliveries -> Envelopes]
    /\ at = [d \in Deliveries |-> 0]
    /\ cur = [d \in Deliveries |-> NoCredential]
    /\ creds = [d \in Deliveries |-> {}]
    /\ result = [d \in Deliveries |-> "none"]
    /\ vetted = {}
    /\ known = {}

-----------------------------------------------------------------------------
Env(d) == envelopes[env[d]]

\* A slip: messageIds of all senders share the cache.
KeyById(d) == <<CHOOSE s \in Senders : TRUE, Env(d).id>>

Key(d) == <<Env(d).from, Env(d).id>>

Goto(d, label) == pc' = [pc EXCEPT ![d] = label] /\ UNCHANGED result
Finish(d, r) == /\ pc' = [pc EXCEPT ![d] = "done"]
                /\ result' = [result EXCEPT ![d] = r]

\* verify_envelope: lifetime, expiry and issue time, with clock skew.
Fresh(c) == /\ c.life <= MaxLifetime
            /\ c.iat + c.life >= now - Leeway
            /\ c.iat <= now + Leeway

\* Parse, resolve the sender's key, verify the envelope, compare msgHash.  An
\* envelope that is fresh may still be refused: DNS or the AgentCard fails.
VerifyEnvelope(d) ==
    /\ pc[d] = "idle"
    /\ \/ /\ Fresh(Env(d))
          /\ Goto(d, "seen")
          /\ at' = [at EXCEPT ![d] = now]
       \/ Finish(d, "refused") /\ UNCHANGED at
    /\ UNCHANGED <<now, cfgvars, revoked, stores, env, cur, creds, vetted, known>>

\* ReplayCache._prune
Pruned == [k \in Keys |-> IF replay[k] <= now THEN 0 ELSE replay[k]]

\* A slip: the entry lives as long as the envelope.
RememberedLifetime(entries, d) == [entries EXCEPT ![Key(d)] = now + MaxLifetime]

\* ReplayCache.remember
Remembered(entries, d) == [entries EXCEPT ![Key(d)] = now + Retention]

\* ReplayCache.seen, and remember with it when nothing can come between.
SeenReplay(d) ==
    /\ pc[d] = "seen"
    /\ \/ /\ Pruned[Key(d)] # 0
          /\ Finish(d, "replayed")
          /\ replay' = Pruned
       \/ /\ Pruned[Key(d)] = 0
          /\ Interleaved
          /\ Goto(d, "remember")
          /\ replay' = Pruned
       \/ /\ Pruned[Key(d)] = 0
          /\ ~Interleaved
          /\ Goto(d, "creds")
          /\ replay' = Remembered(Pruned, d)
    /\ UNCHANGED <<now, cfgvars, revoked, cached, contacts, outbound, env, at, cur,
                   creds, vetted, known>>

RememberReplay(d) ==
    /\ pc[d] = "remember"
    /\ Goto(d, "creds")
    /\ replay' = Remembered(replay, d)
    /\ UNCHANGED <<now, cfgvars, revoked, cached, contacts, outbound, env, at, cur,
                   creds, vetted, known>>

\* A slip: expired entries are served.
LiveOrNot(s) == cached[s]

\* CredentialCache.for_sender drops what has expired.
Live(s) == {e \in cached[s] : e[2] > now}

\* _validate_creds without creds: the cache is read and pruned.
ReadCache(d) ==
    /\ pc[d] = "creds"
    /\ Env(d).creds = {}
    /\ cached' = [cached EXCEPT ![Env(d).from] = Live(Env(d).from)]
    /\ creds' = [creds EXCEPT ![d] = {e[1] : e \in Live(Env(d).from)}]
    /\ at' = [at EXCEPT ![d] = now]
    /\ Goto(d, "contact")
    /\ UNCHANGED <<now, cfgvars, revoked, replay, contacts, outbound, env, cur,
                   vetted, known>>

\* _validate_creds, one turn of its loop (the order of the list is left open):
\* verify_credential, which may also fail for other reasons than expiry.
VerifyCredential(d) ==
    /\ pc[d] = "creds"
    /\ \E c \in Env(d).creds \ creds[d] :
          \/ /\ credExp[c] >= now - Leeway
             /\ Goto(d, "status")
             /\ cur' = [cur EXCEPT ![d] = c]
             /\ at' = [at EXCEPT ![d] = IF creds[d] = {} THEN now ELSE @]
          \/ Finish(d, "creds_rejected") /\ UNCHANGED <<cur, at>>
    /\ UNCHANGED <<now, cfgvars, revoked, stores, env, creds, vetted, known>>

\* The status list says revoked, or cannot be fetched, or lets it pass.
CheckRevocation(d) ==
    /\ pc[d] = "status"
    /\ \/ /\ cur[d] \notin revoked
          /\ Goto(d, "cache")
          /\ vetted' = vetted \cup {cur[d]}
       \/ Finish(d, "creds_rejected") /\ UNCHANGED vetted
    /\ UNCHANGED <<now, cfgvars, revoked, stores, env, at, cur, creds, known>>

Earlier(a, b) == IF a < b THEN a ELSE b

\* CredentialCache.cache, and on to the next credential.
CacheCredential(d) ==
    /\ pc[d] = "cache"
    /\ LET c == cur[d]
           until == Earlier(credExp[c] - CacheLeeway, now + CacheTtl)
       IN  /\ cached' = [cached EXCEPT ![Env(d).from] = @ \cup {<<c, until>>}]
           /\ creds' = [creds EXCEPT ![d] = @ \cup {c}]
           /\ cur' = [cur EXCEPT ![d] = NoCredential]
           /\ Goto(d, IF Env(d).creds \subseteq creds[d] \cup {c} THEN "contact" ELSE "creds")
    /\ UNCHANGED <<now, cfgvars, revoked, replay, contacts, outbound, env, at,
                   vetted, known>>

\* The type of contextId, then _classify: the same-provider shortcut and
\* ContactGraph.is_contact.
IsContact(d) ==
    /\ pc[d] = "contact"
    /\ \/ Env(d).ctx = BadContext /\ Finish(d, "malformed")
       \/ /\ Env(d).ctx # BadContext
          /\ \/ Env(d).from \in SameOrg \cup contacts /\ Finish(d, "inbox")
             \/ Env(d).from \notin SameOrg \cup contacts /\ Goto(d, "outbound")
    /\ UNCHANGED <<now, cfgvars, revoked, stores, env, at, cur, creds, vetted, known>>

\* A slip: anybody may answer in the context.
RecentOutboundToAny(d) ==
    /\ Env(d).ctx # NoContext
    /\ \E s \in Senders : /\ outbound[<<Env(d).ctx, s>>] # None
                          /\ outbound[<<Env(d).ctx, s>>] >= now - Lookback

\* ContactGraph.has_recent_outbound
RecentOutbound(d) ==
    LET x == <<Env(d).ctx, Env(d).from>>
    IN  /\ Env(d).ctx # NoContext
        /\ outbound[x] # None
        /\ outbound[x] >= now - Lookback

\* _classify: a reply to the owner, or a stranger the policy decides about.
ClassifyStranger(d) ==
    /\ pc[d] = "outbound"
    /\ \/ RecentOutbound(d) /\ Goto(d, "add")
       \/ /\ ~RecentOutbound(d)
          /\ \/ ~AskStrangers /\ Finish(d, "policy")
             \/ AskStrangers /\ creds[d] \cap Trusted # {} /\ Finish(d, "stranger_review")
             \/ /\ AskStrangers /\ creds[d] \cap Trusted = {}
                /\ Finish(d, IF creds[d] = {} THEN "creds_required" ELSE "creds_rejected")
    /\ UNCHANGED <<now, cfgvars, revoked, stores, env, at, cur, creds, vetted, known>>

\* ContactGraph.add_contact by the pipeline
AutoAdd(d) ==
    /\ pc[d] = "add"
    /\ contacts' = contacts \cup {Env(d).from}
    /\ Finish(d, "inbox")
    /\ UNCHANGED <<now, cfgvars, revoked, replay, cached, outbound, env, at, cur,
                   creds, vetted, known>>

-----------------------------------------------------------------------------
\* The owner edits the contacts or writes to someone; the issuer revokes.
AddContact(s) ==
    /\ s \notin contacts
    /\ contacts' = contacts \cup {s}
    /\ known' = known \cup {s}
    /\ UNCHANGED <<now, cfgvars, revoked, replay, cached, outbound, pc, env, at, cur,
                   creds, result, vetted>>

RemoveContact(s) ==
    /\ s \in contacts
    /\ contacts' = contacts \ {s}
    /\ UNCHANGED <<now, cfgvars, revoked, replay, cached, outbound, pc, env, at, cur,
                   creds, result, vetted, known>>

RecordOutbound(x, s) ==
    /\ outbound' = [outbound EXCEPT ![<<x, s>>] = now]
    /\ known' = known \cup {s}
    /\ UNCHANGED <<now, cfgvars, revoked, replay, cached, contacts, pc, env, at, cur,
                   creds, result, vetted>>

Revoke(c) ==
    /\ c \notin revoked
    /\ revoked' = revoked \cup {c}
    /\ UNCHANGED <<now, cfgvars, stores, pc, env, at, cur, creds, result, vetted, known>>

\* Time passes, but a delivery reaches seen within MaxDelay of its check.
Tick ==
    /\ now < TimeBound
    /\ \A d \in Deliveries : pc[d] = "seen" => now < at[d] + MaxDelay
    /\ now' = now + 1
    /\ UNCHANGED <<cfgvars, revoked, stores, pc, env, at, cur, creds, result, vetted, known>>

Receive(d) == \/ VerifyEnvelope(d) \/ SeenReplay(d) \/ RememberReplay(d)
              \/ ReadCache(d) \/ VerifyCredential(d) \/ CheckRevocation(d)
              \/ CacheCredential(d) \/ IsContact(d) \/ ClassifyStranger(d)
              \/ AutoAdd(d)

Owner == \/ \E s \in Peers : AddContact(s) \/ RemoveContact(s)
         \/ \E x \in Contexts, s \in Peers : RecordOutbound(x, s)

\* Every delivery has been answered.
Finished == (\A d \in Deliveries : pc[d] = "done") /\ UNCHANGED vars

Next == \/ \E d \in Deliveries : Receive(d)
        \/ Owner
        \/ \E c \in Credentials : Revoke(c)
        \/ Tick
        \/ Finished

Spec == Init /\ [][Next]_vars
-----------------------------------------------------------------------------
\* The stores keep their types: no replay entry is dated before the epoch.
TypeOK ==
    /\ now \in Nat
    /\ envelopes \in [Envelopes -> Claims]
    /\ credExp \in [Credentials -> Nat]
    /\ revoked \subseteq Credentials
    /\ replay \in [Keys -> Nat]
    /\ cached \in [Senders -> SUBSET (Credentials \X Int)]
    /\ contacts \subseteq Senders
    /\ outbound \in [Contexts \X Senders -> Nat \cup {None}]
    /\ pc \in [Deliveries -> {"idle", "seen", "remember", "creds", "status", "cache",
                              "contact", "outbound", "add", "done"}]
    /\ env \in [Deliveries -> Envelopes]
    /\ at \in [Deliveries -> Nat]
    /\ cur \in [Deliveries -> Credentials \cup {NoCredential}]
    /\ creds \in [Deliveries -> SUBSET Credentials]
    /\ result \in [Deliveries -> {"none", "refused", "replayed", "malformed",
                                  "creds_rejected", "creds_required", "policy",
                                  "inbox", "stranger_review"}]
    /\ vetted \subseteq Credentials
    /\ known \subseteq Senders

Accepted(d) == result[d] \in {"inbox", "stranger_review"}

(* ReplayError: "(from, messageId) already seen."  An envelope is accepted *)
(* at most once, however often it is delivered: while verify_envelope      *)
(* still takes it, clock skew included, the replay cache still knows it.   *)
AtMostOnce ==
    \A d, e \in Deliveries :
        d # e /\ Accepted(d) /\ Accepted(e) => env[d] # env[e]

\* Delivery d has been let through by the replay cache.
LetThrough(d) == \/ pc[d] \in {"creds", "status", "cache", "contact", "outbound", "add"}
                 \/ result[d] \in {"malformed", "creds_rejected", "creds_required",
                                   "policy", "inbox", "stranger_review"}

(* A delivery is called a replay only if another one with the same sender  *)
(* and messageId was let through: senders cannot shadow each other's ids.  *)
ReplayedOnlyIfSeen ==
    \A d \in Deliveries : result[d] = "replayed" =>
        \E e \in Deliveries : /\ LetThrough(e)
                               /\ Env(e).from = Env(d).from /\ Env(e).id = Env(d).id

(* A stranger gets to review only with a trusted credential that this      *)
(* receiver has once found unrevoked and that had not expired, up to the   *)
(* clock skew, when it was verified or taken from the cache: one that was  *)
(* cached by a delivery that failed later counts, a stale one does not.    *)
StrangersAreVetted ==
    \A d \in Deliveries : result[d] = "stranger_review" =>
        \E c \in creds[d] \cap Trusted : c \in vetted /\ credExp[c] >= at[d] - Leeway

(* Only senders of the same organisation, or whom the owner added or wrote *)
(* to first, reach the inbox or the contacts: quoting the contextId of a   *)
(* conversation with somebody else is not enough.                          *)
InboxIsForTheKnown ==
    /\ contacts \subseteq known
    /\ \A d \in Deliveries : result[d] = "inbox" => Env(d).from \in SameOrg \cup known
=============================================================================
