----------------------------- MODULE Onboarding -----------------------------
(***************************************************************************)
(* Onboarding a Claude Code session to a sidecar: the shadow://connect     *)
(* URI, the redemption of its handoff code by the MCP proxy, the keyring   *)
(* that keeps the access token for later spawns, the bridge between the    *)
(* two transports, and the inbound monitor that reads the same keyring.    *)
(*                                                                         *)
(* Proxies of several sessions and the monitor are processes of their own: *)
(* each keyring or network call is one action, any process may be killed   *)
(* between two of them, and any of these calls may fail.  The sidecar (a   *)
(* code buys one token, events have consecutive ids) is the environment.   *)
(***************************************************************************)
EXTENDS Integers, Sequences

CONSTANTS Spawns,      \* runs of the proxy
          Codes,       \* handoff codes; a code also names the token it buys
          Inline,      \* the token of inline URIs
          None,
          Uris,        \* bound: values of connect_url
          PasteBound,  \* bound: times the user changes it
          EventBound,  \* bound: events of the sidecar
          MonitorBound \* bound: runs of the monitor

Tokens == Codes \cup {Inline}

\* A connect URI as parse_connect_uri sees it: whether scheme, authority, path
\* and fragment are right, its query string, the mcp endpoint's scheme, and
\* its token and handoff parameters (a code of the wrong form is "bad").
Uri == [frame : BOOLEAN, query : {"ok", "malformed", "duplicate"},
        mcp : {"https", "loopback", "http", "none"},
        token : BOOLEAN, handoff : Codes \cup {"bad", None}]

ASSUME OnboardingAssumption ==
    /\ Uris \subseteq Uri \cup {None}
    /\ Inline \notin Codes /\ None \notin Codes \cup {Inline}
    /\ PasteBound \in Nat /\ EventBound \in Nat /\ MonitorBound \in Nat

VARIABLES uri,     \* the plugin's connect_url
          pastes,
          code,    \* the sidecar's view of each code: "live", "redeemed", "expired"
          keyring, \* handoff code -> cached token
          pc,      \* of each proxy: its next call,
          own,     \* the code of the URI it was started with, or Inline,
          tok,     \* its token,
          exit,    \* its exit status, None while it runs (1 also for a traceback),
          open,    \* and its pumps that still run
          faults,  \* history: codes a lost answer, a failed write or a kill hit
          monitor  \* the monitor: see MonitorIdle

vars == <<uri, pastes, code, keyring, pc, own, tok, exit, open, faults, monitor>>

Pumps == {"stdio->upstream", "upstream->stdio"}

\* The monitor before it runs; base and emitted are history.
MonitorIdle == [pc |-> "idle", own |-> None, tok |-> None, cursor |-> 0, batch |-> <<>>,
                base |-> 0, emitted |-> <<>>, arrived |-> 0, runs |-> 0]

Init ==
    /\ uri \in Uris
    /\ pastes = 0
    /\ code = [c \in Codes |-> "live"]
    /\ keyring = [c \in Codes |-> None]
    /\ pc = [s \in Spawns |-> "idle"]
    /\ own = [s \in Spawns |-> None]
    /\ tok = [s \in Spawns |-> None]
    /\ exit = [s \in Spawns |-> None]
    /\ open = [s \in Spawns |-> {}]
    /\ faults = {}
    /\ monitor = MonitorIdle

-----------------------------------------------------------------------------
\* parse_connect_uri: the first check that fails decides.  strict_parsing makes
\* parse_qsl raise ValueError on a malformed query.
ParseConnectUri(u) ==
    CASE ~u.frame                                          -> "ConnectURIError"
      [] u.frame /\ u.query = "malformed"                  -> "ValueError"
      [] u.frame /\ u.query = "duplicate"                  -> "ConnectURIError"
      [] u.frame /\ u.query = "ok" /\ u.mcp \in {"none", "http"} -> "ConnectURIError"
      [] u.frame /\ u.query = "ok" /\ u.mcp \in {"https", "loopback"} ->
            IF (u.token <=> u.handoff # None) \/ u.handoff = "bad" THEN "ConnectURIError"
            ELSE IF u.token THEN "inline" ELSE "handoff"

\* The process ends and its memory is gone.
Exit(s, status) ==
    /\ pc' = [pc EXCEPT ![s] = "done"]
    /\ exit' = [exit EXCEPT ![s] = status]
    /\ own' = [own EXCEPT ![s] = None]
    /\ tok' = [tok EXCEPT ![s] = None]
    /\ open' = [open EXCEPT ![s] = {}]

Bridge(s, token) ==
    /\ pc' = [pc EXCEPT ![s] = "bridge"]
    /\ tok' = [tok EXCEPT ![s] = token]
    /\ open' = [open EXCEPT ![s] = Pumps]
    /\ UNCHANGED exit

\* The user enters another connect URL; processes that run keep theirs.
Paste(u) ==
    /\ pastes < PasteBound
    /\ pastes' = pastes + 1
    /\ uri' = u
    /\ UNCHANGED <<code, keyring, pc, own, tok, exit, open, faults, monitor>>

\* A handoff code passes its lifetime.
Expire(c) ==
    /\ code[c] = "live"
    /\ code' = [code EXCEPT ![c] = "expired"]
    /\ UNCHANGED <<uri, pastes, keyring, pc, own, tok, exit, open, faults, monitor>>

\* _run up to the first call: no URL, a URL that does not parse, a token in
\* the URL, or a handoff code.
Start(s) ==
    /\ pc[s] = "idle"
    /\ \/ uri = None /\ Exit(s, 1)
       \/ /\ uri # None
          /\ LET r == ParseConnectUri(uri)
             IN  \/ r = "ConnectURIError" /\ Exit(s, 2)
                 \/ r = "ValueError" /\ Exit(s, 1)
                 \/ /\ r = "inline"
                    /\ Bridge(s, Inline)
                    /\ own' = [own EXCEPT ![s] = Inline]
                 \/ /\ r = "handoff"
                    /\ pc' = [pc EXCEPT ![s] = "cached"]
                    /\ own' = [own EXCEPT ![s] = uri.handoff]
                    /\ UNCHANGED <<tok, exit, open>>
    /\ UNCHANGED <<uri, pastes, code, keyring, faults, monitor>>

\* A slip: any cached token will do.
CachedAny(c) == IF \E d \in Codes : keyring[d] # None
                THEN keyring[CHOOSE d \in Codes : keyring[d] # None] ELSE None

\* The keyring's entry for a handoff code; the code is the user name.
Cached(c) == keyring[c]

\* _cached_access_token: a keyring that fails counts as empty.
CachedAccessToken(s) ==
    /\ pc[s] = "cached"
    /\ \/ /\ Cached(own[s]) # None
          /\ Bridge(s, Cached(own[s]))
       \/ /\ pc' = [pc EXCEPT ![s] = "redeem"]
          /\ UNCHANGED <<tok, exit, open>>
    /\ UNCHANGED <<uri, pastes, code, keyring, own, faults, monitor>>

\* _interpret_handoff_response: 200 carries the token, anything else is a
\* HandoffError (404 redeemed, 410 expired, 429, another status, a bad body).
Interpret(s, status) ==
    IF status = 200
    THEN /\ pc' = [pc EXCEPT ![s] = "store"]
         /\ tok' = [tok EXCEPT ![s] = own[s]]
         /\ UNCHANGED <<own, exit, open>>
    ELSE Exit(s, 3)

\* aredeem_handoff.  The sidecar redeems a live code once; its answer may get
\* lost, and a busy or unreachable sidecar leaves the code alone.
RedeemHandoff(s) ==
    /\ pc[s] = "redeem"
    /\ LET c == own[s]
       IN  \/ /\ code[c] = "live"
              /\ code' = [code EXCEPT ![c] = "redeemed"]
              /\ \/ Interpret(s, 200) /\ UNCHANGED faults
                 \/ Exit(s, 3) /\ faults' = faults \cup {c}
           \/ code[c] = "redeemed" /\ Interpret(s, 404) /\ UNCHANGED <<code, faults>>
           \/ code[c] = "expired" /\ Interpret(s, 410) /\ UNCHANGED <<code, faults>>
           \/ Interpret(s, 429) /\ UNCHANGED <<code, faults>>
    /\ UNCHANGED <<uri, pastes, keyring, monitor>>

\* A slip: only the first token is kept.
StoredIfEmpty(c, t) == IF \A d \in Codes : keyring[d] = None
                       THEN [keyring EXCEPT ![c] = t] ELSE keyring

\* keyring.set_password
Stored(c, t) == [keyring EXCEPT ![c] = t]

\* _cache_access_token: a failed write is logged, the token used all the same.
CacheAccessToken(s) ==
    /\ pc[s] = "store"
    /\ \/ keyring' = Stored(own[s], tok[s]) /\ UNCHANGED faults
       \/ faults' = faults \cup {own[s]} /\ UNCHANGED keyring
    /\ Bridge(s, tok[s])
    /\ UNCHANGED <<uri, pastes, code, own, monitor>>

\* One side closes and its pump ends; the other pump notices only when it has
\* something to forward.
PumpEnds(s, p) ==
    /\ pc[s] = "bridge" /\ p \in open[s]
    /\ open' = [open EXCEPT ![s] = @ \ {p}]
    /\ UNCHANGED <<uri, pastes, code, keyring, pc, own, tok, exit, faults, monitor>>

\* A slip: the end of a pump is seen only while the other one runs.
OnePumpEnded(s) == \E p \in Pumps : open[s] = {p}

\* asyncio.gather returns when both pumps have.
Gathered(s) == open[s] = {}

EndBridge(s) ==
    /\ pc[s] = "bridge" /\ Gathered(s)
    /\ Exit(s, 0)
    /\ UNCHANGED <<uri, pastes, code, keyring, faults, monitor>>

\* The proxy is killed; between redemption and write this strands its code.
Kill(s) ==
    /\ pc[s] \in {"cached", "redeem", "store", "bridge"}
    /\ Exit(s, 1)
    /\ faults' = IF pc[s] = "store" THEN faults \cup {own[s]} ELSE faults
    /\ UNCHANGED <<uri, pastes, code, keyring, monitor>>

-----------------------------------------------------------------------------
(* The inbound monitor: one process, restarted with each session.          *)

Set(upd) == /\ monitor' = upd
            /\ UNCHANGED <<uri, pastes, code, keyring, pc, own, tok, exit, open, faults>>

MonitorEnded == [MonitorIdle EXCEPT !.arrived = monitor.arrived, !.runs = monitor.runs]

\* _resolve_endpoint_and_token.  The monitor never redeems: with a handoff
\* URI it needs the token the proxy has cached, or it exits.  Without a URL
\* it would take SHADOWNET_TOKEN, which is the inline case.
MonitorStart ==
    /\ monitor.pc = "idle" /\ monitor.runs < MonitorBound
    /\ LET m == [monitor EXCEPT !.runs = @ + 1]
           r == IF uri = None THEN "none" ELSE ParseConnectUri(uri)
           cached == Cached(uri.handoff)
       IN  \/ r \in {"none", "ConnectURIError", "ValueError"} /\ Set(m)
           \/ r = "inline" /\ Set([m EXCEPT !.pc = "connect", !.own = Inline, !.tok = Inline])
           \/ r = "handoff" /\ cached # None
              /\ Set([m EXCEPT !.pc = "connect", !.own = uri.handoff, !.tok = cached])
           \/ r = "handoff" /\ Set(m)

\* The session opens with a new cursor: the sidecar replays what it kept, or
\* sends what comes from now on.  If it does not open the monitor ends.
MonitorConnect ==
    /\ monitor.pc = "connect"
    /\ \/ \E b \in {0, monitor.arrived} :
             Set([monitor EXCEPT !.pc = "loop", !.cursor = b, !.base = b, !.batch = <<>>,
                                 !.emitted = <<>>])
       \/ Set(MonitorEnded)

\* A slip: the cursor stays where it is.
CursorKept(c, n) == c

\* last_event_id = result.next_event_id
NextCursor(c, n) == n

\* inbox_wait answers; a failure is retried and changes nothing.
MonitorWait ==
    /\ monitor.pc = "loop" /\ monitor.batch = <<>>
    /\ \E n \in monitor.cursor + 1 .. monitor.arrived :
          Set([monitor EXCEPT !.batch = [i \in 1 .. n - monitor.cursor |-> monitor.cursor + i],
                              !.cursor = NextCursor(monitor.cursor, n)])

\* One event: a line on stdout, then a best-effort OS notification.
MonitorEmit ==
    /\ monitor.pc = "loop" /\ monitor.batch # <<>>
    /\ Set([monitor EXCEPT !.batch = Tail(@), !.emitted = Append(@, Head(monitor.batch))])

MonitorKilled ==
    /\ monitor.pc # "idle"
    /\ Set(MonitorEnded)

Arrive == monitor.arrived < EventBound /\ Set([monitor EXCEPT !.arrived = @ + 1])

Proxy(s) == \/ Start(s) \/ CachedAccessToken(s) \/ RedeemHandoff(s) \/ CacheAccessToken(s)
            \/ EndBridge(s)

Monitor == MonitorStart \/ MonitorConnect \/ MonitorWait \/ MonitorEmit

Next == \/ \E s \in Spawns : Proxy(s) \/ Kill(s) \/ (\E p \in Pumps : PumpEnds(s, p))
        \/ \E u \in Uris : Paste(u)
        \/ \E c \in Codes : Expire(c)
        \/ Monitor \/ MonitorKilled \/ Arrive

Spec == Init /\ [][Next]_vars

\* A proxy that runs takes its next step: its calls have timeouts.  The
\* monitor's loop asks and emits for ever.  Nobody has to start anything.
Fairness == /\ \A s \in Spawns : WF_vars(pc[s] # "idle" /\ Proxy(s))
            /\ WF_vars(MonitorWait) /\ WF_vars(MonitorEmit)

FairSpec == Spec /\ Fairness
-----------------------------------------------------------------------------
TypeOK ==
    /\ uri \in Uri \cup {None} /\ pastes \in Nat
    /\ code \in [Codes -> {"live", "redeemed", "expired"}]
    /\ keyring \in [Codes -> Codes \cup {None}]
    /\ pc \in [Spawns -> {"idle", "cached", "redeem", "store", "bridge", "done"}]
    /\ own \in [Spawns -> Tokens \cup {None}]
    /\ tok \in [Spawns -> Tokens \cup {None}]
    /\ exit \in [Spawns -> {0, 1, 2, 3} \cup {None}]
    /\ open \in [Spawns -> SUBSET Pumps]
    /\ faults \subseteq Codes
    /\ monitor \in [pc : {"idle", "connect", "loop"}, own : Tokens \cup {None},
                    tok : Tokens \cup {None}, cursor : Nat, batch : Seq(Nat), base : Nat,
                    emitted : Seq(Nat), arrived : Nat, runs : Nat]

(* "The cache key includes the handoff code itself, so a new code triggers *)
(* a new redemption": no proxy bridges and no monitor listens with a token *)
(* that another connect URL bought, however URLs and spawns alternate.     *)
TokenOfOwnUrl ==
    /\ \A s \in Spawns : pc[s] = "bridge" => tok[s] = own[s]
    /\ monitor.pc # "idle" => monitor.tok = monitor.own

(* A code buys one token, so the token must not get lost: once a code is   *)
(* redeemed its token is in the keyring or with a proxy about to write it, *)
(* unless the answer was lost, the write failed or that proxy was killed.  *)
RedeemedTokenKept ==
    \A c \in Codes : code[c] = "redeemed" =>
        \/ keyring[c] = c
        \/ \E s \in Spawns : pc[s] = "store" /\ own[s] = c
        \/ c \in faults

(* While the monitor runs, the lines it wrote and the events it has in     *)
(* hand are the sidecar's events up to its cursor, once each and in order. *)
MonitorInOrder ==
    monitor.pc = "loop" =>
        monitor.emitted \o monitor.batch =
            [i \in 1 .. monitor.cursor - monitor.base |-> monitor.base + i]

(* A started proxy bridges or exits, and once both sides are closed it     *)
(* ends; the monitor writes a line for every event unless it is killed.    *)
ProxySettles ==
    /\ \A s \in Spawns : pc[s] \in {"cached", "redeem", "store"} ~> pc[s] \in {"bridge", "done"}
    /\ \A s \in Spawns : (pc[s] = "bridge" /\ open[s] = {}) ~> pc[s] = "done"
    /\ (monitor.pc = "loop") ~> \/ monitor.pc # "loop"
                                \/ monitor.cursor = monitor.arrived /\ monitor.batch = <<>>
=============================================================================
