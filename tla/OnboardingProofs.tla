-------------------------- MODULE OnboardingProofs --------------------------
(***************************************************************************)
(* Proofs about Onboarding, for any number of proxies, codes, URLs, events *)
(* and monitor runs.                                                       *)
(***************************************************************************)
EXTENDS Onboarding, SequenceTheorems, TLAPS

USE Zenon, SMTT(10)

\* A URL that yields a handoff has a code of the right form.
LEMMA HandoffHasCode ==
    ASSUME NEW u \in Uri, ParseConnectUri(u) = "handoff"
    PROVE  u.handoff \in Codes
BY OnboardingAssumption DEF Uri, ParseConnectUri

\* The URL at hand is a URL unless it is missing.
LEMMA UriTyped == TypeOK /\ uri # None => uri \in Uri
BY DEF TypeOK

\* What a proxy that ends leaves is well typed.
LEMMA ExitTyped ==
    ASSUME TypeOK, NEW s \in Spawns, NEW status \in {0, 1, 2, 3}, Exit(s, status)
    PROVE  /\ pc' \in [Spawns -> {"idle", "cached", "redeem", "store", "bridge", "done"}]
           /\ own' \in [Spawns -> Tokens \cup {None}]
           /\ tok' \in [Spawns -> Tokens \cup {None}]
           /\ exit' \in [Spawns -> {0, 1, 2, 3} \cup {None}]
           /\ open' \in [Spawns -> SUBSET Pumps]
BY DEF TypeOK, Exit

\* So is what a proxy that bridges leaves.
LEMMA BridgeTyped ==
    ASSUME TypeOK, NEW s \in Spawns, NEW t \in Tokens \cup {None}, Bridge(s, t)
    PROVE  /\ pc' \in [Spawns -> {"idle", "cached", "redeem", "store", "bridge", "done"}]
           /\ tok' \in [Spawns -> Tokens \cup {None}]
           /\ exit' \in [Spawns -> {0, 1, 2, 3} \cup {None}]
           /\ open' \in [Spawns -> SUBSET Pumps]
BY DEF TypeOK, Bridge

\* Until a proxy bridges or ends it works on a handoff code.
OwnsCode == \A s \in Spawns : pc[s] \in {"cached", "redeem", "store"} => own[s] \in Codes

\* The token a proxy holds is the one of its URL, and the keyring keeps each
\* token under the code that bought it.
HoldsOwn == \A s \in Spawns : pc[s] \in {"store", "bridge"} => tok[s] = own[s]
KeyringKeyed == \A c \in Codes : keyring[c] \in {None, c}

TokenInv == TypeOK /\ OwnsCode /\ HoldsOwn /\ KeyringKeyed /\ RedeemedTokenKept

\* The monitor's fields have their types.
MonitorTyped ==
    monitor \in [pc : {"idle", "connect", "loop"}, own : Tokens \cup {None},
                 tok : Tokens \cup {None}, cursor : Nat, batch : Seq(Nat), base : Nat,
                 emitted : Seq(Nat), arrived : Nat, runs : Nat]

\* The token of a monitor that runs is the one of its URL, and what it wrote
\* and has in hand are the events up to its cursor.
MonitorInv ==
    /\ MonitorTyped
    /\ monitor.pc # "idle" => monitor.tok = monitor.own
    /\ monitor.base <= monitor.cursor
    /\ MonitorInOrder

Inv == TokenInv /\ MonitorInv

\* Moving the head of one sequence to the end of another leaves what they are
\* together.
LEMMA MoveHead ==
    ASSUME NEW S, NEW s \in Seq(S), NEW t \in Seq(S), t # <<>>
    PROVE  /\ Append(s, Head(t)) \o Tail(t) = s \o t
           /\ Append(s, Head(t)) \in Seq(S) /\ Tail(t) \in Seq(S)
<1>1. Head(t) \in S /\ Tail(t) \in Seq(S) /\ t = <<Head(t)>> \o Tail(t)
  <2>1. Head(t) \in S /\ Tail(t) \in Seq(S) /\ Len(Tail(t)) = Len(t) - 1
        /\ \A i \in 1 .. Len(Tail(t)) : Tail(t)[i] = t[i + 1]
    BY HeadTailProperties
  <2>2. t = <<Head(t)>> \o Tail(t)
    BY <2>1, SMT
  <2> QED BY <2>1, <2>2
<1>2. Append(s, Head(t)) = s \o <<Head(t)>> /\ <<Head(t)>> \in Seq(S)
  BY <1>1, AppendIsConcat
<1>3. (s \o <<Head(t)>>) \o Tail(t) = s \o (<<Head(t)>> \o Tail(t))
  BY <1>1, <1>2, ConcatAssociative
<1> QED BY <1>1, <1>2, <1>3, AppendProperties

\* Consecutive numbers after a, and those after them, are consecutive.
LEMMA Consecutive ==
    ASSUME NEW a \in Nat, NEW b \in Nat, NEW c \in Nat, a <= b, b <= c
    PROVE  /\ [i \in 1 .. b - a |-> a + i] \o [i \in 1 .. c - b |-> b + i]
                  = [i \in 1 .. c - a |-> a + i]
           /\ [i \in 1 .. b - a |-> a + i] \in Seq(Nat)
<1> DEFINE s == [i \in 1 .. b - a |-> a + i]
           t == [i \in 1 .. c - b |-> b + i]
           u == [i \in 1 .. c - a |-> a + i]
<1>1. s \in Seq(Nat) /\ Len(s) = b - a
  BY SMT
<1>2. t \in Seq(Nat) /\ Len(t) = c - b
  BY SMT
<1>3. u \in Seq(Nat) /\ Len(u) = c - a
  BY SMT
<1>4. s \o t \in Seq(Nat) /\ Len(s \o t) = c - a
  BY <1>1, <1>2, ConcatProperties
<1>5. ASSUME NEW i \in 1 .. c - a PROVE (s \o t)[i] = u[i]
  <2>1. (s \o t)[i] = IF i <= Len(s) THEN s[i] ELSE t[i - Len(s)]
    BY <1>1, <1>2, ConcatProperties
  <2>2. u[i] = a + i
    OBVIOUS
  <2>3. CASE i <= b - a
    BY <2>1, <2>2, <2>3, <1>1
  <2>4. CASE i > b - a
    <3>1. t[i - (b - a)] = b + (i - (b - a))
      BY <2>4, SMT
    <3> QED BY <2>1, <2>2, <2>4, <3>1, <1>1
  <2> QED BY <2>3, <2>4
<1> HIDE DEF s, t, u
<1>6. s \o t = u
  BY <1>3, <1>4, <1>5, SeqEqual
<1> QED BY <1>1, <1>6 DEF s, t, u

-----------------------------------------------------------------------------
(* The proxies.                                                            *)

\* The first state satisfies the invariant.
LEMMA InitInv == Init => Inv
<1> SUFFICES ASSUME Init PROVE Inv OBVIOUS
<1>1. MonitorTyped /\ monitor.pc = "idle" /\ monitor.base <= monitor.cursor
  <2>1. <<>> \in Seq(Nat)
    BY EmptySeq
  <2> QED BY <2>1 DEF Init, MonitorIdle, MonitorTyped
<1>2. MonitorInv
  BY <1>1 DEF MonitorInv, MonitorInOrder
<1>3. TypeOK
  BY <1>1, OnboardingAssumption DEF Init, TypeOK, MonitorTyped
<1>4. OwnsCode /\ HoldsOwn /\ KeyringKeyed /\ RedeemedTokenKept
  BY DEF Init, OwnsCode, HoldsOwn, KeyringKeyed, RedeemedTokenKept
<1> QED BY <1>2, <1>3, <1>4 DEF Inv, TokenInv

\* A proxy that ends, other than between redemption and write, or that loses
\* its code to a fault, keeps the invariant.
LEMMA ExitKeeps ==
    ASSUME TokenInv, NEW s \in Spawns, NEW status \in {0, 1, 2, 3}, Exit(s, status),
           pc[s] = "store" => own[s] \in faults',
           faults \subseteq faults', faults' \subseteq Codes,
           UNCHANGED <<uri, pastes, keyring, monitor>>,
           code' \in [Codes -> {"live", "redeemed", "expired"}],
           \A c \in Codes : code'[c] = "redeemed" => code[c] = "redeemed" \/ c \in faults'
    PROVE  TokenInv'
<1>1. TypeOK'
  BY ExitTyped DEF TokenInv, TypeOK
<1>2. OwnsCode' /\ HoldsOwn'
  BY DEF TokenInv, TypeOK, OwnsCode, HoldsOwn, Exit
<1>3. KeyringKeyed'
  BY DEF TokenInv, KeyringKeyed
<1>4. RedeemedTokenKept'
  <2> SUFFICES ASSUME NEW c \in Codes, code'[c] = "redeemed", c \notin faults', keyring'[c] # c
               PROVE  \E x \in Spawns : pc'[x] = "store" /\ own'[x] = c
    BY DEF RedeemedTokenKept
  <2>1. PICK x \in Spawns : pc[x] = "store" /\ own[x] = c
    BY DEF TokenInv, RedeemedTokenKept
  <2>2. x # s
    BY <2>1
  <2>3. pc'[x] = "store" /\ own'[x] = c
    BY <2>1, <2>2 DEF TokenInv, TypeOK, Exit
  <2> QED BY <2>3
<1> QED BY <1>1, <1>2, <1>3, <1>4 DEF TokenInv

\* A proxy that starts to bridge with the token of its URL keeps it.
LEMMA BridgeKeeps ==
    ASSUME TokenInv, NEW s \in Spawns, NEW t \in Tokens, Bridge(s, t),
           own' \in [Spawns -> Tokens \cup {None}], own'[s] = t,
           \A x \in Spawns \ {s} : own'[x] = own[x],
           pc[s] = "store" => own[s] \in faults' \/ keyring'[own[s]] = own[s],
           faults \subseteq faults', faults' \subseteq Codes,
           keyring' \in [Codes -> Codes \cup {None}], KeyringKeyed',
           \A c \in Codes : keyring[c] = c => keyring'[c] = c,
           UNCHANGED <<uri, pastes, code, monitor>>
    PROVE  TokenInv'
<1>1. TypeOK'
  BY BridgeTyped DEF TokenInv, TypeOK
<1>2. \A x \in Spawns \ {s} : pc'[x] = pc[x] /\ own'[x] = own[x] /\ tok'[x] = tok[x]
  BY DEF TokenInv, TypeOK, Bridge
<1>3. pc'[s] = "bridge" /\ tok'[s] = t
  BY DEF TokenInv, TypeOK, Bridge
<1>4. OwnsCode' /\ HoldsOwn'
  BY <1>2, <1>3 DEF TokenInv, OwnsCode, HoldsOwn
<1>5. RedeemedTokenKept'
  <2> SUFFICES ASSUME NEW c \in Codes, code'[c] = "redeemed", c \notin faults', keyring'[c] # c
               PROVE  \E x \in Spawns : pc'[x] = "store" /\ own'[x] = c
    BY DEF RedeemedTokenKept
  <2>1. PICK x \in Spawns : pc[x] = "store" /\ own[x] = c
    BY DEF TokenInv, RedeemedTokenKept
  <2>2. x # s
    BY <2>1
  <2> QED BY <1>2, <2>1, <2>2
<1> QED BY <1>1, <1>4, <1>5 DEF TokenInv

\* Start: nothing of the codes and the keyring changes.
LEMMA StartKeeps ==
    ASSUME TokenInv, NEW s \in Spawns, Start(s)
    PROVE  TokenInv'
<1>0. /\ pc[s] = "idle"
      /\ UNCHANGED <<uri, pastes, code, keyring, faults, monitor>>
  BY DEF Start
<1>1. ASSUME NEW status \in {1, 2}, Exit(s, status) PROVE TokenInv'
  BY <1>0, <1>1, ExitKeeps DEF TokenInv, TypeOK
<1>2. CASE Bridge(s, Inline) /\ own' = [own EXCEPT ![s] = Inline]
  <2>1. Inline \in Tokens
    BY DEF Tokens
  <2>2. /\ own' \in [Spawns -> Tokens \cup {None}] /\ own'[s] = Inline
        /\ \A x \in Spawns \ {s} : own'[x] = own[x]
    BY <1>2, <2>1 DEF TokenInv, TypeOK
  <2>3. /\ keyring' \in [Codes -> Codes \cup {None}] /\ KeyringKeyed' /\ faults' \subseteq Codes
        /\ faults \subseteq faults' /\ \A c \in Codes : keyring[c] = c => keyring'[c] = c
    BY <1>0 DEF TokenInv, TypeOK, KeyringKeyed
  <2> QED BY <1>0, <1>2, <2>1, <2>2, <2>3, BridgeKeeps
<1>3. CASE /\ uri # None /\ ParseConnectUri(uri) = "handoff"
           /\ pc' = [pc EXCEPT ![s] = "cached"]
           /\ own' = [own EXCEPT ![s] = uri.handoff]
           /\ UNCHANGED <<tok, exit, open>>
  <2>1. uri.handoff \in Codes
    BY <1>3, UriTyped, HandoffHasCode DEF TokenInv
  <2>2. TypeOK'
    BY <1>0, <1>3, <2>1 DEF TokenInv, TypeOK, Tokens
  <2>3. /\ pc'[s] = "cached" /\ own'[s] \in Codes
        /\ \A x \in Spawns \ {s} : pc'[x] = pc[x] /\ own'[x] = own[x] /\ tok'[x] = tok[x]
    BY <1>3, <2>1 DEF TokenInv, TypeOK
  <2>4. OwnsCode' /\ HoldsOwn' /\ KeyringKeyed'
    BY <1>0, <2>3 DEF TokenInv, OwnsCode, HoldsOwn, KeyringKeyed
  <2>5. RedeemedTokenKept'
    BY <1>0, <2>3 DEF TokenInv, RedeemedTokenKept
  <2> QED BY <2>2, <2>4, <2>5 DEF TokenInv
<1> QED BY <1>1, <1>2, <1>3 DEF Start

\* _cached_access_token: the entry of the proxy's own code, or none.
LEMMA CachedKeeps ==
    ASSUME TokenInv, NEW s \in Spawns, CachedAccessToken(s)
    PROVE  TokenInv'
<1>0. /\ pc[s] = "cached" /\ own[s] \in Codes
      /\ UNCHANGED <<uri, pastes, code, keyring, own, faults, monitor>>
  BY DEF CachedAccessToken, TokenInv, OwnsCode
<1>1. CASE Cached(own[s]) # None /\ Bridge(s, Cached(own[s]))
  <2>1. Cached(own[s]) = own[s] /\ own[s] \in Tokens
    BY <1>0, <1>1 DEF Cached, TokenInv, KeyringKeyed, Tokens
  <2>2. Bridge(s, own[s])
    BY <1>1, <2>1
  <2>3. own' \in [Spawns -> Tokens \cup {None}] /\ own'[s] = own[s]
        /\ \A x \in Spawns \ {s} : own'[x] = own[x]
    BY <1>0 DEF TokenInv, TypeOK
  <2>4. /\ keyring' \in [Codes -> Codes \cup {None}] /\ KeyringKeyed' /\ faults' \subseteq Codes
        /\ faults \subseteq faults' /\ \A c \in Codes : keyring[c] = c => keyring'[c] = c
    BY <1>0 DEF TokenInv, TypeOK, KeyringKeyed
  <2> QED BY <1>0, <2>1, <2>2, <2>3, <2>4, BridgeKeeps
<1>2. CASE pc' = [pc EXCEPT ![s] = "redeem"] /\ UNCHANGED <<tok, exit, open>>
  <2>1. TypeOK'
    BY <1>0, <1>2 DEF TokenInv, TypeOK
  <2>2. /\ pc'[s] = "redeem" /\ own' = own /\ tok' = tok
        /\ \A x \in Spawns \ {s} : pc'[x] = pc[x]
    BY <1>0, <1>2 DEF TokenInv, TypeOK
  <2>3. OwnsCode' /\ HoldsOwn' /\ KeyringKeyed'
    BY <1>0, <2>2 DEF TokenInv, OwnsCode, HoldsOwn, KeyringKeyed
  <2>4. RedeemedTokenKept'
    BY <1>0, <2>2 DEF TokenInv, RedeemedTokenKept
  <2> QED BY <2>1, <2>3, <2>4 DEF TokenInv
<1> QED BY <1>1, <1>2 DEF CachedAccessToken

\* aredeem_handoff: the proxy that gets the answer is the one that will write,
\* and a lost answer is a fault of its code.
LEMMA RedeemKeeps ==
    ASSUME TokenInv, NEW s \in Spawns, RedeemHandoff(s)
    PROVE  TokenInv'
<1>0. /\ pc[s] = "redeem" /\ own[s] \in Codes /\ UNCHANGED <<uri, pastes, keyring, monitor>>
  BY DEF RedeemHandoff, TokenInv, OwnsCode
<1>1. CASE Exit(s, 3) /\ UNCHANGED <<code, faults>>
  BY <1>0, <1>1, ExitKeeps DEF TokenInv, TypeOK
<1>2. CASE /\ code' = [code EXCEPT ![own[s]] = "redeemed"]
           /\ Exit(s, 3) /\ faults' = faults \cup {own[s]}
  <2>1. /\ code' \in [Codes -> {"live", "redeemed", "expired"}]
        /\ \A c \in Codes : code'[c] = "redeemed" => code[c] = "redeemed" \/ c \in faults'
        /\ faults \subseteq faults' /\ faults' \subseteq Codes
    BY <1>0, <1>2 DEF TokenInv, TypeOK
  <2> QED BY <1>0, <1>2, <2>1, ExitKeeps
<1>3. CASE /\ code' = [code EXCEPT ![own[s]] = "redeemed"]
           /\ Interpret(s, 200) /\ UNCHANGED faults
  <2>1. /\ pc' = [pc EXCEPT ![s] = "store"] /\ tok' = [tok EXCEPT ![s] = own[s]]
        /\ UNCHANGED <<own, exit, open>>
    BY <1>3 DEF Interpret
  <2>2. TypeOK'
    BY <1>0, <1>3, <2>1 DEF TokenInv, TypeOK, Tokens
  <2>3. /\ pc'[s] = "store" /\ tok'[s] = own[s] /\ own' = own
        /\ \A x \in Spawns \ {s} : pc'[x] = pc[x] /\ tok'[x] = tok[x]
        /\ \A c \in Codes \ {own[s]} : code'[c] = code[c]
    BY <1>0, <1>3, <2>1 DEF TokenInv, TypeOK
  <2>4. OwnsCode' /\ HoldsOwn' /\ KeyringKeyed'
    BY <1>0, <2>3 DEF TokenInv, OwnsCode, HoldsOwn, KeyringKeyed
  <2>5. RedeemedTokenKept'
    <3> SUFFICES ASSUME NEW c \in Codes, code'[c] = "redeemed", c \notin faults', keyring'[c] # c
                 PROVE  \E x \in Spawns : pc'[x] = "store" /\ own'[x] = c
      BY DEF RedeemedTokenKept
    <3>1. CASE c = own[s]
      BY <3>1, <2>3
    <3>2. CASE c # own[s]
      <4>1. PICK x \in Spawns : pc[x] = "store" /\ own[x] = c
        BY <3>2, <2>3, <1>0, <1>3 DEF TokenInv, RedeemedTokenKept
      <4> QED BY <4>1, <2>3, <1>0
    <3> QED BY <3>1, <3>2
  <2> QED BY <2>2, <2>4, <2>5 DEF TokenInv
<1> QED BY <1>1, <1>2, <1>3 DEF RedeemHandoff, Interpret

\* _cache_access_token: written, or a fault of the code.
LEMMA CacheKeeps ==
    ASSUME TokenInv, NEW s \in Spawns, CacheAccessToken(s)
    PROVE  TokenInv'
<1>0. /\ pc[s] = "store" /\ own[s] \in Codes /\ tok[s] = own[s] /\ own[s] \in Tokens
      /\ UNCHANGED <<uri, pastes, code, own, monitor>> /\ Bridge(s, own[s])
  BY DEF CacheAccessToken, TokenInv, OwnsCode, HoldsOwn, Tokens
<1>1. /\ own' \in [Spawns -> Tokens \cup {None}] /\ own'[s] = own[s]
      /\ \A x \in Spawns \ {s} : own'[x] = own[x]
  BY <1>0 DEF TokenInv, TypeOK
<1>2. \/ keyring' = [keyring EXCEPT ![own[s]] = own[s]] /\ UNCHANGED faults
      \/ faults' = faults \cup {own[s]} /\ UNCHANGED keyring
  BY <1>0 DEF CacheAccessToken, Stored
<1>3. /\ keyring' \in [Codes -> Codes \cup {None}] /\ KeyringKeyed' /\ faults' \subseteq Codes
      /\ faults \subseteq faults' /\ \A c \in Codes : keyring[c] = c => keyring'[c] = c
      /\ own[s] \in faults' \/ keyring'[own[s]] = own[s]
  BY <1>0, <1>2 DEF TokenInv, TypeOK, KeyringKeyed
<1> QED BY <1>0, <1>1, <1>3, BridgeKeeps

\* The other steps around a proxy, and the user's and the sidecar's.
LEMMA OthersKeep ==
    ASSUME TokenInv, NEW s \in Spawns,
           EndBridge(s) \/ Kill(s) \/ \E p \in Pumps : PumpEnds(s, p)
    PROVE  TokenInv'
<1>1. CASE EndBridge(s)
  BY <1>1, ExitKeeps DEF EndBridge, TokenInv, TypeOK
<1>2. CASE Kill(s)
  <2>1. /\ Exit(s, 1) /\ UNCHANGED <<uri, pastes, code, keyring, monitor>>
        /\ faults \subseteq faults' /\ (pc[s] = "store" => own[s] \in faults')
        /\ faults' \subseteq Codes
    BY <1>2 DEF Kill, TokenInv, OwnsCode, TypeOK
  <2> QED BY <2>1, ExitKeeps DEF TokenInv, TypeOK
<1>3. CASE \E p \in Pumps : PumpEnds(s, p)
  <2>1. /\ UNCHANGED <<uri, pastes, code, keyring, pc, own, tok, exit, faults, monitor>>
        /\ open' \in [Spawns -> SUBSET Pumps]
    BY <1>3 DEF PumpEnds, TokenInv, TypeOK
  <2> QED BY <2>1 DEF TokenInv, TypeOK, OwnsCode, HoldsOwn, KeyringKeyed, RedeemedTokenKept
<1> QED BY <1>1, <1>2, <1>3

\* The user enters another URL.
LEMMA PasteKeeps ==
    ASSUME TokenInv, NEW u \in Uris, Paste(u)
    PROVE  TokenInv'
BY OnboardingAssumption
   DEF Paste, TokenInv, TypeOK, OwnsCode, HoldsOwn, KeyringKeyed, RedeemedTokenKept

\* A code that expires was not redeemed.
LEMMA ExpireKeeps ==
    ASSUME TokenInv, NEW c \in Codes, Expire(c)
    PROVE  TokenInv'
<1>1. TypeOK'
  BY DEF Expire, TokenInv, TypeOK
<1>2. \A d \in Codes : code'[d] = "redeemed" => code[d] = "redeemed"
  BY DEF Expire, TokenInv, TypeOK
<1> QED BY <1>1, <1>2 DEF Expire, TokenInv, OwnsCode, HoldsOwn, KeyringKeyed, RedeemedTokenKept

-----------------------------------------------------------------------------
(* The monitor.                                                            *)

\* The monitor writes nothing the proxies read.
LEMMA MonitorApart ==
    ASSUME TokenInv, MonitorTyped',
           UNCHANGED <<uri, pastes, code, keyring, pc, own, tok, exit, open, faults>>
    PROVE  TokenInv'
BY DEF TokenInv, TypeOK, MonitorTyped, OwnsCode, HoldsOwn, KeyringKeyed, RedeemedTokenKept

\* A monitor that ends keeps what arrived.
LEMMA EndedKeeps ==
    ASSUME MonitorInv, monitor' = MonitorEnded
    PROVE  MonitorInv'
<1>1. <<>> \in Seq(Nat)
  BY EmptySeq
<1>2. monitor.arrived \in Nat /\ monitor.runs \in Nat
  BY DEF MonitorInv, MonitorTyped
<1>3. /\ MonitorTyped' /\ monitor'.pc = "idle" /\ monitor'.base = 0 /\ monitor'.cursor = 0
  BY <1>1, <1>2 DEF MonitorEnded, MonitorIdle, MonitorTyped
<1> QED BY <1>3 DEF MonitorInv, MonitorInOrder

\* _resolve_endpoint_and_token: a token of the URL at hand, or no run.
LEMMA MonitorStartKeeps ==
    ASSUME Inv, MonitorStart
    PROVE  MonitorInv'
<1> DEFINE k == monitor.runs + 1
           m == [monitor EXCEPT !.runs = k]
<1>0. monitor.pc = "idle" /\ k \in Nat
  BY DEF MonitorStart, Inv, MonitorInv, MonitorTyped
<1> HIDE DEF k
<1>1. CASE monitor' = m
  <2>1. MonitorTyped' /\ monitor'.pc = "idle" /\ monitor'.base = monitor.base
        /\ monitor'.cursor = monitor.cursor
    BY <1>0, <1>1 DEF Inv, MonitorInv, MonitorTyped
  <2> QED BY <2>1 DEF Inv, MonitorInv, MonitorInOrder
<1>2. ASSUME NEW t \in Tokens, monitor' = [m EXCEPT !.pc = "connect", !.own = t, !.tok = t]
      PROVE  MonitorInv'
  <2>1. MonitorTyped' /\ monitor'.pc = "connect" /\ monitor'.base = monitor.base
        /\ monitor'.cursor = monitor.cursor /\ monitor'.tok = t /\ monitor'.own = t
    BY <1>0, <1>2 DEF Inv, MonitorInv, MonitorTyped
  <2> QED BY <2>1 DEF Inv, MonitorInv, MonitorInOrder
<1>3. Inline \in Tokens
  BY DEF Tokens
<1>4. CASE /\ uri # None /\ ParseConnectUri(uri) = "handoff" /\ Cached(uri.handoff) # None
           /\ monitor' = [m EXCEPT !.pc = "connect", !.own = uri.handoff, !.tok = Cached(uri.handoff)]
  <2>1. uri.handoff \in Codes
    BY <1>4, UriTyped, HandoffHasCode DEF Inv, TokenInv
  <2>2. Cached(uri.handoff) = uri.handoff /\ uri.handoff \in Tokens
    BY <2>1, <1>4 DEF Cached, Inv, TokenInv, KeyringKeyed, Tokens
  <2> HIDE DEF m
  <2>3. monitor' = [m EXCEPT !.pc = "connect", !.own = uri.handoff, !.tok = uri.handoff]
    BY <1>4, <2>2
  <2> QED BY <1>2, <2>2, <2>3
<1>5. \/ monitor' = m
      \/ monitor' = [m EXCEPT !.pc = "connect", !.own = Inline, !.tok = Inline]
      \/ /\ uri # None /\ ParseConnectUri(uri) = "handoff" /\ Cached(uri.handoff) # None
         /\ monitor' = [m EXCEPT !.pc = "connect", !.own = uri.handoff, !.tok = Cached(uri.handoff)]
  <2> HIDE DEF m
  <2>1. "none" # "handoff"
    OBVIOUS
  <2> QED BY <2>1 DEF MonitorStart, Set, m, k
<1> QED BY <1>1, <1>2, <1>3, <1>4, <1>5

\* A session that opens has seen nothing.
LEMMA MonitorConnectKeeps ==
    ASSUME MonitorInv, MonitorConnect
    PROVE  MonitorInv'
<1>1. CASE monitor' = MonitorEnded
  BY <1>1, EndedKeeps
<1>2. CASE \E b \in {0, monitor.arrived} :
              monitor' = [monitor EXCEPT !.pc = "loop", !.cursor = b, !.base = b, !.batch = <<>>,
                                         !.emitted = <<>>]
  <2>1. PICK b \in {0, monitor.arrived} :
              monitor' = [monitor EXCEPT !.pc = "loop", !.cursor = b, !.base = b, !.batch = <<>>,
                                         !.emitted = <<>>]
    BY <1>2
  <2>2. b \in Nat /\ <<>> \in Seq(Nat)
    BY EmptySeq DEF MonitorInv, MonitorTyped
  <2>3. /\ MonitorTyped' /\ monitor'.cursor = b /\ monitor'.base = b /\ monitor'.batch = <<>>
        /\ monitor'.emitted = <<>> /\ monitor'.tok = monitor.tok /\ monitor'.own = monitor.own
    BY <2>1, <2>2 DEF MonitorInv, MonitorTyped
  <2>4. monitor.tok = monitor.own
    BY DEF MonitorConnect, MonitorInv
  <2>5. <<>> \o <<>> = [i \in 1 .. b - b |-> b + i]
    <3>1. [i \in 1 .. b - b |-> b + i] = <<>>
      BY <2>2, SMT
    <3>2. <<>> \o <<>> = <<>>
      BY <2>2, ConcatEmptySeq
    <3> QED BY <3>1, <3>2
  <2> QED BY <2>2, <2>3, <2>4, <2>5 DEF MonitorInv, MonitorInOrder
<1> QED BY <1>1, <1>2 DEF MonitorConnect, Set

\* inbox_wait extends what is in hand by what follows the cursor.
LEMMA MonitorWaitKeeps ==
    ASSUME MonitorInv, MonitorWait
    PROVE  MonitorInv'
<1>1. PICK n \in monitor.cursor + 1 .. monitor.arrived :
          monitor' = [monitor EXCEPT !.batch = [i \in 1 .. n - monitor.cursor |-> monitor.cursor + i],
                                     !.cursor = n]
  BY DEF MonitorWait, Set, NextCursor
<1> DEFINE c == monitor.cursor
           t == [i \in 1 .. n - c |-> c + i]
<1>2. /\ monitor.cursor \in Nat /\ monitor.base \in Nat /\ monitor.arrived \in Nat
      /\ monitor.base <= monitor.cursor
  BY DEF MonitorInv, MonitorTyped
<1>3. n \in Nat /\ c <= n
  BY <1>1, <1>2
<1>4. /\ [i \in 1 .. c - monitor.base |-> monitor.base + i] \o t
             = [i \in 1 .. n - monitor.base |-> monitor.base + i]
      /\ t \in Seq(Nat)
  <2>1. [i \in 1 .. c - monitor.base |-> monitor.base + i] \o t
            = [i \in 1 .. n - monitor.base |-> monitor.base + i]
    BY <1>2, <1>3, Consecutive
  <2>2. c \in Nat /\ n <= n
    BY <1>2, <1>3
  <2>3. t \in Seq(Nat)
    BY <1>3, <2>2, Consecutive
  <2> QED BY <2>1, <2>3
<1> HIDE DEF t, c
<1>5. /\ MonitorTyped' /\ monitor'.cursor = n /\ monitor'.base = monitor.base
      /\ monitor'.batch = t /\ monitor'.emitted = monitor.emitted /\ monitor'.tok = monitor.tok
      /\ monitor'.own = monitor.own /\ monitor'.pc = monitor.pc
  BY <1>1, <1>3, <1>4 DEF MonitorInv, MonitorTyped, t, c
<1>6. monitor.emitted = [i \in 1 .. c - monitor.base |-> monitor.base + i] /\ monitor.pc = "loop"
  <2>1. monitor.emitted \o <<>> = monitor.emitted
    BY ConcatEmptySeq DEF MonitorInv, MonitorTyped
  <2> QED BY <2>1 DEF MonitorWait, MonitorInv, MonitorInOrder, c
<1>7. monitor.base <= n
  BY <1>2, <1>3 DEF c
<1>8. MonitorInOrder'
  BY <1>4, <1>5, <1>6 DEF MonitorInOrder
<1> QED BY <1>5, <1>7, <1>8 DEF MonitorInv

\* One event moves from what is in hand to what is written.
LEMMA MonitorEmitKeeps ==
    ASSUME MonitorInv, MonitorEmit
    PROVE  MonitorInv'
<1> DEFINE h == Tail(monitor.batch)
           e == Append(monitor.emitted, Head(monitor.batch))
<1>1. monitor' = [monitor EXCEPT !.batch = h, !.emitted = e]
  BY DEF MonitorEmit, Set
<1>2. monitor.batch \in Seq(Nat) /\ monitor.emitted \in Seq(Nat) /\ monitor.batch # <<>>
  BY DEF MonitorInv, MonitorTyped, MonitorEmit
<1>3. e \o h = monitor.emitted \o monitor.batch /\ e \in Seq(Nat) /\ h \in Seq(Nat)
  BY <1>2, MoveHead
<1> HIDE DEF h, e
<1>4. /\ MonitorTyped' /\ monitor'.cursor = monitor.cursor /\ monitor'.base = monitor.base
      /\ monitor'.batch = h /\ monitor'.emitted = e /\ monitor'.tok = monitor.tok
      /\ monitor'.own = monitor.own /\ monitor'.pc = monitor.pc
  BY <1>1, <1>3 DEF MonitorInv, MonitorTyped
<1> QED BY <1>3, <1>4 DEF MonitorInv, MonitorInOrder

\* An event of the sidecar waits to be asked for.
LEMMA ArriveKeeps ==
    ASSUME MonitorInv, Arrive
    PROVE  MonitorInv'
<1> DEFINE k == monitor.arrived + 1
<1>1. monitor' = [monitor EXCEPT !.arrived = k] /\ k \in Nat
  BY DEF Arrive, Set, MonitorInv, MonitorTyped
<1> HIDE DEF k
<1>2. /\ MonitorTyped' /\ monitor'.cursor = monitor.cursor /\ monitor'.base = monitor.base
      /\ monitor'.batch = monitor.batch /\ monitor'.emitted = monitor.emitted
      /\ monitor'.tok = monitor.tok /\ monitor'.own = monitor.own /\ monitor'.pc = monitor.pc
  BY <1>1 DEF MonitorInv, MonitorTyped
<1> QED BY <1>2 DEF MonitorInv, MonitorInOrder

\* Every step keeps the invariant.
LEMMA NextInv == Inv /\ [Next]_vars => Inv'
<1> SUFFICES ASSUME Inv, [Next]_vars PROVE Inv' OBVIOUS
<1>1. ASSUME UNCHANGED monitor, TokenInv' PROVE Inv'
  BY <1>1 DEF Inv, MonitorInv, MonitorTyped, MonitorInOrder
<1>2. ASSUME NEW s \in Spawns, Proxy(s) \/ Kill(s) \/ \E p \in Pumps : PumpEnds(s, p)
      PROVE  Inv'
  <2>1. TokenInv'
    BY <1>2, StartKeeps, CachedKeeps, RedeemKeeps, CacheKeeps, OthersKeep DEF Proxy, Inv
  <2>2. UNCHANGED monitor
    BY <1>2 DEF Proxy, Start, CachedAccessToken, RedeemHandoff, CacheAccessToken, EndBridge, Kill,
                PumpEnds
  <2> QED BY <1>1, <2>1, <2>2
<1>3. ASSUME NEW u \in Uris, Paste(u) PROVE Inv'
  BY <1>1, <1>3, PasteKeeps DEF Paste, Inv
<1>4. ASSUME NEW c \in Codes, Expire(c) PROVE Inv'
  BY <1>1, <1>4, ExpireKeeps DEF Expire, Inv
<1>5. CASE Monitor \/ MonitorKilled \/ Arrive
  <2>1. UNCHANGED <<uri, pastes, code, keyring, pc, own, tok, exit, open, faults>>
    BY <1>5 DEF Monitor, MonitorStart, MonitorConnect, MonitorWait, MonitorEmit, MonitorKilled,
                Arrive, Set
  <2>2. MonitorInv'
    <3>1. CASE MonitorKilled
      BY <3>1, EndedKeeps DEF MonitorKilled, Set, Inv
    <3> QED BY <1>5, <3>1, MonitorStartKeeps, MonitorConnectKeeps, MonitorWaitKeeps,
               MonitorEmitKeeps, ArriveKeeps DEF Monitor, Inv
  <2> QED BY <2>1, <2>2, MonitorApart DEF Inv, MonitorInv
<1>6. CASE UNCHANGED vars
  BY <1>6 DEF vars, Inv, MonitorInv, MonitorTyped, MonitorInOrder, TokenInv, TypeOK, OwnsCode,
              HoldsOwn, KeyringKeyed, RedeemedTokenKept
<1> QED BY <1>2, <1>3, <1>4, <1>5, <1>6 DEF Next

\* The proxies, the keyring and the monitor keep their types.
THEOREM TypeCorrect == Spec => []TypeOK
<1>1. Inv => TypeOK
  BY DEF Inv, TokenInv
<1> QED BY <1>1, InitInv, NextInv, PTL DEF Spec

\* However connect URLs and spawns alternate and whatever fails, no proxy
\* bridges and no monitor listens with a token of another URL.
THEOREM TokensStayWithTheirUrl == Spec => []TokenOfOwnUrl
<1>1. Inv => TokenOfOwnUrl
  BY DEF Inv, TokenInv, HoldsOwn, MonitorInv, TokenOfOwnUrl
<1> QED BY <1>1, InitInv, NextInv, PTL DEF Spec

\* A redeemed code's token is lost only to a lost answer, a failed write or a
\* kill in between, for any number of concurrent proxies.
THEOREM TokensAreKept == Spec => []RedeemedTokenKept
<1>1. Inv => RedeemedTokenKept
  BY DEF Inv, TokenInv
<1> QED BY <1>1, InitInv, NextInv, PTL DEF Spec

\* While it runs, the monitor writes the sidecar's events once each and in
\* order, for event logs of any length.
THEOREM MonitorWritesInOrder == Spec => []MonitorInOrder
<1>1. Inv => MonitorInOrder
  BY DEF Inv, MonitorInv
<1> QED BY <1>1, InitInv, NextInv, PTL DEF Spec
=============================================================================
