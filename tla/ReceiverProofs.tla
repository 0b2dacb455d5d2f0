--------------------------- MODULE ReceiverProofs ---------------------------
(***************************************************************************)
(* Proofs about Receiver, for any number of deliveries, envelopes, senders *)
(* and credentials, and any lifetimes and clock that meet its assumptions. *)
(***************************************************************************)
EXTENDS Receiver, TLAPS

\* Most leaves are first-order reasoning about sets and functions; the rest
\* need arithmetic.
USE Zenon, SMTT(10)

Labels == {"idle", "seen", "remember", "creds", "status", "cache", "contact",
           "outbound", "add", "done"}
Results == {"none", "refused", "replayed", "malformed", "creds_rejected",
            "creds_required", "policy", "inbox", "stranger_review"}

\* Where Goto and Finish leave pc and result.
LEMMA MoveTypes ==
    ASSUME TypeOK, NEW d \in Deliveries, NEW l \in Labels, NEW r \in Results,
           Goto(d, l) \/ Finish(d, r)
    PROVE  /\ pc' \in [Deliveries -> Labels]
           /\ result' \in [Deliveries -> Results]
<1>1. CASE Goto(d, l)
  BY <1>1 DEF TypeOK, Goto, Labels, Results
<1>2. CASE Finish(d, r)
  BY <1>2 DEF TypeOK, Finish, Labels, Results
<1> QED BY <1>1, <1>2

\* The claims of a delivery's envelope.
LEMMA EnvType ==
    ASSUME TypeOK, NEW d \in Deliveries
    PROVE  /\ Env(d) \in Claims
           /\ Env(d).from \in Senders /\ Env(d).id \in MessageIds
           /\ Env(d).iat \in Nat /\ Env(d).life \in Nat
           /\ Env(d).creds \subseteq Credentials
           /\ Env(d).ctx \in Contexts \cup {NoContext, BadContext}
           /\ Key(d) \in Keys
BY ReceiverAssumption DEF TypeOK, Env, Claims, Key, Keys

\* A delivery that checks a revocation or caches has a credential in hand.
CurInv == \A d \in Deliveries : pc[d] \in {"status", "cache"} => cur[d] \in Credentials

(* Every state the pipeline reaches has the types TypeOK gives its stores, *)
(* and the loop of _validate_creds always has the credential it works on.  *)
THEOREM TypeCorrect == Spec => [](TypeOK /\ CurInv)
<1> USE ReceiverAssumption
<1>1. Init => TypeOK /\ CurInv
  <2> SUFFICES ASSUME Init PROVE TypeOK /\ CurInv OBVIOUS
  <2>1. outbound \in [Contexts \X Senders -> Nat \cup {None}]
    BY DEF Init
  <2>2. credExp \in [Credentials -> Nat]
    BY DEF Init
  <2> QED BY <2>1, <2>2 DEF Init, TypeOK, CurInv, Keys
<1>2. TypeOK /\ CurInv /\ [Next]_vars => TypeOK' /\ CurInv'
  <2> SUFFICES ASSUME TypeOK, CurInv, [Next]_vars PROVE TypeOK' /\ CurInv' OBVIOUS
  <2> USE DEF Labels, Results
  <2>1. ASSUME NEW d \in Deliveries, VerifyEnvelope(d) PROVE TypeOK' /\ CurInv'
    <3>1. pc' \in [Deliveries -> Labels] /\ result' \in [Deliveries -> Results]
      BY <2>1, MoveTypes DEF VerifyEnvelope
    <3> QED BY <2>1, <3>1 DEF VerifyEnvelope, TypeOK, CurInv, Goto, Finish, cfgvars, stores
  <2>2. ASSUME NEW d \in Deliveries, SeenReplay(d) PROVE TypeOK' /\ CurInv'
    <3>1. pc' \in [Deliveries -> Labels] /\ result' \in [Deliveries -> Results]
      BY <2>2, MoveTypes DEF SeenReplay
    <3>2. Pruned \in [Keys -> Nat] /\ Remembered(Pruned, d) \in [Keys -> Nat]
      BY EnvType DEF TypeOK, Pruned, Remembered
    <3> QED BY <2>2, <3>1, <3>2 DEF SeenReplay, TypeOK, CurInv, Goto, Finish, cfgvars
  <2>3. ASSUME NEW d \in Deliveries, RememberReplay(d) PROVE TypeOK' /\ CurInv'
    <3>1. pc' \in [Deliveries -> Labels] /\ result' \in [Deliveries -> Results]
      BY <2>3, MoveTypes DEF RememberReplay
    <3>2. Remembered(replay, d) \in [Keys -> Nat]
      BY EnvType DEF TypeOK, Remembered
    <3> QED BY <2>3, <3>1, <3>2 DEF RememberReplay, TypeOK, CurInv, Goto, Finish, cfgvars
  <2>4. ASSUME NEW d \in Deliveries, ReadCache(d) PROVE TypeOK' /\ CurInv'
    <3>1. pc' \in [Deliveries -> Labels] /\ result' \in [Deliveries -> Results]
      BY <2>4, MoveTypes DEF ReadCache
    <3>2. Live(Env(d).from) \in SUBSET (Credentials \X Int)
      BY EnvType DEF TypeOK, Live
    <3>3. {e[1] : e \in Live(Env(d).from)} \subseteq Credentials
      BY <3>2
    <3>4. cached' \in [Senders -> SUBSET (Credentials \X Int)]
      BY <2>4, <3>2, EnvType DEF TypeOK, ReadCache
    <3>5. creds' \in [Deliveries -> SUBSET Credentials]
      BY <2>4, <3>3 DEF TypeOK, ReadCache
    <3> QED BY <2>4, <3>1, <3>4, <3>5 DEF ReadCache, TypeOK, CurInv, Goto, Finish, cfgvars
  <2>5. ASSUME NEW d \in Deliveries, VerifyCredential(d) PROVE TypeOK' /\ CurInv'
    <3>1. pc' \in [Deliveries -> Labels] /\ result' \in [Deliveries -> Results]
      BY <2>5, MoveTypes DEF VerifyCredential
    <3>2. /\ cur' \in [Deliveries -> Credentials \cup {NoCredential}]
          /\ at' \in [Deliveries -> Nat]
      BY <2>5, EnvType DEF TypeOK, VerifyCredential
    <3>3. CurInv'
      BY <2>5, EnvType DEF VerifyCredential, TypeOK, CurInv, Goto, Finish
    <3> QED BY <2>5, <3>1, <3>2, <3>3 DEF VerifyCredential, TypeOK, cfgvars, stores
  <2>6. ASSUME NEW d \in Deliveries, CheckRevocation(d) PROVE TypeOK' /\ CurInv'
    <3>1. pc' \in [Deliveries -> Labels] /\ result' \in [Deliveries -> Results]
      BY <2>6, MoveTypes DEF CheckRevocation
    <3>2. cur[d] \in Credentials
      BY <2>6 DEF CheckRevocation, CurInv
    <3> QED BY <2>6, <3>1, <3>2 DEF CheckRevocation, TypeOK, CurInv, Goto, Finish, cfgvars, stores
  <2>7. ASSUME NEW d \in Deliveries, CacheCredential(d) PROVE TypeOK' /\ CurInv'
    <3> DEFINE until == Earlier(credExp[cur[d]] - CacheLeeway, now + CacheTtl)
    <3>1. pc' \in [Deliveries -> Labels] /\ result' \in [Deliveries -> Results]
      BY <2>7, MoveTypes DEF CacheCredential
    <3>2. cur[d] \in Credentials
      BY <2>7 DEF CacheCredential, CurInv
    <3>3. until \in Int
      BY <3>2 DEF Earlier, TypeOK
    <3>4. cached' = [cached EXCEPT ![Env(d).from] = @ \cup {<<cur[d], until>>}]
      BY <2>7 DEF CacheCredential
    <3> HIDE DEF until
    <3>5. cached' \in [Senders -> SUBSET (Credentials \X Int)]
      BY <3>2, <3>3, <3>4, EnvType DEF TypeOK
    <3>6. /\ creds' \in [Deliveries -> SUBSET Credentials]
          /\ cur' \in [Deliveries -> Credentials \cup {NoCredential}]
      BY <2>7, <3>2 DEF TypeOK, CacheCredential
    <3>7. CurInv'
      BY <2>7 DEF CacheCredential, CurInv, TypeOK, Goto
    <3> QED BY <2>7, <3>1, <3>5, <3>6, <3>7 DEF CacheCredential, TypeOK, cfgvars
  <2>8. ASSUME NEW d \in Deliveries, IsContact(d) PROVE TypeOK' /\ CurInv'
    <3>1. pc' \in [Deliveries -> Labels] /\ result' \in [Deliveries -> Results]
      BY <2>8, MoveTypes DEF IsContact
    <3> QED BY <2>8, <3>1 DEF IsContact, TypeOK, CurInv, Goto, Finish, cfgvars, stores
  <2>9. ASSUME NEW d \in Deliveries, ClassifyStranger(d) PROVE TypeOK' /\ CurInv'
    <3>1. pc' \in [Deliveries -> Labels] /\ result' \in [Deliveries -> Results]
      BY <2>9, MoveTypes DEF ClassifyStranger
    <3> QED BY <2>9, <3>1 DEF ClassifyStranger, TypeOK, CurInv, Goto, Finish, cfgvars, stores
  <2>10. ASSUME NEW d \in Deliveries, AutoAdd(d) PROVE TypeOK' /\ CurInv'
    <3>1. pc' \in [Deliveries -> Labels] /\ result' \in [Deliveries -> Results]
      BY <2>10, MoveTypes DEF AutoAdd
    <3> QED BY <2>10, <3>1, EnvType DEF AutoAdd, TypeOK, CurInv, Finish, cfgvars
  <2>11. ASSUME NEW s \in Peers, AddContact(s) \/ RemoveContact(s)
         PROVE TypeOK' /\ CurInv'
    BY <2>11 DEF AddContact, RemoveContact, TypeOK, CurInv, cfgvars
  <2>12. ASSUME NEW x \in Contexts, NEW s \in Peers, RecordOutbound(x, s)
         PROVE TypeOK' /\ CurInv'
    BY <2>12 DEF RecordOutbound, TypeOK, CurInv, cfgvars
  <2>13. ASSUME NEW c \in Credentials, Revoke(c) PROVE TypeOK' /\ CurInv'
    BY <2>13 DEF Revoke, TypeOK, CurInv, cfgvars, stores
  <2>14. CASE Tick
    BY <2>14 DEF Tick, TypeOK, CurInv, cfgvars, stores
  <2>15. CASE UNCHANGED vars
    BY <2>15 DEF vars, TypeOK, CurInv, cfgvars, stores
  <2> QED BY <2>1, <2>2, <2>3, <2>4, <2>5, <2>6, <2>7, <2>8, <2>9, <2>10, <2>11,
             <2>12, <2>13, <2>14, <2>15 DEF Next, Receive, Owner, Finished
<1> QED BY <1>1, <1>2, PTL DEF Spec
-----------------------------------------------------------------------------
\* A delivery has a decision exactly when it is done.
DoneInv == \A d \in Deliveries : pc[d] \in Labels /\ (pc[d] = "done" <=> result[d] # "none")

\* A delivery that has not come through the replay cache yet.
Early(d) == pc[d] \in {"idle", "seen", "remember"}

\* A step behind the replay cache, or one of the owner's or an issuer's.
LateStep == \/ \E d \in Deliveries : \/ ReadCache(d) \/ VerifyCredential(d)
                                     \/ CheckRevocation(d) \/ CacheCredential(d)
                                     \/ IsContact(d) \/ ClassifyStranger(d) \/ AutoAdd(d)
            \/ Owner
            \/ \E c \in Credentials : Revoke(c)
            \/ UNCHANGED vars

\* What such a step leaves alone.
LateFrame ==
    /\ UNCHANGED <<now, envelopes, replay, env>>
    /\ \A d \in Deliveries :
          /\ LetThrough(d)' <=> LetThrough(d)
          /\ Early(d)' => Early(d)
          /\ Early(d) => pc'[d] = pc[d] /\ at'[d] = at[d] /\ result'[d] = result[d]
          /\ result'[d] = "replayed" => result[d] = "replayed"

\* Steps behind the replay cache keep the clock, the cache and who passed it.
LEMMA LateSteps ==
    ASSUME TypeOK, DoneInv, LateStep
    PROVE  DoneInv' /\ LateFrame
<1> USE DEF Labels, DoneInv, LateFrame, Early, LetThrough
<1>1. ASSUME NEW d \in Deliveries,
             \/ ReadCache(d) \/ VerifyCredential(d) \/ CheckRevocation(d)
             \/ CacheCredential(d) \/ IsContact(d) \/ ClassifyStranger(d) \/ AutoAdd(d)
      PROVE  DoneInv' /\ LateFrame
  <2>1. /\ UNCHANGED <<now, envelopes, replay, env>>
        /\ pc[d] \in {"creds", "status", "cache", "contact", "outbound", "add"}
        /\ at' = [at EXCEPT ![d] = at'[d]]
    BY <1>1 DEF ReadCache, VerifyCredential, CheckRevocation, CacheCredential, IsContact,
                ClassifyStranger, AutoAdd, cfgvars, stores, TypeOK
  <2>2. \/ \E l \in {"creds", "status", "cache", "contact", "outbound", "add"} : Goto(d, l)
        \/ \E r \in {"malformed", "creds_rejected", "creds_required", "policy",
                     "inbox", "stranger_review"} : Finish(d, r)
    BY <1>1 DEF ReadCache, VerifyCredential, CheckRevocation, CacheCredential, IsContact,
                ClassifyStranger, AutoAdd
  <2> QED BY <2>1, <2>2 DEF Goto, Finish, TypeOK
<1>2. CASE Owner
  BY <1>2 DEF Owner, AddContact, RemoveContact, RecordOutbound, cfgvars
<1>3. ASSUME NEW c \in Credentials, Revoke(c) PROVE DoneInv' /\ LateFrame
  BY <1>3 DEF Revoke, cfgvars, stores
<1>4. CASE UNCHANGED vars
  BY <1>4 DEF vars, cfgvars, stores
<1> QED BY <1>1, <1>2, <1>3, <1>4 DEF LateStep
-----------------------------------------------------------------------------
\* The earliest time at which the cache may forget an envelope it let through.
Forget(d) == Env(d).iat - Leeway + Retention

\* What holds of a delivery on its way through the replay cache: its envelope
\* was fresh, it reaches seen in time, and once through it stays remembered
\* until Forget.
CheckedInv(d) == pc[d] \in {"seen", "remember"} \/ LetThrough(d) =>
                     Env(d).life <= MaxLifetime /\ Env(d).iat <= now + Leeway
InTimeInv(d) == pc[d] = "seen" => /\ at[d] <= Env(d).iat + Env(d).life + Leeway
                                  /\ now <= at[d] + MaxDelay
KeptInv(d) == LetThrough(d) => replay[Key(d)] >= Forget(d) \/ now >= Forget(d)

ReplayInv == /\ DoneInv
             /\ \A d \in Deliveries : CheckedInv(d) /\ InTimeInv(d) /\ KeptInv(d)

\* Nobody holds the replay cache's entry longer than the entry lives.
LEMMA ForgetIsLate ==
    ASSUME TypeOK, NEW d \in Deliveries, ReplayInv, pc[d] = "seen"
    PROVE  Forget(d) \in Int /\ now < Forget(d) /\ Forget(d) > 0
BY ReceiverAssumption, RetentionAssumption, EnvType
   DEF ReplayInv, CheckedInv, InTimeInv, Forget, TypeOK

\* ReplayInv holds at the start.
LEMMA ReplayInit == Init => ReplayInv
BY DEF Init, ReplayInv, DoneInv, CheckedInv, InTimeInv, KeptInv, LetThrough, Labels

\* remember(sender, messageId), after the entries that have expired are gone.
LEMMA RememberKeeps ==
    ASSUME TypeOK, ReplayInv, NEW d \in Deliveries,
           NEW entries \in [Keys -> Nat], entries = Pruned \/ entries = replay,
           NEW e \in Deliveries, LetThrough(e) \/ e = d,
           Env(e).iat <= now + Leeway
    PROVE  \/ Remembered(entries, d)[Key(e)] >= Forget(e)
           \/ now >= Forget(e)
<1>1. Remembered(entries, d)[Key(d)] = now + Retention
  BY EnvType DEF Remembered
<1>2. CASE Key(e) = Key(d)
  BY <1>1, <1>2, EnvType, ReceiverAssumption DEF Forget, TypeOK
<1>3. CASE Key(e) # Key(d)
  <2>1. Remembered(entries, d)[Key(e)] = entries[Key(e)]
    BY <1>3, EnvType DEF Remembered
  <2>2. replay[Key(e)] >= Forget(e) \/ now >= Forget(e)
    BY <1>3 DEF ReplayInv, KeptInv
  <2>3. entries[Key(e)] = replay[Key(e)] \/ replay[Key(e)] <= now
    BY EnvType DEF Pruned
  <2>4. Forget(e) \in Int /\ now \in Int /\ replay[Key(e)] \in Int
    BY EnvType, ReceiverAssumption DEF Forget, TypeOK
  <2> QED BY <2>1, <2>2, <2>3, <2>4
<1> QED BY <1>2, <1>3

\* Every step keeps ReplayInv.
LEMMA ReplayStep == TypeOK /\ ReplayInv /\ [Next]_vars => ReplayInv'
<1> SUFFICES ASSUME TypeOK, ReplayInv, [Next]_vars PROVE ReplayInv'
  OBVIOUS
<1> USE DEF ReplayInv
<1>1. ASSUME NEW d \in Deliveries, VerifyEnvelope(d) PROVE ReplayInv'
  <2>1. UNCHANGED <<now, envelopes, replay, env>> /\ pc[d] = "idle"
    BY <1>1 DEF VerifyEnvelope, cfgvars, stores
  <2>2. DoneInv'
    BY <1>1 DEF VerifyEnvelope, Goto, Finish, DoneInv, TypeOK, Labels
  <2>3. ASSUME NEW e \in Deliveries PROVE (CheckedInv(e) /\ InTimeInv(e) /\ KeptInv(e))'
    <3>1. CASE e # d
      <4>1. pc'[e] = pc[e] /\ at'[e] = at[e] /\ result'[e] = result[e]
        BY <1>1, <3>1 DEF VerifyEnvelope, Goto, Finish, TypeOK
      <4> QED BY <2>1, <4>1 DEF CheckedInv, InTimeInv, KeptInv, LetThrough, Env, Key, Forget
    <3>2. CASE e = d
      <4>1. ~LetThrough(d)'
        BY <1>1 DEF VerifyEnvelope, Goto, Finish, LetThrough, TypeOK, DoneInv
      <4>2. pc'[d] = "done" \/ (pc'[d] = "seen" /\ at'[d] = now /\ Fresh(Env(d)))
        BY <1>1 DEF VerifyEnvelope, Goto, Finish, TypeOK
      <4>3. Env(d)' = Env(d)
        BY <2>1 DEF Env
      <4>4. pc'[d] = "seen" => /\ Env(d).iat <= now + Leeway
                               /\ at'[d] <= Env(d).iat + Env(d).life + Leeway
                               /\ Env(d).life <= MaxLifetime
                               /\ now <= at'[d] + MaxDelay
        <5>1. /\ Env(d).iat \in Int /\ Env(d).life \in Int
              /\ now \in Int /\ Leeway \in Int /\ MaxDelay \in Nat
          BY EnvType, ReceiverAssumption DEF TypeOK
        <5> QED BY <4>2, <5>1 DEF Fresh
      <4>5. CheckedInv(d)'
        BY <2>1, <4>1, <4>2, <4>3, <4>4 DEF CheckedInv
      <4>6. InTimeInv(d)'
        BY <2>1, <4>2, <4>3, <4>4 DEF InTimeInv
      <4>7. KeptInv(d)'
        BY <4>1 DEF KeptInv
      <4> QED BY <3>2, <4>5, <4>6, <4>7
    <3> QED BY <3>1, <3>2
  <2> QED BY <2>2, <2>3
<1>2. ASSUME NEW d \in Deliveries, SeenReplay(d) \/ RememberReplay(d) PROVE ReplayInv'
  <2>1. UNCHANGED <<now, envelopes, env, at>> /\ pc[d] \in {"seen", "remember"}
    BY <1>2 DEF SeenReplay, RememberReplay, cfgvars
  <2>2. DoneInv'
    BY <1>2 DEF SeenReplay, RememberReplay, Goto, Finish, DoneInv, TypeOK, Labels
  <2>3. \/ replay' = Pruned
        \/ replay' = Remembered(Pruned, d)
        \/ replay' = Remembered(replay, d)
    BY <1>2 DEF SeenReplay, RememberReplay
  <2>4. Pruned \in [Keys -> Nat] /\ replay \in [Keys -> Nat]
    BY DEF TypeOK, Pruned
  <2>5. pc'[d] # "seen"
    BY <1>2 DEF SeenReplay, RememberReplay, Goto, Finish, LetThrough, TypeOK, DoneInv
  <2>6. LetThrough(d)' => replay' = Remembered(Pruned, d) \/ replay' = Remembered(replay, d)
    BY <1>2 DEF SeenReplay, RememberReplay, Goto, Finish, LetThrough, TypeOK, DoneInv
  <2>7. ASSUME NEW e \in Deliveries PROVE (CheckedInv(e) /\ InTimeInv(e) /\ KeptInv(e))'
    <3>1. e # d => pc'[e] = pc[e] /\ result'[e] = result[e]
      BY <1>2 DEF SeenReplay, RememberReplay, Goto, Finish, TypeOK
    <3>2. Env(e)' = Env(e) /\ Key(e)' = Key(e) /\ Forget(e)' = Forget(e)
      BY <2>1 DEF Env, Key, Forget
    <3>3. CheckedInv(e)' /\ InTimeInv(e)'
      BY <2>1, <2>5, <3>1, <3>2 DEF CheckedInv, InTimeInv, LetThrough
    <3>4. ASSUME LetThrough(e)' PROVE replay'[Key(e)] >= Forget(e) \/ now >= Forget(e)
      <4>1. (LetThrough(e) \/ e = d) /\ Env(e).iat <= now + Leeway
        BY <2>1, <3>1, <3>4 DEF CheckedInv, LetThrough
      <4>2. CASE e # d /\ replay' = Pruned
        <5>1. LetThrough(e)
          BY <4>1, <4>2
        <5>2. replay[Key(e)] >= Forget(e) \/ now >= Forget(e)
          BY <5>1 DEF KeptInv
        <5>3. Pruned[Key(e)] = replay[Key(e)] \/ replay[Key(e)] <= now
          BY EnvType DEF Pruned
        <5>4. Forget(e) \in Int /\ now \in Int /\ replay[Key(e)] \in Int
          BY EnvType, ReceiverAssumption DEF Forget, TypeOK
        <5> QED BY <4>2, <5>2, <5>3, <5>4
      <4>3. CASE replay' = Remembered(Pruned, d)
        BY <2>4, <4>1, <4>3, RememberKeeps
      <4>4. CASE replay' = Remembered(replay, d)
        BY <2>4, <4>1, <4>4, RememberKeeps
      <4> QED BY <2>3, <2>6, <3>4, <4>2, <4>3, <4>4
    <3> QED BY <2>1, <3>2, <3>3, <3>4 DEF KeptInv
  <2> QED BY <2>2, <2>7
<1>3. CASE Tick
  <2>1. /\ now' = now + 1 /\ UNCHANGED <<envelopes, env, replay, pc, result, at>>
        /\ \A d \in Deliveries : pc[d] = "seen" => now < at[d] + MaxDelay
    BY <1>3 DEF Tick, cfgvars, stores
  <2>2. ASSUME NEW e \in Deliveries PROVE (CheckedInv(e) /\ InTimeInv(e) /\ KeptInv(e))'
    <3>1. /\ Env(e)' = Env(e) /\ Key(e)' = Key(e) /\ Forget(e)' = Forget(e)
          /\ LetThrough(e)' <=> LetThrough(e)
      BY <2>1 DEF Env, Key, Forget, LetThrough
    <3>2. now \in Nat /\ at[e] \in Nat /\ Forget(e) \in Int /\ Env(e).iat \in Nat
      BY EnvType, ReceiverAssumption DEF TypeOK, Forget
    <3> QED BY <2>1, <3>1, <3>2, ReceiverAssumption DEF CheckedInv, InTimeInv, KeptInv
  <2> QED BY <2>1, <2>2 DEF DoneInv
<1>4. CASE LateStep
  <2>1. DoneInv' /\ LateFrame
    BY <1>4, LateSteps
  <2>2. ASSUME NEW e \in Deliveries PROVE (CheckedInv(e) /\ InTimeInv(e) /\ KeptInv(e))'
    BY <2>1 DEF LateFrame, CheckedInv, InTimeInv, KeptInv, Early, Env, Key, Forget
  <2> QED BY <2>1, <2>2
<1> QED BY <1>1, <1>2, <1>3, <1>4 DEF Next, Receive, LateStep, Finished

\* At most one delivery of an envelope gets past the replay cache, and none is
\* between seen and remember.
PassOnce == \A d \in Deliveries :
                /\ pc[d] # "remember"
                /\ \A e \in Deliveries :
                      d # e /\ LetThrough(d) /\ LetThrough(e) => env[d] # env[e]

(* With the in-memory stores, whose seen and remember nothing can come     *)
(* between, an envelope is accepted at most once for every number of       *)
(* deliveries, provided the retention outlives lifetime, clock skew on     *)
(* both sides and the delay between verify_envelope and seen.              *)
THEOREM AcceptedOnce == ASSUME Interleaved = FALSE PROVE Spec => []AtMostOnce
<1>1. Init => PassOnce
  BY DEF Init, PassOnce, LetThrough
<1>2. TypeOK /\ ReplayInv /\ PassOnce /\ [Next]_vars => PassOnce'
  <2> SUFFICES ASSUME TypeOK, ReplayInv, PassOnce, [Next]_vars PROVE PassOnce'
    OBVIOUS
  <2>1. ASSUME NEW d \in Deliveries, SeenReplay(d) PROVE PassOnce'
    <3>1. UNCHANGED env /\ pc[d] = "seen"
      BY <2>1 DEF SeenReplay
    <3>2. \A e \in Deliveries : e # d => (LetThrough(e)' <=> LetThrough(e))
      BY <2>1 DEF SeenReplay, Goto, Finish, LetThrough, TypeOK
    <3>3. ASSUME LetThrough(d)', NEW e \in Deliveries, LetThrough(e), env[e] = env[d]
          PROVE  FALSE
      <4>1. Pruned[Key(d)] = 0
        BY <2>1, <3>3 DEF SeenReplay, Finish, LetThrough, TypeOK, ReplayInv, DoneInv
      <4>2. Key(e) = Key(d) /\ Forget(e) = Forget(d)
        BY <3>3 DEF Key, Env, Forget
      <4>3. replay[Key(d)] >= Forget(d) \/ now >= Forget(d)
        BY <3>3, <4>2 DEF ReplayInv, KeptInv
      <4>4. replay[Key(d)] \in Nat /\ replay[Key(d)] <= now
        BY <4>1, EnvType DEF Pruned, TypeOK
      <4> QED BY <3>1, <4>3, <4>4, ForgetIsLate DEF TypeOK
    <3>4. \A e \in Deliveries : pc'[e] # "remember"
      BY <2>1 DEF SeenReplay, Goto, Finish, TypeOK, PassOnce
    <3> QED BY <3>1, <3>2, <3>3, <3>4 DEF PassOnce
  <2>2. ASSUME NEW d \in Deliveries, VerifyEnvelope(d) PROVE PassOnce'
    BY <2>2 DEF VerifyEnvelope, Goto, Finish, PassOnce, LetThrough, TypeOK, ReplayInv, DoneInv
  <2>3. \A d \in Deliveries : ~RememberReplay(d)
    BY DEF PassOnce, RememberReplay
  <2>4. CASE Tick
    BY <2>4 DEF Tick, PassOnce, LetThrough
  <2>5. CASE LateStep
    BY <2>5, LateSteps DEF PassOnce, LateFrame, Early, ReplayInv
  <2> QED BY <2>1, <2>2, <2>3, <2>4, <2>5 DEF Next, Receive, LateStep, Finished
<1>3. PassOnce => AtMostOnce
  BY DEF PassOnce, AtMostOnce, Accepted, LetThrough
<1> QED BY <1>1, <1>2, <1>3, TypeCorrect, ReplayInit, ReplayStep, PTL DEF Spec

\* Whatever the replay cache knows, some delivery came through with it.
SeenBefore == \A k \in Keys : replay[k] # 0 =>
                  \E e \in Deliveries : LetThrough(e) /\ Key(e) = k

(* Even when seen and remember interleave, a delivery is answered with     *)
(* ReplayError only if one with its sender and messageId was let through.  *)
THEOREM NoFalseReplay == Spec => []ReplayedOnlyIfSeen
<1> DEFINE Inv == SeenBefore /\ ReplayedOnlyIfSeen
<1>1. Init => Inv
  BY DEF Init, SeenBefore, ReplayedOnlyIfSeen
<1>2. TypeOK /\ ReplayInv /\ Inv /\ [Next]_vars => Inv'
  <2> SUFFICES ASSUME TypeOK, ReplayInv, Inv, [Next]_vars PROVE Inv'
    OBVIOUS
  <2>1. ASSUME NEW d \in Deliveries, SeenReplay(d) \/ RememberReplay(d) PROVE Inv'
    <3>1. UNCHANGED <<env, envelopes>> /\ pc[d] \in {"seen", "remember"} /\ ~LetThrough(d)
      BY <2>1 DEF SeenReplay, RememberReplay, LetThrough, ReplayInv, DoneInv, cfgvars
    <3>2. \A e \in Deliveries : LetThrough(e) => LetThrough(e)'
      BY <2>1, <3>1 DEF SeenReplay, RememberReplay, Goto, Finish, LetThrough, TypeOK
    <3>3. \A e \in Deliveries : Key(e)' = Key(e)
      BY <3>1 DEF Key, Env
    <3>4. \/ replay' = Pruned
          \/ /\ replay' = Remembered(Pruned, d) \/ replay' = Remembered(replay, d)
             /\ LetThrough(d)'
      BY <2>1 DEF SeenReplay, RememberReplay, Goto, Finish, LetThrough, TypeOK
    <3>5. SeenBefore'
      <4> SUFFICES ASSUME NEW k \in Keys, replay'[k] # 0
                   PROVE  \E e \in Deliveries : LetThrough(e)' /\ Key(e) = k
        BY <3>3 DEF SeenBefore
      <4>1. CASE replay[k] # 0
        BY <3>2, <4>1 DEF SeenBefore
      <4>2. CASE replay[k] = 0
        <5>1. Pruned[k] = 0
          BY <4>2 DEF Pruned, TypeOK
        <5> QED BY <3>4, <4>2, <5>1 DEF Remembered, Pruned, TypeOK
      <4> QED BY <4>1, <4>2
    <3>6. result'[d] = "replayed" => replay[Key(d)] # 0
      BY <2>1, EnvType DEF SeenReplay, RememberReplay, Goto, Finish, Pruned, TypeOK,
                           ReplayInv, DoneInv
    <3>7. \A e \in Deliveries : e # d => result'[e] = result[e]
      BY <2>1 DEF SeenReplay, RememberReplay, Goto, Finish, TypeOK
    <3>8. ReplayedOnlyIfSeen'
      <4>1. \A e \in Deliveries : Env(e)' = Env(e)
        BY <3>1 DEF Env
      <4>2. \A e, f \in Deliveries : Key(e) = Key(f) =>
               Env(e).from = Env(f).from /\ Env(e).id = Env(f).id
        BY DEF Key
      <4> QED BY <3>2, <3>6, <3>7, <4>1, <4>2, EnvType DEF ReplayedOnlyIfSeen, SeenBefore
    <3> QED BY <3>5, <3>8
  <2>2. ASSUME NEW d \in Deliveries, VerifyEnvelope(d) PROVE Inv'
    <3>1. UNCHANGED <<env, envelopes, replay>> /\ pc[d] = "idle"
      BY <2>2 DEF VerifyEnvelope, cfgvars, stores
    <3>2. \A e \in Deliveries : /\ LetThrough(e)' <=> LetThrough(e)
                                /\ result'[e] = "replayed" => result[e] = "replayed"
      BY <2>2 DEF VerifyEnvelope, Goto, Finish, LetThrough, TypeOK, ReplayInv, DoneInv
    <3> QED BY <3>1, <3>2 DEF SeenBefore, ReplayedOnlyIfSeen, Key, Env
  <2>3. CASE Tick
    <3>1. UNCHANGED <<envelopes, replay, pc, env, result>>
      BY <2>3 DEF Tick, cfgvars, stores
    <3> QED BY <3>1 DEF SeenBefore, ReplayedOnlyIfSeen, LetThrough, Key, Env
  <2>4. CASE LateStep
    BY <2>4, LateSteps DEF SeenBefore, ReplayedOnlyIfSeen, LateFrame, Key, Env, ReplayInv
  <2> QED BY <2>1, <2>2, <2>3, <2>4 DEF Next, Receive, LateStep, Finished
<1> QED BY <1>1, <1>2, TypeCorrect, ReplayInit, ReplayStep, PTL DEF Spec
-----------------------------------------------------------------------------
\* Good credentials of a delivery: once found unrevoked, and not expired at its
\* first credential check.
Good(d, c) == c \in vetted /\ credExp[c] >= at[d] - Leeway

\* What the credential cache holds, and what a delivery knows of the credential
\* in hand and of those it goes by.
CacheInv == \A s \in Senders : \A e \in cached[s] :
                e[1] \in vetted /\ e[2] <= credExp[e[1]] - CacheLeeway
HandInv(d) == /\ pc[d] \in {"status", "cache"} => credExp[cur[d]] >= at[d] - Leeway
              /\ pc[d] = "cache" => cur[d] \in vetted
CredsInv(d) == /\ at[d] <= now
               /\ pc[d] = "idle" => creds[d] = {}
               /\ \A c \in creds[d] : Good(d, c)

(* A stranger only gets to review with a trusted credential that was found *)
(* unrevoked and was not expired, for every interleaving of deliveries,    *)
(* expiry and revocation, and also when it comes from the cache.           *)
THEOREM StrangersHaveCredentials == Spec => []StrangersAreVetted
<1> DEFINE Inv == /\ CacheInv /\ StrangersAreVetted
                  /\ \A d \in Deliveries : HandInv(d) /\ CredsInv(d)
           Kept(d) == pc'[d] = pc[d] /\ at'[d] = at[d] /\ cur'[d] = cur[d]
                      /\ creds'[d] = creds[d] /\ result'[d] = result[d]
<1> USE ReceiverAssumption
<1>1. Init => Inv
  BY DEF Init, CacheInv, StrangersAreVetted, HandInv, CredsInv
<1>2. TypeOK /\ CurInv /\ DoneInv /\ Inv /\ [Next]_vars => Inv'
  <2> SUFFICES ASSUME TypeOK, CurInv, DoneInv, Inv, [Next]_vars PROVE Inv'
    OBVIOUS
  <2>1. ASSUME NEW d \in Deliveries,
               now' = now, credExp' = credExp, vetted \subseteq vetted',
               \A e \in Deliveries : e # d => Kept(e),
               CacheInv', HandInv(d)', CredsInv(d)',
               result'[d] = "stranger_review" => \E c \in creds'[d] \cap Trusted : Good(d, c)'
        PROVE  Inv'
    <3>1. ASSUME NEW e \in Deliveries, e # d
          PROVE  HandInv(e)' /\ CredsInv(e)'
      BY <2>1, <3>1 DEF HandInv, CredsInv, Good
    <3>2. StrangersAreVetted'
      BY <2>1, <3>1 DEF StrangersAreVetted, Good
    <3> QED BY <2>1, <3>1, <3>2
  <2>2. ASSUME NEW d \in Deliveries, VerifyEnvelope(d) PROVE Inv'
    <3>1. /\ UNCHANGED <<now, credExp, vetted, cached, creds, cur>>
          /\ \A e \in Deliveries : e # d => Kept(e)
      BY <2>2 DEF VerifyEnvelope, Goto, Finish, TypeOK, cfgvars, stores
    <3>2. /\ creds'[d] = {} /\ at'[d] \in {now, at[d]}
          /\ pc'[d] \in {"seen", "done"} /\ result'[d] \in {"none", "refused"}
      BY <2>2, <3>1 DEF VerifyEnvelope, Goto, Finish, TypeOK, DoneInv, CredsInv
    <3>3. CacheInv' /\ HandInv(d)' /\ CredsInv(d)'
      BY <3>1, <3>2 DEF CacheInv, HandInv, CredsInv, TypeOK
    <3> QED BY <2>1, <3>1, <3>2, <3>3
  <2>3. ASSUME NEW d \in Deliveries,
               \/ SeenReplay(d) \/ RememberReplay(d) \/ IsContact(d) \/ AutoAdd(d)
               \/ ClassifyStranger(d)
        PROVE  Inv'
    <3>1. /\ UNCHANGED <<now, credExp, vetted, cached, creds, cur, at>>
          /\ \A e \in Deliveries : e # d => Kept(e)
          /\ pc'[d] \notin {"idle", "status", "cache"}
      <4>1. CASE SeenReplay(d) \/ RememberReplay(d)
        BY <4>1 DEF SeenReplay, RememberReplay, Goto, Finish, TypeOK, cfgvars
      <4>2. CASE IsContact(d) \/ AutoAdd(d)
        BY <4>2 DEF IsContact, AutoAdd, Goto, Finish, TypeOK, cfgvars, stores
      <4>3. CASE ClassifyStranger(d)
        BY <4>3 DEF ClassifyStranger, Goto, Finish, TypeOK, cfgvars, stores
      <4> QED BY <2>3, <4>1, <4>2, <4>3
    <3>2. CacheInv' /\ HandInv(d)' /\ CredsInv(d)'
      BY <3>1 DEF CacheInv, HandInv, CredsInv, Good
    <3>3. result'[d] = "stranger_review" => creds[d] \cap Trusted # {}
      BY <2>3 DEF SeenReplay, RememberReplay, IsContact, AutoAdd, ClassifyStranger, Goto,
                  Finish, TypeOK, DoneInv
    <3> QED BY <2>1, <3>1, <3>2, <3>3 DEF CredsInv
  <2>4. ASSUME NEW d \in Deliveries, ReadCache(d) PROVE Inv'
    <3>1. /\ UNCHANGED <<now, credExp, vetted, cur>> /\ at'[d] = now
          /\ \A e \in Deliveries : e # d => Kept(e)
          /\ pc'[d] = "contact" /\ result'[d] = "none"
      BY <2>4 DEF ReadCache, Goto, TypeOK, DoneInv, cfgvars
    <3>2. CacheInv'
      BY <2>4, <3>1, EnvType DEF ReadCache, CacheInv, Live, TypeOK
    <3>3. ASSUME NEW c \in creds'[d] PROVE Good(d, c)'
      <4>1. PICK e \in cached[Env(d).from] : e[2] > now /\ c = e[1]
        BY <2>4, <3>3 DEF ReadCache, Live, TypeOK
      <4>2. c \in vetted /\ e[2] <= credExp[c] - CacheLeeway
        BY <4>1, EnvType DEF CacheInv
      <4>3. e[2] \in Int /\ credExp[c] \in Nat /\ now \in Nat
        BY <4>1, EnvType DEF TypeOK
      <4> QED BY <3>1, <4>1, <4>2, <4>3 DEF Good
    <3>4. HandInv(d)' /\ CredsInv(d)'
      BY <3>1, <3>3 DEF HandInv, CredsInv, TypeOK
    <3> QED BY <2>1, <3>1, <3>2, <3>4
  <2>5. ASSUME NEW d \in Deliveries, VerifyCredential(d) PROVE Inv'
    <3>1. /\ UNCHANGED <<now, credExp, vetted, cached, creds>>
          /\ \A e \in Deliveries : e # d => Kept(e)
          /\ result'[d] # "stranger_review"
      BY <2>5 DEF VerifyCredential, Goto, Finish, TypeOK, DoneInv, cfgvars, stores
    <3>2. PICK c \in Env(d).creds :
             \/ /\ credExp[c] >= now - Leeway
                /\ pc'[d] = "status" /\ cur'[d] = c
                /\ at'[d] = IF creds[d] = {} THEN now ELSE at[d]
             \/ pc'[d] = "done" /\ at'[d] = at[d]
      BY <2>5 DEF VerifyCredential, Goto, Finish, TypeOK
    <3>3. credExp[c] \in Nat /\ now \in Nat /\ at[d] \in Nat /\ at[d] <= now
      BY EnvType DEF TypeOK, CredsInv
    <3>4. CacheInv' /\ HandInv(d)' /\ CredsInv(d)'
      BY <3>1, <3>2, <3>3 DEF CacheInv, HandInv, CredsInv, Good
    <3> QED BY <2>1, <3>1, <3>4
  <2>6. ASSUME NEW d \in Deliveries, CheckRevocation(d) PROVE Inv'
    <3>1. /\ UNCHANGED <<now, credExp, cached, creds, cur, at>> /\ vetted \subseteq vetted'
          /\ \A e \in Deliveries : e # d => Kept(e)
          /\ pc[d] = "status" /\ result'[d] # "stranger_review"
          /\ pc'[d] = "done" \/ (pc'[d] = "cache" /\ cur[d] \in vetted')
      BY <2>6 DEF CheckRevocation, Goto, Finish, TypeOK, DoneInv, cfgvars, stores
    <3>2. CacheInv' /\ HandInv(d)' /\ CredsInv(d)'
      BY <3>1 DEF CacheInv, HandInv, CredsInv, Good
    <3> QED BY <2>1, <3>1, <3>2
  <2>7. ASSUME NEW d \in Deliveries, CacheCredential(d) PROVE Inv'
    <3> DEFINE until == Earlier(credExp[cur[d]] - CacheLeeway, now + CacheTtl)
    <3>1. /\ UNCHANGED <<now, credExp, vetted, at>>
          /\ \A e \in Deliveries : e # d => Kept(e)
          /\ pc[d] = "cache" /\ pc'[d] \in {"contact", "creds"} /\ result'[d] = "none"
          /\ cached' = [cached EXCEPT ![Env(d).from] = @ \cup {<<cur[d], until>>}]
          /\ creds'[d] = creds[d] \cup {cur[d]}
      BY <2>7 DEF CacheCredential, Goto, TypeOK, DoneInv, cfgvars
    <3>2. cur[d] \in Credentials /\ Good(d, cur[d])
      BY <3>1 DEF CurInv, HandInv, Good
    <3>3. until <= credExp[cur[d]] - CacheLeeway
      BY <3>2 DEF Earlier, TypeOK
    <3> HIDE DEF until
    <3>4. CacheInv'
      <4>1. ASSUME NEW s \in Senders, NEW e \in cached'[s]
            PROVE  e[1] \in vetted' /\ e[2] <= credExp'[e[1]] - CacheLeeway
        <5>1. e \in cached[s] \/ e = <<cur[d], until>>
          BY <3>1, EnvType DEF TypeOK
        <5>2. CASE e \in cached[s]
          BY <3>1, <5>2 DEF CacheInv
        <5>3. CASE e = <<cur[d], until>>
          BY <3>1, <3>2, <3>3, <5>3 DEF Good
        <5> QED BY <5>1, <5>2, <5>3
      <4> QED BY <4>1 DEF CacheInv
    <3>5. HandInv(d)' /\ CredsInv(d)'
      BY <3>1, <3>2 DEF HandInv, CredsInv, Good
    <3> QED BY <2>1, <3>1, <3>4, <3>5
  <2>8. CASE Tick \/ Owner \/ (\E c \in Credentials : Revoke(c)) \/ UNCHANGED vars
    <3>1. /\ UNCHANGED <<credExp, vetted, cached, pc, at, cur, creds, result>>
          /\ now' = now \/ now' = now + 1
      BY <2>8 DEF Tick, Owner, AddContact, RemoveContact, RecordOutbound, Revoke, vars,
                  cfgvars, stores
    <3>2. \A d \in Deliveries : HandInv(d)' /\ CredsInv(d)'
      BY <3>1 DEF HandInv, CredsInv, Good, TypeOK
    <3> QED BY <3>1, <3>2 DEF CacheInv, StrangersAreVetted
  <2> QED BY <2>2, <2>3, <2>4, <2>5, <2>6, <2>7, <2>8 DEF Next, Receive, Finished
<1>3. ReplayInv => DoneInv
  BY DEF ReplayInv
<1> QED BY <1>1, <1>2, <1>3, TypeCorrect, ReplayInit, ReplayStep, PTL DEF Spec
-----------------------------------------------------------------------------
\* The owner knows everyone there is an outbound record of, and everyone a
\* delivery is about to add; a contextId that is looked up is a string.
OutboundInv == \A x \in Contexts, s \in Senders : outbound[<<x, s>>] # None => s \in known
AddInv(d) == /\ pc[d] = "add" => Env(d).from \in known
             /\ pc[d] = "outbound" => Env(d).ctx # BadContext

(* Only senders of the organisation, or whom the owner added or wrote to,  *)
(* reach the inbox and the contacts, however deliveries, additions and     *)
(* removals of contacts and outbound messages interleave.                  *)
THEOREM InboxHoldsTheKnown == Spec => []InboxIsForTheKnown
<1> DEFINE Inv == /\ InboxIsForTheKnown /\ OutboundInv
                  /\ \A d \in Deliveries : AddInv(d)
<1> USE ReceiverAssumption
<1>1. Init => Inv
  BY DEF Init, InboxIsForTheKnown, OutboundInv, AddInv
<1>2. TypeOK /\ DoneInv /\ Inv /\ [Next]_vars => Inv'
  <2> SUFFICES ASSUME TypeOK, DoneInv, Inv, [Next]_vars PROVE Inv'
    OBVIOUS
  <2>1. ASSUME NEW d \in Deliveries,
               UNCHANGED <<envelopes, env, known, outbound>>,
               \A e \in Deliveries : e # d => pc'[e] = pc[e] /\ result'[e] = result[e],
               contacts' \subseteq known,
               pc'[d] = "add" => Env(d).from \in known,
               pc'[d] = "outbound" => Env(d).ctx # BadContext,
               result'[d] = "inbox" => Env(d).from \in SameOrg \cup known
        PROVE  Inv'
    <3>1. \A e \in Deliveries : Env(e)' = Env(e)
      BY <2>1 DEF Env
    <3> QED BY <2>1, <3>1 DEF InboxIsForTheKnown, OutboundInv, AddInv
  <2>2. ASSUME NEW d \in Deliveries,
               \/ VerifyEnvelope(d) \/ SeenReplay(d) \/ RememberReplay(d) \/ ReadCache(d)
               \/ VerifyCredential(d) \/ CheckRevocation(d) \/ CacheCredential(d)
        PROVE  Inv'
    <3>1. /\ UNCHANGED <<envelopes, env, known, outbound, contacts>>
          /\ \A e \in Deliveries : e # d => pc'[e] = pc[e] /\ result'[e] = result[e]
          /\ pc'[d] \notin {"add", "outbound"} /\ result'[d] # "inbox"
      <4>1. CASE VerifyEnvelope(d) \/ SeenReplay(d) \/ RememberReplay(d)
        BY <4>1 DEF VerifyEnvelope, SeenReplay, RememberReplay, Goto, Finish, TypeOK, DoneInv,
                    cfgvars, stores
      <4>2. CASE ReadCache(d) \/ VerifyCredential(d)
        BY <4>2 DEF ReadCache, VerifyCredential, Goto, Finish, TypeOK, DoneInv, cfgvars, stores
      <4>3. CASE CheckRevocation(d) \/ CacheCredential(d)
        BY <4>3 DEF CheckRevocation, CacheCredential, Goto, Finish, TypeOK, DoneInv, cfgvars,
                    stores
      <4> QED BY <2>2, <4>1, <4>2, <4>3
    <3> QED BY <2>1, <3>1 DEF InboxIsForTheKnown
  <2>3. ASSUME NEW d \in Deliveries, IsContact(d) PROVE Inv'
    <3>1. /\ UNCHANGED <<envelopes, env, known, outbound, contacts>>
          /\ \A e \in Deliveries : e # d => pc'[e] = pc[e] /\ result'[e] = result[e]
          /\ pc'[d] # "add" /\ (pc'[d] = "outbound" => Env(d).ctx # BadContext)
          /\ (result'[d] = "inbox" => Env(d).from \in SameOrg \cup contacts)
      BY <2>3 DEF IsContact, Goto, Finish, TypeOK, DoneInv, cfgvars, stores
    <3> QED BY <2>1, <3>1 DEF InboxIsForTheKnown
  <2>4. ASSUME NEW d \in Deliveries, ClassifyStranger(d) PROVE Inv'
    <3>1. /\ UNCHANGED <<envelopes, env, known, outbound, contacts>>
          /\ \A e \in Deliveries : e # d => pc'[e] = pc[e] /\ result'[e] = result[e]
          /\ (pc'[d] = "add" => RecentOutbound(d)) /\ result'[d] # "inbox"
          /\ Env(d).ctx # BadContext
      <4>1. UNCHANGED <<envelopes, env, known, outbound, contacts>> /\ Env(d).ctx # BadContext
        BY <2>4 DEF ClassifyStranger, AddInv, cfgvars, stores
      <4>2. /\ \A e \in Deliveries : e # d => pc'[e] = pc[e] /\ result'[e] = result[e]
            /\ (pc'[d] = "add" => RecentOutbound(d)) /\ result'[d] # "inbox"
        BY <2>4 DEF ClassifyStranger, Goto, Finish, TypeOK, DoneInv
      <4> QED BY <4>1, <4>2
    <3>2. RecentOutbound(d) => Env(d).from \in known
      BY <3>1, EnvType DEF RecentOutbound, OutboundInv
    <3> QED BY <2>1, <3>1, <3>2 DEF InboxIsForTheKnown
  <2>5. ASSUME NEW d \in Deliveries, AutoAdd(d) PROVE Inv'
    <3>1. /\ UNCHANGED <<envelopes, env, known, outbound>>
          /\ \A e \in Deliveries : e # d => pc'[e] = pc[e] /\ result'[e] = result[e]
          /\ pc'[d] = "done" /\ contacts' = contacts \cup {Env(d).from}
          /\ Env(d).from \in known
      BY <2>5 DEF AutoAdd, Finish, TypeOK, AddInv, cfgvars
    <3> QED BY <2>1, <3>1 DEF InboxIsForTheKnown
  <2>6. CASE Owner
    <3>1. /\ UNCHANGED <<envelopes, env, pc, result>> /\ known \subseteq known'
          /\ contacts' \subseteq known'
      BY <2>6 DEF Owner, AddContact, RemoveContact, RecordOutbound, InboxIsForTheKnown, cfgvars
    <3>2. OutboundInv'
      BY <2>6 DEF Owner, AddContact, RemoveContact, RecordOutbound, OutboundInv, TypeOK
    <3> QED BY <3>1, <3>2 DEF InboxIsForTheKnown, AddInv, Env
  <2>7. CASE Tick \/ (\E c \in Credentials : Revoke(c)) \/ UNCHANGED vars
    BY <2>7 DEF Tick, Revoke, vars, cfgvars, stores, InboxIsForTheKnown, OutboundInv, AddInv, Env
  <2> QED BY <2>2, <2>3, <2>4, <2>5, <2>6, <2>7 DEF Next, Receive, Finished
<1>3. ReplayInv => DoneInv
  BY DEF ReplayInv
<1> QED BY <1>1, <1>2, <1>3, TypeCorrect, ReplayInit, ReplayStep, PTL DEF Spec
=============================================================================
