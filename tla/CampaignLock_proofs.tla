------------------------- MODULE CampaignLock_proofs -------------------------
(***************************************************************************)
(* Proofs about the campaign lock for any set of workers and any timing.   *)
(* IInv is inductive whatever outages there are; only that a round is      *)
(* alone takes a heartbeat thread that renews within the TTL.              *)
(***************************************************************************)
EXTENDS CampaignLock, TLAPS

\* The initial state has no key and no worker in a round.
LEMMA InitBookkeeping == Init => Bookkeeping
  BY LockAssumption DEF Init, Bookkeeping, TypeOK, TokensUnique, HeldTokens, KeyHasTTL, InRound

\* Every step keeps types, token uniqueness and the thread's time budget.
LEMMA NextBookkeeping == Bookkeeping /\ [Next]_vars => Bookkeeping'
<1> SUFFICES ASSUME Bookkeeping, [Next]_vars
             PROVE  Bookkeeping'
  OBVIOUS
<1> USE LockAssumption DEF Bookkeeping, TypeOK, TokensUnique, HeldTokens, KeyHasTTL, InRound
<1>1. ASSUME NEW w \in Workers, Acquire(w)
      PROVE  Bookkeeping'
  BY <1>1 DEF Acquire, Fresh, SetNX
<1>2. ASSUME NEW w \in Workers, AcquireReplyLost(w)
      PROVE  Bookkeeping'
  BY <1>2 DEF AcquireReplyLost, SetNX, workerVars
<1>3. ASSUME NEW w \in Workers, HeartbeatRenew(w)
      PROVE  Bookkeeping'
  BY <1>3 DEF HeartbeatRenew, BeatDue
<1>4. ASSUME NEW w \in Workers, HeartbeatLost(w)
      PROVE  Bookkeeping'
  BY <1>4 DEF HeartbeatLost, BeatDue
<1>5. ASSUME NEW w \in Workers, HeartbeatError(w)
      PROVE  Bookkeeping'
  BY <1>5 DEF HeartbeatError, BeatDue
<1>6. ASSUME NEW w \in Workers, StopHeartbeat(w)
      PROVE  Bookkeeping'
  BY <1>6 DEF StopHeartbeat
<1>7. ASSUME NEW w \in Workers, Forget(w), UNCHANGED lockVars \/ (key' = NoToken /\ ttl' = 0)
      PROVE  Bookkeeping'
  BY <1>7 DEF Forget, lockVars
<1>8. CASE Tick
  <2> USE <1>8 DEF Tick, BeatDue
  <2>1. ASSUME NEW w \in Workers
        PROVE  /\ beat[w] = "waiting" => timer[w] < HB /\ age[w] < MaxGap
               /\ timer'[w] \in 0 .. HB /\ age'[w] \in 0 .. MaxGap
               /\ age'[w] + HB <= MaxGap + timer'[w]
               /\ beat[w] # "waiting" => timer'[w] = 0 /\ age'[w] = 0
    <3>1. timer[w] \in 0 .. HB /\ age[w] \in 0 .. MaxGap /\ age[w] + HB <= MaxGap + timer[w]
      OBVIOUS
    <3>2. CASE beat[w] = "waiting"
      <4>1. timer[w] # HB
        BY <3>2
      <4>2. timer'[w] = timer[w] + 1 /\ age'[w] = age[w] + 1
        BY <3>2
      <4> QED
        BY <3>1, <3>2, <4>1, <4>2
    <3>3. CASE beat[w] # "waiting"
      <4>1. timer'[w] = timer[w] /\ age'[w] = age[w]
        BY <3>3
      <4> QED
        BY <3>1, <3>3, <4>1
    <3> QED
      BY <3>2, <3>3
  <2>2. ttl' \in 0 .. TTL /\ (key' = NoToken <=> ttl' = 0) /\ key' \in Tokens \cup {NoToken}
    OBVIOUS
  <2>3. /\ timer' \in [Workers -> 0 .. HB]
        /\ age' \in [Workers -> 0 .. MaxGap]
    BY <2>1
  <2> QED
    BY <2>1, <2>2, <2>3
<1>9. CASE UNCHANGED vars
  BY <1>9 DEF vars
<1> QED
  BY <1>1, <1>2, <1>3, <1>4, <1>5, <1>6, <1>7, <1>8, <1>9
  DEF Next, Heartbeat, Release, ReleaseError, Crash

-----------------------------------------------------------------------------
(***************************************************************************)
(* The lock's variables keep their types; in particular a live thread's    *)
(* age never exceeds MaxGap (the heartbeat loop, distributed_lock.py:100). *)
(***************************************************************************)
THEOREM TypeCorrect == Spec => []TypeOK
<1>1. Bookkeeping => TypeOK
  BY DEF Bookkeeping
<1> QED
  BY <1>1, InitBookkeeping, NextBookkeeping, PTL DEF Spec

(***************************************************************************)
(* Fencing holds under any Redis outage: a release never deletes the key   *)
(* of another worker's running round (distributed_lock.py:135-149).        *)
(***************************************************************************)
THEOREM FencedRelease == Spec => OnlyOwnerDeletes
<1>1. ASSUME Bookkeeping, [Next]_vars, NEW w \in Workers,
             InRound(w), key = token[w], key' # key
      PROVE  ttl = 1 /\ ttl' = 0
  <2> USE <1>1, LockAssumption
          DEF Bookkeeping, TypeOK, TokensUnique, HeldTokens, KeyHasTTL, InRound
  <2>1. key # NoToken /\ ttl # 0
    OBVIOUS
  <2>2. ASSUME NEW v \in Workers, Release(v)
        PROVE  FALSE
    <3>1. pc[v] = "stopping" /\ key = token[v]
      BY <2>2 DEF Release, lockVars
    <3> QED
      BY <3>1
  <2>3. CASE Tick
    BY <2>3, <2>1 DEF Tick
  <2>4. ASSUME NEW v \in Workers, Acquire(v) \/ AcquireReplyLost(v)
        PROVE  FALSE
    BY <2>4, <2>1 DEF Acquire, AcquireReplyLost, SetNX
  <2>5. ASSUME NEW v \in Workers,
               Heartbeat(v) \/ StopHeartbeat(v) \/ ReleaseError(v) \/ Crash(v)
        PROVE  FALSE
    BY <2>5 DEF Heartbeat, HeartbeatRenew, HeartbeatLost, HeartbeatError,
                StopHeartbeat, ReleaseError, Crash, lockVars
  <2>6. CASE UNCHANGED vars
    BY <2>6 DEF vars
  <2> QED
    BY <2>2, <2>3, <2>4, <2>5, <2>6 DEF Next
<1>2. Bookkeeping /\ [Next]_vars =>
        [\A w \in Workers :
           (InRound(w) /\ key = token[w] /\ key' # key) => (ttl = 1 /\ ttl' = 0)]_vars
  BY <1>1
<1> QED
  BY <1>2, InitBookkeeping, NextBookkeeping, PTL DEF Spec, OnlyOwnerDeletes

(***************************************************************************)
(* Whatever the environment does, the TTL of a key that stays grows only   *)
(* through the thread of the round whose token it holds, after a whole     *)
(* interval: a taken key is not taken again, nor its TTL restored by a     *)
(* thread that lost it (distributed_lock.py:54-55, 107-129).               *)
(***************************************************************************)
THEOREM FencedRenewal == Spec => OnlyOwnerRenews
<1>1. ASSUME Bookkeeping, [Next]_vars, key' = key, ttl' > ttl
      PROVE  \E w \in Workers : token[w] = key /\ BeatDue(w)
  <2> USE <1>1, LockAssumption DEF Bookkeeping, TypeOK, KeyHasTTL
  <2>1. ASSUME NEW w \in Workers, Acquire(w) \/ AcquireReplyLost(w)
        PROVE  FALSE
    BY <2>1 DEF Acquire, AcquireReplyLost, SetNX
  <2>2. CASE \E w \in Workers : HeartbeatRenew(w)
    BY <2>2 DEF HeartbeatRenew
  <2>3. ASSUME NEW w \in Workers, Release(w)
        PROVE  FALSE
    BY <2>3 DEF Release, lockVars
  <2>4. ASSUME NEW w \in Workers,
               HeartbeatLost(w) \/ HeartbeatError(w) \/ StopHeartbeat(w) \/ ReleaseError(w) \/ Crash(w)
        PROVE  FALSE
    BY <2>4 DEF HeartbeatLost, HeartbeatError, StopHeartbeat, ReleaseError, Crash, lockVars
  <2>5. ~Tick /\ ~UNCHANGED vars
    BY DEF Tick, vars
  <2> QED
    BY <2>1, <2>2, <2>3, <2>4, <2>5 DEF Next, Heartbeat
<1>2. Bookkeeping /\ [Next]_vars =>
        [(key' = key /\ ttl' > ttl) => \E w \in Workers : token[w] = key /\ BeatDue(w)]_vars
  BY <1>1
<1> QED
  BY <1>2, InitBookkeeping, NextBookkeeping, PTL DEF Spec, OnlyOwnerRenews

-----------------------------------------------------------------------------
\* A round that has not lapsed leaves the key at least one unit of time.
LEMMA LeaseLive ==
  ASSUME IInv, NEW w \in Workers, Holds(w)
  PROVE  key = token[w] /\ key # NoToken /\ ttl >= 1
BY LockAssumption
DEF IInv, Bookkeeping, TypeOK, HeldTokens, KeyHasTTL, InRound, Holds, Lapsed, Lease

\* Two leases would put two different tokens into the one key.
LEMMA OneHolds ==
  ASSUME IInv, NEW u \in Workers, NEW v \in Workers, Holds(u), Holds(v)
  PROVE  u = v
BY LeaseLive DEF IInv, Bookkeeping, TokensUnique

\* One of two rounds at once has lapsed.
LEMMA LeaseExcludes == IInv => MutualExclusion
BY OneHolds DEF MutualExclusion, Holds

\* Init has no round, so nothing to lease.
LEMMA InitIInv == Init => IInv
BY InitBookkeeping DEF Init, IInv, Lease, InRound

\* What the lease of one worker says.
LeaseOf(w) ==
  InRound(w) =>
    IF Lapsed(w) THEN key # token[w]
    ELSE beat[w] = "waiting" /\ key = token[w] /\ ttl + age[w] = TTL

\* Every step keeps the leases of the running rounds.
LEMMA NextIInv == IInv /\ [Next]_vars => IInv'
<1> SUFFICES ASSUME IInv, [Next]_vars, NEW u \in Workers, InRound(u)'
             PROVE  LeaseOf(u)'
  BY NextBookkeeping DEF IInv, Lease, LeaseOf
<1>0. Bookkeeping'
  BY NextBookkeeping DEF IInv
<1>a. InRound(u) => LeaseOf(u)
  BY DEF IInv, Lease, LeaseOf
<1> USE LockAssumption DEF Bookkeeping, TypeOK, HeldTokens, KeyHasTTL, InRound, Lapsed, LeaseOf
<1>b. Bookkeeping
  BY DEF IInv
<1>1. ASSUME NEW w \in Workers, Acquire(w)
      PROVE  LeaseOf(u)'
  <2>1. PICK t \in Tokens :
          Fresh(t) /\ key = NoToken /\ key' = t /\ ttl' = TTL /\ token' = [token EXCEPT ![w] = t]
    BY <1>1 DEF Acquire, SetNX
  <2>2. CASE u = w
    <3>1. beat'[u] = "waiting" /\ token'[u] = t /\ age'[u] = 0
      BY <1>b, <1>1, <2>1, <2>2 DEF Acquire
    <3> QED
      BY <2>1, <3>1
  <2>3. CASE u # w
    <3>1. InRound(u) /\ UNCHANGED <<beat[u], age[u], token[u]>>
      BY <1>b, <1>1, <2>1, <2>3 DEF Acquire
    <3>2. token[u] # NoToken
      BY <1>b, <3>1
    <3>3. Lapsed(u)
      BY <1>a, <2>1, <3>1, <3>2
    <3> QED
      BY <2>1, <3>1, <3>3 DEF Fresh
  <2> QED
    BY <2>2, <2>3
<1>2. ASSUME NEW w \in Workers, AcquireReplyLost(w)
      PROVE  LeaseOf(u)'
  <2>1. PICK t \in Tokens : Fresh(t) /\ key = NoToken /\ key' = t
    BY <1>2 DEF AcquireReplyLost, SetNX
  <2>2. UNCHANGED workerVars
    BY <1>2 DEF AcquireReplyLost
  <2>3. token[u] # NoToken /\ InRound(u)
    BY <1>b, <2>2 DEF workerVars
  <2>4. Lapsed(u)
    BY <1>a, <2>1, <2>3
  <2> QED
    BY <2>1, <2>2, <2>4 DEF workerVars, Fresh
<1>3. ASSUME NEW w \in Workers, Heartbeat(w)
      PROVE  LeaseOf(u)'
  <2>1. InRound(u) /\ UNCHANGED <<key, token>>
    BY <1>3 DEF Heartbeat, HeartbeatRenew, HeartbeatLost, HeartbeatError
  <2>2. CASE HeartbeatRenew(w)
    <3>1. ttl' = TTL /\ key = token[w] /\ UNCHANGED beat /\ beat[w] = "waiting"
      BY <2>2 DEF HeartbeatRenew, BeatDue
    <3>2. CASE u = w
      BY <1>b, <2>1, <2>2, <3>1, <3>2 DEF HeartbeatRenew
    <3>3. CASE u # w
      <4>1. key # token[u]
        BY <1>b, <2>1, <3>1, <3>3 DEF TokensUnique
      <4>2. age'[u] = age[u]
        BY <1>b, <2>2, <3>3 DEF HeartbeatRenew
      <4> QED
        BY <1>a, <2>1, <3>1, <4>1, <4>2
    <3> QED
      BY <3>2, <3>3
  <2>3. CASE HeartbeatLost(w)
    <3>1. CASE u = w
      BY <1>b, <2>1, <2>3, <3>1 DEF HeartbeatLost
    <3>2. CASE u # w
      <4>1. UNCHANGED <<beat[u], age[u], ttl>>
        BY <1>b, <2>3, <3>2 DEF HeartbeatLost
      <4> QED
        BY <1>a, <2>1, <4>1
    <3> QED
      BY <3>1, <3>2
  <2>4. CASE HeartbeatError(w)
    BY <1>a, <2>1, <2>4 DEF HeartbeatError
  <2> QED
    BY <1>3, <2>2, <2>3, <2>4 DEF Heartbeat
<1>4. ASSUME NEW w \in Workers, StopHeartbeat(w)
      PROVE  LeaseOf(u)'
  BY <1>a, <1>b, <1>4 DEF StopHeartbeat
<1>5. ASSUME NEW w \in Workers, Forget(w),
             \/ UNCHANGED lockVars
             \/ pc[w] = "stopping" /\ key = token[w] /\ key' = NoToken /\ ttl' = 0
      PROVE  LeaseOf(u)'
  <2>1. u # w /\ InRound(u) /\ UNCHANGED <<token[u], beat[u], age[u]>>
    BY <1>b, <1>5 DEF Forget
  <2>2. CASE UNCHANGED lockVars
    BY <1>a, <2>1, <2>2 DEF lockVars
  <2>3. CASE pc[w] = "stopping" /\ key = token[w] /\ key' = NoToken
    <3>1. key # token[u] /\ token[u] # NoToken
      BY <1>b, <2>1, <2>3 DEF TokensUnique
    <3> QED
      BY <1>a, <2>1, <2>3, <3>1
  <2> QED
    BY <1>5, <2>2, <2>3
<1>6. CASE Tick
  <2>1. InRound(u) /\ UNCHANGED <<token, beat>> /\ token[u] # NoToken
    BY <1>b, <1>6 DEF Tick
  <2>2. CASE Lapsed(u)
    <3>1. key' # token[u]
      BY <1>a, <1>6, <2>1, <2>2 DEF Tick
    <3>2. Lapsed(u)'
      BY <1>b, <1>6, <2>1, <2>2 DEF Tick
    <3> QED
      BY <2>1, <3>1, <3>2
  <2>3. CASE ~Lapsed(u)
    <3>1. Holds(u) /\ beat[u] = "waiting" /\ key = token[u] /\ ttl + age[u] = TTL
      BY <1>a, <2>1, <2>3 DEF Holds
    <3>2. ttl \in Nat /\ age[u] \in Nat /\ ttl >= 1
      BY <1>b, <3>1, LeaseLive
    <3>3. /\ ttl' = ttl - 1 /\ age'[u] = age[u] + 1
          /\ key' = IF ttl = 1 THEN NoToken ELSE key
      BY <1>6, <3>1, <3>2 DEF Tick
    <3> QED
      BY <2>1, <2>3, <3>1, <3>2, <3>3
  <2> QED
    BY <2>2, <2>3
<1>7. CASE UNCHANGED vars
  BY <1>a, <1>7 DEF vars
<1>8. ASSUME NEW w \in Workers, Release(w)
      PROVE  LeaseOf(u)'
  BY <1>5, <1>8 DEF Release
<1> QED
  BY <1>1, <1>2, <1>3, <1>4, <1>5, <1>6, <1>7, <1>8 DEF Next, ReleaseError, Crash

(***************************************************************************)
(* Whatever outages there are, the key of a round that renews in time      *)
(* outlasts what is left of the TTL and holds its token, and a round that  *)
(* does not has lost it (distributed_lock.py:54-64, 107-129).              *)
(***************************************************************************)
THEOREM LeaseIsKept == Spec => []IInv
<1> QED
  BY NextIInv, InitIInv, PTL DEF Spec

(***************************************************************************)
(* Two rounds of a campaign at once are never both within the TTL of their *)
(* last renewal: no crash, failed release, lost reply or late release of   *)
(* an earlier round leads to that (distributed_lock.py:14-31).             *)
(***************************************************************************)
THEOREM OverlapIsLapse == Spec => []MutualExclusion
<1> QED
  BY NextIInv, InitIInv, LeaseExcludes, PTL DEF Spec

-----------------------------------------------------------------------------
\* The environment is timely: a live thread renews before the key can expire.
Timely == MaxGap < TTL

\* Every round holds the abstract lock, as CampaignRound takes it.
RoundsHold == \A w \in Workers : InRound(w) => lockHolder = w

\* The refinement mapping names the round that has not lapsed.
LEMMA HolderIsRound ==
  ASSUME IInv
  PROVE  /\ \A w \in Workers : Holds(w) => lockHolder = w
         /\ (\A w \in Workers : ~Holds(w)) =>
              lockHolder = IF key = NoToken THEN Free ELSE Abandoned
BY OneHolds DEF lockHolder

\* In a timely environment no round lapses.
LEMMA NoneLapses ==
  ASSUME Timely, IInv, NEW w \in Workers, InRound(w), beat[w] # "lost"
  PROVE  Holds(w)
BY LockAssumption DEF Timely, IInv, Bookkeeping, TypeOK, Holds, Lapsed

\* A thread that renews in time is not told that it lost the key.
NoneLost == \A w \in Workers : beat[w] # "lost"

\* Every step of a timely environment keeps that.
LEMMA NextNoneLost == ASSUME Timely PROVE IInv /\ NoneLost /\ [Next]_vars => NoneLost'
<1> SUFFICES ASSUME IInv, NoneLost, [Next]_vars PROVE NoneLost'
  OBVIOUS
<1> USE DEF NoneLost
<1>b. Bookkeeping /\ beat \in [Workers -> {"off", "waiting", "lost"}]
  BY DEF IInv, Bookkeeping, TypeOK
<1>1. ASSUME NEW w \in Workers, HeartbeatLost(w)
      PROVE  FALSE
  <2>1. InRound(w) /\ key # token[w]
    BY <1>b, <1>1 DEF HeartbeatLost, BeatDue, Bookkeeping, HeldTokens
  <2> QED
    BY <2>1, NoneLapses, LeaseLive
<1>2. ASSUME NEW w \in Workers,
             \/ Acquire(w) \/ AcquireReplyLost(w) \/ HeartbeatRenew(w) \/ HeartbeatError(w)
             \/ StopHeartbeat(w) \/ Forget(w)
      PROVE  NoneLost'
  BY <1>b, <1>2 DEF Acquire, AcquireReplyLost, HeartbeatRenew, HeartbeatError, StopHeartbeat,
                    Forget, workerVars
<1>3. CASE Tick \/ UNCHANGED vars
  BY <1>3 DEF Tick, vars
<1> QED
  BY <1>1, <1>2, <1>3 DEF Next, Heartbeat, Release, ReleaseError, Crash

(***************************************************************************)
(* In a timely environment every round that runs holds the abstract lock,  *)
(* so that one worker at most runs a round of the campaign                 *)
(* (run_campaign_round_async, engine/sender.py:772-795).                   *)
(***************************************************************************)
THEOREM TimelyRoundsHold == ASSUME Timely PROVE Spec => []RoundsHold
<1>1. Init => NoneLost
  BY DEF Init, NoneLost
<1>2. IInv /\ NoneLost => RoundsHold
  BY NoneLapses, HolderIsRound DEF NoneLost, RoundsHold
<1> QED
  BY <1>1, <1>2, NextNoneLost, NextIInv, InitIInv, PTL DEF Spec

(***************************************************************************)
(* The Redis protocol implements the abstract lock, with any outages: a    *)
(* round is entered only from a free lock, gives it up when it ends or     *)
(* lapses, and a lock left behind by a crash or a failed release is freed  *)
(* before anybody takes it again.                                          *)
(***************************************************************************)
THEOREM LockImplementsRoundLock == Spec => AbstractLock
<1>1. Init => Abstract!Init
  BY DEF Init, Abstract!Init, lockHolder, Holds, InRound
<1>2. IInv /\ [Next]_vars => IInv'
  BY NextIInv
<1>3. ASSUME IInv, IInv', [Next]_vars
      PROVE  [Abstract!Next]_lockHolder
  <2> USE LockAssumption
  <2>a. /\ \A w \in Workers : Holds(w) => lockHolder = w
        /\ (\A w \in Workers : ~Holds(w)) =>
             lockHolder = IF key = NoToken THEN Free ELSE Abandoned
    BY <1>3, HolderIsRound
  <2>b. /\ \A u, v \in Workers : Holds(u)' /\ Holds(v)' => u = v
        /\ \A w \in Workers : Holds(w)' => key' = token'[w] /\ key' # NoToken
    <3>1. \A w \in Workers : Holds(w)' => key' = token'[w] /\ key' # NoToken
      BY <1>3 DEF IInv, Bookkeeping, TypeOK, HeldTokens, InRound, Holds, Lease
    <3> QED
      BY <1>3, <3>1 DEF IInv, Bookkeeping, TokensUnique
  <2>c. /\ \A w \in Workers : Holds(w)' => lockHolder' = w
        /\ (\A w \in Workers : ~Holds(w)') =>
             lockHolder' = IF key' = NoToken THEN Free ELSE Abandoned
    BY <2>b DEF lockHolder
  <2>d. Bookkeeping /\ \A w \in Workers : Holds(w) => key = token[w] /\ key # NoToken /\ ttl >= 1
    BY <1>3, LeaseLive DEF IInv
  <2>3. ASSUME NEW w \in Workers, Acquire(w)
        PROVE  Abstract!Next
    <3>1. key = NoToken /\ \A v \in Workers : ~Holds(v)
      BY <2>d, <2>3 DEF Acquire, SetNX
    <3>2. Holds(w)'
      BY <2>3, <2>d DEF Acquire, Holds, Lapsed, InRound, Bookkeeping, TypeOK, HeldTokens
    <3>3. lockHolder = Free /\ lockHolder' = w
      BY <2>a, <2>c, <3>1, <3>2
    <3> QED
      BY <3>3 DEF Abstract!Next, Abstract!Acquire
  <2>4. ASSUME NEW w \in Workers, AcquireReplyLost(w)
        PROVE  Abstract!Next
    <3>1. key = NoToken /\ key' # NoToken /\ \A v \in Workers : ~Holds(v)
      BY <2>d, <2>4 DEF AcquireReplyLost, SetNX
    <3>2. \A v \in Workers : ~Holds(v)'
      BY <2>4, <3>1 DEF AcquireReplyLost, workerVars, Holds, Lapsed, InRound
    <3>3. lockHolder = Free /\ lockHolder' = Abandoned
      BY <2>a, <2>c, <3>1, <3>2
    <3> QED
      BY <3>3 DEF Abstract!Next, Abstract!Abandon
\* A holder that stops holding frees the lock, or leaves the key behind.
  <2>5. ASSUME NEW w \in Workers, Holds(w), \A v \in Workers : ~Holds(v)'
        PROVE  Abstract!Next
    <3>1. lockHolder = w /\ lockHolder' \in {Free, Abandoned}
      BY <2>a, <2>c, <2>5
    <3> QED
      BY <3>1 DEF Abstract!Next, Abstract!Release, Abstract!Abandon
\* While nobody holds it, a key left behind expires.
  <2>6. ASSUME \A v \in Workers : ~Holds(v) /\ ~Holds(v)', key' = key \/ key' = NoToken
        PROVE  Abstract!Next \/ UNCHANGED lockHolder
    BY <2>a, <2>c, <2>6 DEF Abstract!Next, Abstract!Expire
\* Nobody comes to hold it but by a SET.
  <2>7. ASSUME \A v \in Workers : Holds(v)' => Holds(v), key' = key \/ key' = NoToken
        PROVE  Abstract!Next \/ UNCHANGED lockHolder
    <3>1. CASE \E w \in Workers : Holds(w)'
      BY <2>a, <2>c, <2>7, <3>1
    <3>2. CASE \A v \in Workers : ~Holds(v)'
      BY <2>5, <2>6, <2>7, <3>2
    <3> QED
      BY <3>1, <3>2
  <2>8. ASSUME NEW w \in Workers, HeartbeatRenew(w)
        PROVE  Abstract!Next \/ UNCHANGED lockHolder
    <3>1. key' = key /\ key = token[w] /\ InRound(w)
      BY <2>8, <2>d DEF HeartbeatRenew, BeatDue, Bookkeeping, HeldTokens
    <3>2. Holds(w)
      BY <1>3, <3>1 DEF IInv, Lease, Holds
    <3>3. \A v \in Workers : Holds(v)' => Holds(v)
      BY <2>8, <2>d, <3>2 DEF HeartbeatRenew, Holds, Lapsed, InRound, Bookkeeping, TypeOK
    <3> QED
      BY <2>7, <3>1, <3>3
  <2>9. ASSUME NEW w \in Workers, HeartbeatLost(w) \/ HeartbeatError(w) \/ StopHeartbeat(w)
        PROVE  Abstract!Next \/ UNCHANGED lockHolder
    <3>1. key' = key
      BY <2>9 DEF HeartbeatLost, HeartbeatError, StopHeartbeat
    <3>2. \A v \in Workers : Holds(v)' => Holds(v)
      <4>1. CASE HeartbeatLost(w)
        BY <2>d, <4>1 DEF HeartbeatLost, Holds, Lapsed, InRound, Bookkeeping, TypeOK
      <4>2. CASE HeartbeatError(w)
        BY <4>2 DEF HeartbeatError, Holds, Lapsed, InRound
      <4>3. CASE StopHeartbeat(w)
        BY <2>d, <4>3 DEF StopHeartbeat, Holds, Lapsed, InRound, Bookkeeping, TypeOK
      <4> QED
        BY <2>9, <4>1, <4>2, <4>3
    <3> QED
      BY <2>7, <3>1, <3>2
  <2>10. ASSUME NEW w \in Workers, Forget(w), key' = key \/ key' = NoToken
         PROVE  Abstract!Next \/ UNCHANGED lockHolder
    <3>1. \A v \in Workers : Holds(v)' => Holds(v)
      BY <2>d, <2>10 DEF Forget, Holds, Lapsed, InRound, Bookkeeping, TypeOK
    <3> QED
      BY <2>7, <2>10, <3>1
  <2>11. CASE Tick
    <3>1. \A v \in Workers : Holds(v)' => Holds(v)
      BY <2>d, <2>11 DEF Tick, Holds, Lapsed, InRound, Bookkeeping, TypeOK
    <3> QED
      BY <2>7, <2>11, <3>1 DEF Tick
  <2>12. CASE UNCHANGED vars
    BY <2>7, <2>12 DEF vars, Holds, Lapsed, InRound
  <2> QED
    BY <1>3, <2>3, <2>4, <2>8, <2>9, <2>10, <2>11, <2>12
    DEF Next, Heartbeat, Release, ReleaseError, Crash, lockVars
<1> QED
  BY <1>1, <1>2, <1>3, InitIInv, PTL DEF Spec, AbstractLock, Abstract!Spec
=============================================================================
