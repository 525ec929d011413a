----------------------------- MODULE CampaignLock -----------------------------
(***************************************************************************)
(* The lock of one campaign, engine/distributed_lock.py: a Redis key with  *)
(* a TTL that holds a random token, a heartbeat thread that renews the     *)
(* TTL while the round of its worker runs, and a release that deletes the  *)
(* key only if it still holds the releaser's token.                        *)
(*                                                                         *)
(* Time is discrete and relative: ttl is what is left of the key's TTL,    *)
(* timer is how long a heartbeat thread has waited in stop.wait, age is    *)
(* the time since the thread last renewed the key.  MaxGap is the longest  *)
(* time the environment (failing Redis calls, a paused process) keeps a    *)
(* live thread from renewing.  When it reaches the TTL, a round loses the  *)
(* key and runs on without being told, so that two rounds overlap.         *)
(***************************************************************************)
EXTENDS Naturals

CONSTANTS
  Workers,    \* processes that run rounds of this campaign
  Tokens,     \* uuid4 tokens
  NoToken,    \* the key does not exist
  Free, Abandoned,  \* lock states of the abstract lock
  TTL,        \* ttl_ms
  HB,         \* heartbeat_interval_s
  MaxGap      \* longest time between two renewals of a live thread

ASSUME LockAssumption ==
  /\ NoToken \notin Tokens
  /\ TTL \in Nat \ {0}
  /\ HB \in Nat \ {0}
  /\ MaxGap \in Nat
  /\ HB <= MaxGap
  /\ Free \notin Workers /\ Abandoned \notin Workers /\ Free # Abandoned

VARIABLES
  key,    \* value of campaign:exec:{id}, or NoToken
  ttl,    \* remaining TTL of the key, 0 when there is no key
  pc,     \* worker -> "idle", "round" (inside the try) or "stopping" (in release)
  token,  \* worker -> HeldLock.token, NoToken when it holds no HeldLock
  beat,   \* worker -> heartbeat thread: "off", "waiting" in stop.wait, or "lost"
  timer,  \* worker -> time spent in the current stop.wait
  age     \* worker -> time since the last renewal by its thread

lockVars == <<key, ttl>>
workerVars == <<pc, token, beat, timer, age>>
vars == <<key, ttl, pc, token, beat, timer, age>>

TypeOK ==
  /\ key \in Tokens \cup {NoToken}
  /\ ttl \in 0 .. TTL
  /\ pc \in [Workers -> {"idle", "round", "stopping"}]
  /\ token \in [Workers -> Tokens \cup {NoToken}]
  /\ beat \in [Workers -> {"off", "waiting", "lost"}]
  /\ timer \in [Workers -> 0 .. HB]
  /\ age \in [Workers -> 0 .. MaxGap]

Init ==
  /\ key = NoToken
  /\ ttl = 0
  /\ pc = [w \in Workers |-> "idle"]
  /\ token = [w \in Workers |-> NoToken]
  /\ beat = [w \in Workers |-> "off"]
  /\ timer = [w \in Workers |-> 0]
  /\ age = [w \in Workers |-> 0]

-----------------------------------------------------------------------------
(* uuid4 never repeats: a new token is in no live HeldLock and not in Redis. *)
Fresh(t) == t # key /\ \A w \in Workers : token[w] # t

\* Mutant: SET without NX.
SetNX_Overwrites(t) == key' = t /\ ttl' = TTL

\* Mutant: SET without PX, the key has no TTL.
SetNX_NoTTL(t) == key = NoToken /\ key' = t /\ ttl' = 0

SetNX(t) == key = NoToken /\ key' = t /\ ttl' = TTL

\* Mutant: the token of the finished round is kept.
Forget_KeepsToken(w) ==
  /\ pc' = [pc EXCEPT ![w] = "idle"]
  /\ beat' = [beat EXCEPT ![w] = "off"]
  /\ timer' = [timer EXCEPT ![w] = 0]
  /\ age' = [age EXCEPT ![w] = 0]
  /\ UNCHANGED token

\* The round is over for w: no HeldLock, no thread.
Forget(w) ==
  /\ pc' = [pc EXCEPT ![w] = "idle"]
  /\ token' = [token EXCEPT ![w] = NoToken]
  /\ beat' = [beat EXCEPT ![w] = "off"]
  /\ timer' = [timer EXCEPT ![w] = 0]
  /\ age' = [age EXCEPT ![w] = 0]

\* SET NX PX succeeds and the heartbeat thread starts.  (When the key exists
\* acquire returns None and nothing changes.)
Acquire(w) ==
  /\ pc[w] = "idle"
  /\ \E t \in Tokens :
       /\ Fresh(t)
       /\ SetNX(t)
       /\ token' = [token EXCEPT ![w] = t]
  /\ pc' = [pc EXCEPT ![w] = "round"]
  /\ beat' = [beat EXCEPT ![w] = "waiting"]
  /\ UNCHANGED <<timer, age>>

\* Redis executes the SET but the caller sees an exception: nobody knows the token.
AcquireReplyLost(w) ==
  /\ pc[w] = "idle"
  /\ \E t \in Tokens : Fresh(t) /\ SetNX(t)
  /\ UNCHANGED workerVars

\* stop.wait timed out in a round that has not been told to stop.
BeatDue(w) == beat[w] = "waiting" /\ timer[w] = HB

\* Mutant: the script does not call PEXPIRE.
HeartbeatRenew_NoPexpire(w) ==
  /\ BeatDue(w)
  /\ key = token[w]
  /\ timer' = [timer EXCEPT ![w] = 0]
  /\ age' = [age EXCEPT ![w] = 0]
  /\ UNCHANGED <<key, ttl, pc, token, beat>>

\* Mutant: PEXPIRE without comparing the token.
HeartbeatRenew_AnyToken(w) ==
  /\ BeatDue(w)
  /\ key # NoToken
  /\ ttl' = TTL
  /\ timer' = [timer EXCEPT ![w] = 0]
  /\ age' = [age EXCEPT ![w] = 0]
  /\ UNCHANGED <<key, pc, token, beat>>

\* The script answers 1: the key has its full TTL again.
HeartbeatRenew(w) ==
  /\ BeatDue(w)
  /\ key = token[w]
  /\ ttl' = TTL
  /\ timer' = [timer EXCEPT ![w] = 0]
  /\ age' = [age EXCEPT ![w] = 0]
  /\ UNCHANGED <<key, pc, token, beat>>

\* The script answers 0: the thread returns, the round is not told.
HeartbeatLost(w) ==
  /\ BeatDue(w)
  /\ key # token[w]
  /\ beat' = [beat EXCEPT ![w] = "lost"]
  /\ timer' = [timer EXCEPT ![w] = 0]
  /\ age' = [age EXCEPT ![w] = 0]
  /\ UNCHANGED <<key, ttl, pc, token>>

\* The script raises: the thread waits for another interval.
HeartbeatError(w) ==
  /\ BeatDue(w)
  /\ age[w] + HB <= MaxGap
  /\ timer' = [timer EXCEPT ![w] = 0]
  /\ UNCHANGED <<key, ttl, pc, token, beat, age>>

\* The round returned or raised: release sets the stop event and joins the thread.
StopHeartbeat(w) ==
  /\ pc[w] = "round"
  /\ pc' = [pc EXCEPT ![w] = "stopping"]
  /\ beat' = [beat EXCEPT ![w] = "off"]
  /\ timer' = [timer EXCEPT ![w] = 0]
  /\ age' = [age EXCEPT ![w] = 0]
  /\ UNCHANGED <<key, ttl, token>>

\* Mutant: DEL without comparing the token.
Release_AnyToken(w) ==
  /\ pc[w] = "stopping"
  /\ key' = NoToken /\ ttl' = 0
  /\ Forget(w)

\* The release script deletes the key if it holds this worker's token.
Release(w) ==
  /\ pc[w] = "stopping"
  /\ IF key = token[w] THEN key' = NoToken /\ ttl' = 0 ELSE UNCHANGED lockVars
  /\ Forget(w)

\* The release script raises: logged, and the key stays until its TTL.
ReleaseError(w) ==
  /\ pc[w] = "stopping"
  /\ Forget(w)
  /\ UNCHANGED lockVars

\* SIGKILL, OOM or a container restart: finally does not run, the thread dies.
Crash(w) ==
  /\ pc[w] # "idle"
  /\ Forget(w)
  /\ UNCHANGED lockVars

\* One unit of time; Redis drops the key when its TTL runs out.  A thread
\* whose wait has timed out makes its call before time passes.
Tick ==
  /\ \A w \in Workers : ~BeatDue(w)
  /\ ttl' = IF ttl = 0 THEN 0 ELSE ttl - 1
  /\ key' = IF ttl = 1 THEN NoToken ELSE key
  /\ timer' = [w \in Workers |-> IF beat[w] = "waiting" THEN timer[w] + 1 ELSE timer[w]]
  /\ age' = [w \in Workers |-> IF beat[w] = "waiting" THEN age[w] + 1 ELSE age[w]]
  /\ UNCHANGED <<pc, token, beat>>

Heartbeat(w) == HeartbeatRenew(w) \/ HeartbeatLost(w) \/ HeartbeatError(w)

Next ==
  \/ \E w \in Workers :
       \/ Acquire(w) \/ AcquireReplyLost(w)
       \/ Heartbeat(w)
       \/ StopHeartbeat(w) \/ Release(w) \/ ReleaseError(w)
       \/ Crash(w)
  \/ Tick

Spec == Init /\ [][Next]_vars

\* Time passes and threads run.  Nothing obliges a round to end.
Fairness == WF_vars(Tick) /\ \A w \in Workers : WF_vars(Heartbeat(w))

FairSpec == Spec /\ Fairness

-----------------------------------------------------------------------------
InRound(w) == pc[w] = "round"

\* The key exists and no worker that could still release it knows its token.
Orphaned == key # NoToken /\ \A w \in Workers : token[w] # key

\* The thread of w has not renewed the key for a whole TTL, or has heard that it
\* lost the key; the round goes on in either case.
Lapsed(w) == beat[w] = "lost" \/ age[w] >= TTL

(***************************************************************************)
(* Of two workers that send for the campaign at once, one has gone a whole *)
(* TTL without a renewal: rounds that outlive the TTL, failing releases,   *)
(* crashes and lost replies do not suffice (distributed_lock.py:14-31).    *)
(***************************************************************************)
MutualExclusion ==
  \A u, v \in Workers : InRound(u) /\ InRound(v) /\ u # v => Lapsed(u) \/ Lapsed(v)

(***************************************************************************)
(* Fencing: only the round that put a token into the key, or the TTL,      *)
(* takes it out.  A worker that lost the lock and then releases must not   *)
(* delete the key of its successor (distributed_lock.py:25-26).            *)
(***************************************************************************)
OnlyOwnerDeletes ==
  [][\A w \in Workers :
       (InRound(w) /\ key = token[w] /\ key' # key) => (ttl = 1 /\ ttl' = 0)]_vars

(***************************************************************************)
(* The TTL of a key grows only when the thread of the round whose token it *)
(* holds has waited a whole interval (distributed_lock.py:54-55).          *)
(***************************************************************************)
OnlyOwnerRenews ==
  [][(key' = key /\ ttl' > ttl) => \E w \in Workers : token[w] = key /\ BeatDue(w)]_vars

(***************************************************************************)
(* A key nobody owns any more is gone after its TTL at the latest, so a    *)
(* crash cannot stop a campaign for good (distributed_lock.py:8-12,27-28). *)
(***************************************************************************)
OrphanExpires == \A t \in Tokens : (Orphaned /\ key = t) ~> (key # t)

\* A round whose key has not run out.
Holds(w) == InRound(w) /\ ~Lapsed(w)

(***************************************************************************)
(* The refinement mapping to the abstract lock: a worker holds it from its *)
(* SET until its round ends or lapses; a key of no such round is           *)
(* abandoned.                                                              *)
(***************************************************************************)
lockHolder ==
  IF \E w \in Workers : Holds(w) THEN CHOOSE w \in Workers : Holds(w)
  ELSE IF key = NoToken THEN Free ELSE Abandoned

Abstract == INSTANCE RoundLock WITH holder <- lockHolder

(***************************************************************************)
(* The protocol implements the abstract lock, whatever outages there are:  *)
(* a round begins only with a free lock, loses it by a release, a crash or *)
(* a whole TTL without a renewal, and a key left behind blocks until it    *)
(* expires (distributed_lock.py:8-31).                                     *)
(***************************************************************************)
AbstractLock == Abstract!Spec

\* The key is that of the round whose thread renews it, for what is left of the
\* TTL since it did; a round that has lapsed has lost it.
Lease ==
  \A w \in Workers : InRound(w) =>
    IF Lapsed(w) THEN key # token[w]
    ELSE beat[w] = "waiting" /\ key = token[w] /\ ttl + age[w] = TTL

TokensUnique ==
  \A u, v \in Workers : u # v /\ token[u] # NoToken => token[u] # token[v]

HeldTokens ==
  \A w \in Workers :
    /\ (pc[w] = "idle") <=> (token[w] = NoToken)
    /\ beat[w] = "waiting" => InRound(w)
    /\ beat[w] # "waiting" => timer[w] = 0 /\ age[w] = 0
    /\ age[w] + HB <= MaxGap + timer[w]

KeyHasTTL == (key = NoToken) <=> (ttl = 0)

\* What the fencing needs.
Bookkeeping == TypeOK /\ TokensUnique /\ HeldTokens /\ KeyHasTTL

(***************************************************************************)
(* The inductive strengthening of MutualExclusion: the key outlives every  *)
(* round that renews in time, is lost to every other one, and no two       *)
(* rounds have the same token (distributed_lock.py:54-64,107-149).         *)
(***************************************************************************)
IInv == Bookkeeping /\ Lease
=============================================================================
