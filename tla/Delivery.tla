-------------------------------- MODULE Delivery --------------------------------
(***************************************************************************)
(* How rounds of one account deliver: the plan (_plan_assignments), the    *)
(* worker of the account (_account_worker) with its Telethon client, the   *)
(* send with retries (safe_send_message), and what the round learns of the *)
(* account and its groups and writes back.  A campaign has one account, so *)
(* a plan is a choice of groups.  Processes run rounds of the campaigns of *)
(* the account at the same time; what keeps rounds of one campaign apart,  *)
(* texts and the schedule are in CampaignRound.                            *)
(***************************************************************************)
EXTENDS Integers, FiniteSets

CONSTANTS
  Procs, Groups, NoGroup,
  Limit,           \* accounts.max_groups_limit
  SlowRetries,     \* sender_retry_slowmode_retries
  FloodRetries,    \* sender_retry_flood_retries
  GenericRetries,  \* 2 in the code
  Batch,           \* sender_log_commit_batch
  Pooling,         \* whether the session runner keeps clients
  Fickle,          \* bound: groups that Telegram may close
  MaxRounds,       \* bound: rounds that are begun
  MaxDrops         \* bound: rounds of a process that fail

ASSUME DeliveryAssumption ==
  /\ NoGroup \notin Groups /\ IsFiniteSet(Groups) /\ Fickle \subseteq Groups
  /\ {Limit, SlowRetries, FloodRetries, GenericRetries, MaxRounds, MaxDrops} \subseteq Nat
  /\ Batch \in Nat \ {0} /\ Pooling \in BOOLEAN

VARIABLES
  status, waits, warm,        \* the row of the account: flood_wait_until lies ahead
  invalid, blocked,           \* groups marked invalid; the blocklist of the account
  barred, refusing, dead,     \* Telegram: what it does to the account and its groups
  pc, queue, cur, out,        \* round of a process: outcomes by group
  loaded,                     \* warm_up_sent as the round read it
  written,                    \* successes of the round that are committed
  slow, flood, generic,       \* retries of the current send
  pool,                       \* an authorized client is kept
  begun, drops,               \* counters for the bounds
  copies,                     \* history: deliveries of the current send
  logged,                     \* history: successes written to send_logs
  forgotten,                  \* history: those of rounds lost before their warm-up
  overlapped,                 \* history: two rounds of the account overlapped
  tries, vain                 \* history: sends to a refusing group, of a barred account

row == <<status, waits, warm, invalid, blocked>>
telegram == <<barred, refusing, dead>>
retries == <<slow, flood, generic, copies>>
round == <<pc, queue, cur, out, loaded, written>>
history == <<logged, forgotten, overlapped, tries, vain>>
vars == <<row, telegram, round, retries, pool, begun, drops, history>>

Nothing == [g \in Groups |-> "none"]

\* The groups with an outcome that is not written yet
Tried(p) == {g \in Groups : out[p][g] # "none"}

Successes(p, S) == Cardinality({g \in S : out[p][g] \in {"success", "flooded"}})

-----------------------------------------------------------------------------
(* The plan *)

\* Mutant: the blocklist is not looked at.
Plans_Blocked == {S \in SUBSET (Groups \ invalid) : Cardinality(S) <= Limit}

\* Groups may be skipped at random, and are shuffled before the limit counts.
Plans == {S \in SUBSET (Groups \ (invalid \cup blocked)) : Cardinality(S) <= Limit}

\* run_campaign_round, to the start of the worker
Begin(p) ==
  /\ pc[p] = "idle" /\ begun < MaxRounds
  /\ status = "active" /\ ~waits
  /\ \E S \in Plans \ {{}} : queue' = [queue EXCEPT ![p] = S]
  /\ pc' = [pc EXCEPT ![p] = "connect"]
  /\ loaded' = [loaded EXCEPT ![p] = warm]
  /\ begun' = begun + 1
  /\ overlapped' = (overlapped \/ \E q \in Procs : pc[q] # "idle")
  /\ UNCHANGED <<row, telegram, cur, out, written, retries, pool, drops, logged, forgotten,
                 tries, vain>>

-----------------------------------------------------------------------------
(* The worker *)

\* Every group left in the queue gets the same outcome.
FailAll(p, result) ==
  /\ out' = [out EXCEPT ![p] = [g \in Groups |-> IF g \in queue[p] THEN result ELSE @[g]]]
  /\ queue' = [queue EXCEPT ![p] = {}]

\* The client is built, or taken from the pool, which does not ask Telegram again
\* as long as the client is connected.
Connect(p) ==
  /\ pc[p] = "connect" /\ (barred = "no" \/ pool[p])
  /\ pc' = [pc EXCEPT ![p] = "take"]
  /\ pool' = [pool EXCEPT ![p] = Pooling]
  /\ UNCHANGED <<row, telegram, queue, cur, out, loaded, written, retries, begun, drops,
                 history>>

\* build_client raises: outcomes that say nothing of the account
BuildFails(p) ==
  /\ pc[p] = "connect"
  /\ FailAll(p, "fail") /\ pc' = [pc EXCEPT ![p] = "back"]
  /\ pool' = [pool EXCEPT ![p] = FALSE]
  /\ UNCHANGED <<row, telegram, cur, loaded, written, retries, begun, drops, history>>

\* The meta outcome precedes those of the groups, and is written with the first.
Unauthorized(p) ==
  /\ pc[p] = "connect" /\ barred # "no"
  /\ FailAll(p, "reauth") /\ pc' = [pc EXCEPT ![p] = "back"]
  /\ pool' = [pool EXCEPT ![p] = FALSE]
  /\ UNCHANGED <<row, telegram, cur, loaded, written, retries, begun, drops, history>>

\* The counters are local variables of safe_send_message.
Returns(p) ==
  /\ slow' = [slow EXCEPT ![p] = 0] /\ flood' = [flood EXCEPT ![p] = 0]
  /\ generic' = [generic EXCEPT ![p] = 0]

Fresh(p) == Returns(p) /\ copies' = [copies EXCEPT ![p] = 0]

\* The next group is taken, its slot is waited for, its entity is looked up.
Take(p) ==
  /\ pc[p] = "take"
  /\ \E g \in queue[p] : /\ cur' = [cur EXCEPT ![p] = g]
                         /\ queue' = [queue EXCEPT ![p] = @ \ {g}]
  /\ pc' = [pc EXCEPT ![p] = "send"] /\ Fresh(p)
  /\ UNCHANGED <<row, telegram, out, loaded, written, pool, begun, drops, history>>

\* The queue is empty, or the round is revoked.
WorkerEnds(p) ==
  /\ pc[p] = "take" /\ pc' = [pc EXCEPT ![p] = "back"]
  /\ UNCHANGED <<row, telegram, queue, cur, out, loaded, written, retries, pool, begun, drops,
                 history>>

-----------------------------------------------------------------------------
(* One try of safe_send_message, or the lookup of the entity before it *)

Reaches(p) == barred = "no" /\ cur[p] \notin refusing \cup dead

\* The send of the current group is over.
Outcome(p, result, next) ==
  /\ out' = [out EXCEPT ![p][cur[p]] = result]
  /\ pc' = [pc EXCEPT ![p] = next]
  /\ Returns(p)

Stays(p) == UNCHANGED <<out, pc>>

Sending(p) ==
  /\ pc[p] = "send"
  /\ UNCHANGED <<row, telegram, queue, cur, loaded, written, pool, begun, drops, logged,
                 forgotten, overlapped>>

\* A success after a flood still tells the account to wait.
Delivers(p) ==
  /\ Sending(p) /\ Reaches(p)
  /\ copies' = [copies EXCEPT ![p] = @ + 1]
  /\ Outcome(p, IF flood[p] > 0 THEN "flooded" ELSE "success", "take")
  /\ UNCHANGED <<tries, vain>>

\* Mutant: one retry more.
GenericError_OneMore(p, result) ==
  IF generic[p] > GenericRetries THEN Outcome(p, result, "take")
  ELSE Stays(p) /\ generic' = [generic EXCEPT ![p] = @ + 1] /\ UNCHANGED <<slow, flood>>

\* Mutant: the retries are not counted.
GenericError_Uncounted(p, result) ==
  IF generic[p] >= GenericRetries THEN Outcome(p, result, "take")
  ELSE Stays(p) /\ UNCHANGED <<slow, flood, generic>>

\* except Exception: twice more, then it is raised
GenericError(p, result) ==
  IF generic[p] >= GenericRetries THEN Outcome(p, result, "take")
  ELSE Stays(p) /\ generic' = [generic EXCEPT ![p] = @ + 1] /\ UNCHANGED <<slow, flood>>

\* The message is delivered and the answer lost.
AnswerLost(p) ==
  /\ Sending(p) /\ Reaches(p)
  /\ copies' = [copies EXCEPT ![p] = @ + 1]
  /\ GenericError(p, "fail")
  /\ UNCHANGED <<tries, vain>>

\* Nothing reaches Telegram, or the chat id is unknown there.
SendError(p) ==
  /\ Sending(p)
  /\ GenericError(p, IF cur[p] \in dead THEN "invalid" ELSE "fail")
  /\ UNCHANGED <<copies, tries, vain>>

AtLookup(p) == <<slow[p], flood[p], generic[p]>> = <<0, 0, 0>>

\* resolve_entity or ensure_joined_entity raises before the first try.
LookupFails(p) ==
  /\ Sending(p) /\ AtLookup(p)
  /\ Outcome(p, IF cur[p] \in dead THEN "invalid" ELSE "fail", "take")
  /\ UNCHANGED <<copies, tries, vain>>

SlowMode(p) ==
  /\ Sending(p) /\ barred = "no"
  /\ IF slow[p] >= SlowRetries THEN Outcome(p, "fail", "take")
     ELSE Stays(p) /\ slow' = [slow EXCEPT ![p] = @ + 1] /\ UNCHANGED <<flood, generic>>
  /\ UNCHANGED <<copies, tries, vain>>

\* Only safe_send_message tries again; the worker stops.
FloodWait(p) ==
  /\ Sending(p) /\ barred = "no"
  /\ \/ /\ flood[p] >= FloodRetries \/ AtLookup(p)
        /\ Outcome(p, "flood", "back")
     \/ /\ flood[p] < FloodRetries /\ Stays(p)
        /\ flood' = [flood EXCEPT ![p] = @ + 1] /\ UNCHANGED <<slow, generic>>
  /\ UNCHANGED <<copies, tries, vain>>

\* ChatWriteForbidden, ChannelPrivate, ChatAdminRequired
Refused(p) ==
  /\ Sending(p) /\ barred = "no" /\ cur[p] \in refusing
  /\ Outcome(p, "blocked", "take")
  /\ tries' = [tries EXCEPT ![p][cur[p]] = @ + 1]
  /\ UNCHANGED <<copies, vain>>

\* Other errors of a group that refuses are known by their text: they are tried
\* again, except at the lookup and if safe_send_message raises them at once.
RefusedByText(p) ==
  /\ Sending(p) /\ barred = "no" /\ cur[p] \in refusing
  /\ \/ /\ Outcome(p, "blocked", "take")
        /\ tries' = [tries EXCEPT ![p][cur[p]] = @ + 1]
     \/ /\ generic[p] < GenericRetries /\ Stays(p)
        /\ generic' = [generic EXCEPT ![p] = @ + 1] /\ UNCHANGED <<slow, flood, tries>>
  /\ UNCHANGED <<copies, vain>>

\* Mutant: the worker goes on with the next group.
AccountBarred_GoesOn(p) ==
  /\ Sending(p) /\ barred # "no"
  /\ Outcome(p, barred, "take") /\ vain' = [vain EXCEPT ![p] = @ + 1]
  /\ UNCHANGED <<copies, tries>>

\* UserDeactivated, UserDeactivatedBan, AuthKeyUnregistered
AccountBarred(p) ==
  /\ Sending(p) /\ barred # "no"
  /\ Outcome(p, barred, "back") /\ vain' = [vain EXCEPT ![p] = @ + 1]
  /\ UNCHANGED <<copies, tries>>

-----------------------------------------------------------------------------
(* The end of a round *)

\* What the process kept for the round is gone.
Over(p) ==
  /\ pc' = [pc EXCEPT ![p] = "idle"]
  /\ queue' = [queue EXCEPT ![p] = {}] /\ cur' = [cur EXCEPT ![p] = NoGroup]
  /\ out' = [out EXCEPT ![p] = Nothing]
  /\ loaded' = [loaded EXCEPT ![p] = 0] /\ written' = [written EXCEPT ![p] = 0]
  /\ Fresh(p)

Found(p, S, result) == {g \in S : out[p][g] = result}

\* What the outcomes of some groups say of the account
Bars(p, S) == {out[p][g] : g \in S} \cap {"banned", "reauth"}

\* Mutant: an account that has to log in again keeps its client.
Invalidates_Banned(p, S) == "banned" \in Bars(p, S)

\* The pool drops the client of an account that turns out to be barred.
Invalidates(p, S) == Bars(p, S) # {}

\* The outcomes of some groups become rows.
Record(p, S) ==
  /\ invalid' = invalid \cup Found(p, S, "invalid")
  /\ blocked' = blocked \cup Found(p, S, "blocked")
  /\ status' \in IF Bars(p, S) = {} THEN {status} ELSE Bars(p, S)
  /\ waits' = (waits \/ Found(p, S, "flood") \cup Found(p, S, "flooded") # {})
  /\ logged' = logged + Successes(p, S)

\* A full batch is committed, in the order of the sends; the groups that the plan
\* skipped are part of the first one.
WriteBatch(p) ==
  /\ pc[p] = "back"
  /\ \E S \in SUBSET Tried(p) :
       /\ S # {} /\ Cardinality(S) <= Batch /\ (cur[p] \in S => S = Tried(p))
       /\ Record(p, S)
       /\ out' = [out EXCEPT ![p] = [g \in Groups |-> IF g \in S THEN "none" ELSE @[g]]]
       /\ written' = [written EXCEPT ![p] = @ + Successes(p, S)]
       /\ pool' = [pool EXCEPT ![p] = @ /\ ~Invalidates(p, S)]
  /\ UNCHANGED <<warm, telegram, pc, queue, cur, loaded, retries, begun, drops, forgotten,
                 overlapped, tries, vain>>

\* The messages of the round
Mine(p) == written[p] + Successes(p, Groups)

\* Mutant: successes are counted in the outcome and in the meta outcome.
Warmed_Twice(p) == loaded[p] + 2 * Mine(p)

\* warm_up_sent, from the value that the round loaded
Warmed(p) == loaded[p] + Mine(p)

\* The last commit: the outcomes that fill no batch, the meta outcome, the schedule.
\* With the meta outcome goes the client, unless the session could not be saved.
WriteBack(p) ==
  /\ pc[p] = "back" /\ Cardinality(Tried(p)) < Batch /\ Over(p)
  /\ Record(p, Groups)
  /\ warm' = IF Mine(p) > 0 THEN Warmed(p) ELSE warm
  /\ \E saved \in BOOLEAN :
       pool' = [pool EXCEPT ![p] = @ /\ ~saved /\ ~Invalidates(p, Groups)]
  /\ UNCHANGED <<telegram, begun, drops, forgotten, overlapped, tries, vain>>

\* The worker raises (slot, connection), or the process dies: the outcomes
\* that are not written are lost, and with them the warm-up of those that are.
\* A process that dies loses its clients.
Dropped(p) ==
  /\ pc[p] # "idle" /\ drops[p] < MaxDrops
  /\ Over(p) /\ drops' = [drops EXCEPT ![p] = @ + 1]
  /\ \E kept \in {FALSE, pool[p]} : pool' = [pool EXCEPT ![p] = kept]
  /\ forgotten' = forgotten + written[p]
  /\ UNCHANGED <<row, telegram, begun, logged, overlapped, tries, vain>>

-----------------------------------------------------------------------------
(* Telegram and time *)

Bar ==
  /\ barred = "no" /\ barred' \in {"banned", "reauth"}
  /\ UNCHANGED <<row, refusing, dead, round, retries, pool, begun, drops, history>>

Refuse(g) ==
  /\ g \notin refusing \cup dead /\ refusing' = refusing \cup {g}
  /\ UNCHANGED <<row, barred, dead, round, retries, pool, begun, drops, history>>

Die(g) ==
  /\ g \notin refusing \cup dead /\ dead' = dead \cup {g}
  /\ UNCHANGED <<row, barred, refusing, round, retries, pool, begun, drops, history>>

FloodEnds ==
  /\ waits /\ waits' = FALSE
  /\ UNCHANGED <<status, warm, invalid, blocked, telegram, round, retries, pool, begun, drops,
                 history>>

-----------------------------------------------------------------------------
Init ==
  /\ status = "active" /\ waits = FALSE /\ warm = 0 /\ invalid = {} /\ blocked = {}
  /\ barred = "no" /\ refusing = {} /\ dead = {}
  /\ pc = [p \in Procs |-> "idle"] /\ queue = [p \in Procs |-> {}]
  /\ cur = [p \in Procs |-> NoGroup] /\ out = [p \in Procs |-> Nothing]
  /\ loaded = [p \in Procs |-> 0] /\ written = [p \in Procs |-> 0]
  /\ slow = [p \in Procs |-> 0] /\ flood = [p \in Procs |-> 0]
  /\ generic = [p \in Procs |-> 0] /\ copies = [p \in Procs |-> 0]
  /\ pool = [p \in Procs |-> FALSE] /\ begun = 0 /\ drops = [p \in Procs |-> 0]
  /\ logged = 0 /\ forgotten = 0 /\ overlapped = FALSE
  /\ tries = [p \in Procs |-> [g \in Groups |-> 0]] /\ vain = [p \in Procs |-> 0]

Send(p) ==
  \/ Delivers(p) \/ AnswerLost(p) \/ SendError(p) \/ LookupFails(p) \/ SlowMode(p)
  \/ FloodWait(p) \/ Refused(p) \/ RefusedByText(p) \/ AccountBarred(p)

RoundStep(p) ==
  \/ Connect(p) \/ BuildFails(p) \/ Unauthorized(p) \/ Take(p) \/ WorkerEnds(p) \/ Send(p)
  \/ WriteBatch(p) \/ WriteBack(p)

Next ==
  \/ \E p \in Procs : Begin(p) \/ RoundStep(p) \/ Dropped(p)
  \/ \E g \in Fickle : Refuse(g) \/ Die(g)
  \/ Bar \/ FloodEnds

Spec == Init /\ [][Next]_vars

-----------------------------------------------------------------------------
Phases == {"idle", "connect", "take", "send", "back"}
Results ==
  {"none", "success", "flooded", "fail", "blocked", "invalid", "flood", "banned", "reauth"}

TypeOK ==
  /\ status \in {"active", "banned", "reauth"} /\ waits \in BOOLEAN /\ warm \in Nat
  /\ invalid \subseteq Groups /\ blocked \subseteq Groups
  /\ barred \in {"no", "banned", "reauth"} /\ refusing \subseteq Groups /\ dead \subseteq Groups
  /\ pc \in [Procs -> Phases] /\ queue \in [Procs -> SUBSET Groups]
  /\ cur \in [Procs -> Groups \cup {NoGroup}] /\ out \in [Procs -> [Groups -> Results]]
  /\ loaded \in [Procs -> Nat] /\ written \in [Procs -> Nat]
  /\ slow \in [Procs -> Nat] /\ flood \in [Procs -> Nat]
  /\ generic \in [Procs -> Nat] /\ copies \in [Procs -> Nat]
  /\ pool \in [Procs -> BOOLEAN] /\ begun \in Nat /\ drops \in [Procs -> Nat]
  /\ logged \in Nat /\ forgotten \in Nat /\ overlapped \in BOOLEAN
  /\ tries \in [Procs -> [Groups -> Nat]] /\ vain \in [Procs -> Nat]

(***************************************************************************)
(* However answers get lost, one send delivers a message at most three     *)
(* times (telegram_helpers.py:285-290).                                    *)
(***************************************************************************)
CopiesBounded == \A p \in Procs : copies[p] <= 1 + GenericRetries

(***************************************************************************)
(* One send of a process, with its retries, ends with the refusal of a     *)
(* group, and one more for each of its rounds whose outcomes were lost:    *)
(* whether the refusal has a class of its own or is known by its text, the *)
(* blocklist keeps the group out of every later plan (sender.py:464-503,   *)
(* 724-731).                                                               *)
(***************************************************************************)
RefusedOnce == \A p \in Procs, g \in Groups : tries[p][g] <= 1 + drops[p]

(***************************************************************************)
(* An account that is banned or logged out sends nothing more: one try of  *)
(* a process notices, and one more for each round whose outcomes were lost *)
(* (sender.py:438-463, 693-714).                                           *)
(***************************************************************************)
BarredOnce == \A p \in Procs : vain[p] <= 1 + drops[p]

(***************************************************************************)
(* The warm-up counter never runs ahead of the messages logged.  Two       *)
(* things leave it behind: rounds that overlap, each writing what it       *)
(* loaded plus its own, and a round that is lost after a batch was         *)
(* committed, since the counter comes with the last commit                 *)
(* (sender.py:46-60, 687-689, 761).                                        *)
(***************************************************************************)
WarmUpCounted ==
  /\ warm <= logged
  /\ ~overlapped /\ (\A p \in Procs : pc[p] = "idle") => logged = warm + forgotten

(***************************************************************************)
(* The client of a barred account does not outlive the round that found it *)
(* out, even if its session cannot be saved, unless the outcomes of the    *)
(* round were lost (sender.py:508-518, 690-714).                           *)
(***************************************************************************)
BarredClientGone ==
  \A p \in Procs : pc[p] = "idle" /\ vain[p] > drops[p] => ~pool[p]

-----------------------------------------------------------------------------
(* The parts of the inductive invariant *)

RetriesCounted ==
  \A p \in Procs :
    /\ slow[p] <= SlowRetries /\ flood[p] <= FloodRetries /\ generic[p] <= GenericRetries
    /\ copies[p] <= 1 + GenericRetries
    /\ pc[p] = "send" => copies[p] <= generic[p]

\* A group is in the queue, current, or has an outcome.
RoundOrdered ==
  \A p \in Procs :
    /\ pc[p] = "idle" => out[p] = Nothing /\ queue[p] = {}
    /\ pc[p] = "send" => cur[p] \in Groups \ queue[p]
    /\ pc[p] # "back" => written[p] = 0

ToSend(p) == queue[p] \cup (IF pc[p] = "send" THEN {cur[p]} ELSE {})

RefusalsLearnt ==
  \A p \in Procs, g \in Groups :
    /\ g \in ToSend(p) => tries[p][g] <= drops[p]
    /\ g \notin blocked /\ out[p][g] # "blocked" => tries[p][g] <= drops[p]

Working(p) == pc[p] \in {"connect", "take", "send"}

BarLearnt ==
  \A p \in Procs :
    /\ Working(p) => vain[p] <= drops[p] /\ Bars(p, Groups) = {}
    /\ vain[p] > drops[p] /\ Bars(p, Groups) = {} => status # "active" /\ ~pool[p]

WarmUpLoaded ==
  /\ \A p \in Procs : loaded[p] + written[p] <= logged
  /\ ~overlapped =>
       /\ \A p, q \in Procs : pc[p] # "idle" /\ pc[q] # "idle" => p = q
       /\ \A p \in Procs :
            pc[p] # "idle" => loaded[p] = warm /\ logged = warm + forgotten + written[p]

(***************************************************************************)
(* The inductive invariant: with the four above, retries stay within their *)
(* limits, and what is still to be sent was not refused in a round whose   *)
(* outcomes were kept.                                                     *)
(***************************************************************************)
IInv ==
  /\ TypeOK /\ RetriesCounted /\ RoundOrdered /\ RefusalsLearnt /\ RefusedOnce
  /\ BarLearnt /\ BarredOnce /\ WarmUpLoaded /\ WarmUpCounted

\* What a process knows of its round
Round(p) ==
  <<pc[p], queue[p], cur[p], out[p], slow[p], flood[p], generic[p], copies[p]>>

\* The most steps that a group may take
PerGroup == 3 + SlowRetries + FloodRetries + GenericRetries

RetriesLeft(p) ==
  (SlowRetries - slow[p]) + (FloodRetries - flood[p]) + (GenericRetries - generic[p])

\* The most steps that a round may still take from a phase, with the groups of
\* its queue, the retries of its current send, and the outcomes to write.
StepsFrom(phase, groups, more, tried) ==
  CASE phase = "connect" -> 3 + groups + tried
    [] phase = "take"    -> 2 + groups + tried
    [] phase = "send"    -> 4 + groups + more + tried
    [] phase = "back"    -> 1 + tried
    [] OTHER             -> 0

StepsLeft(p) ==
  StepsFrom(pc[p], Cardinality(queue[p]) * PerGroup, RetriesLeft(p), Cardinality(Tried(p)))

(***************************************************************************)
(* Retries come to an end, and so does every round that is begun: each     *)
(* step of it, a batch that is written included, leaves fewer              *)
(* (telegram_helpers.py:231-290, sender.py:46-60, 327-506).                *)
(***************************************************************************)
RoundNearsEnd ==
  [][\A p \in Procs :
       pc[p] # "idle" /\ Round(p)' # Round(p) =>
         StepsLeft(p)' < StepsLeft(p) /\ StepsLeft(p)' >= 0]_vars
-----------------------------------------------------------------------------
(* The rounds of the processes as send loops *)

LoopOf(p) ==
  [open |-> pc[p] # "idle",
   todo |-> IF Working(p) THEN queue[p] ELSE {},
   cur  |-> IF pc[p] = "send" THEN {cur[p]} ELSE {},
   done |-> Tried(p)]

Sends == INSTANCE SendLoop WITH Senders <- Procs, loop <- [p \in Procs |-> LoopOf(p)]

(***************************************************************************)
(* With retries, floods, refusals and clients that cannot be built, a      *)
(* round still takes its groups one after another, has an outcome of each  *)
(* before the next, and writes back in batches when nothing is left to try *)
(* (sender.py:46-60, 246-535, 674-761).                                    *)
(***************************************************************************)
ImplementsSendLoop == Sends!Spec
=============================================================================
