---------------------------- MODULE CampaignRound ----------------------------
(***************************************************************************)
(* The life of one campaign: the beat that enqueues it when it is due, the *)
(* workers that run its rounds under the campaign lock, and the bot that   *)
(* edits, stops, starts and deletes it while a round may be in flight.     *)
(*                                                                         *)
(* The bot signals through Redis first (a text key and a revoke key) and   *)
(* commits to the database afterwards; a worker works on the snapshot its  *)
(* session loaded (expire_on_commit=False) and looks at Redis once per     *)
(* group.  Time is relative: dueIn counts down to next_run_at, revoke to   *)
(* the expiry of the revoke key.  One unit is at most the fast reschedule  *)
(* of a revoked round (5..20 s); database and Redis calls take no time     *)
(* units.  Sends and pauses of a round do, and so do the two waits of the  *)
(* bot between a signal and its commit: the two seconds before a deletion, *)
(* and the titles asked of Telegram before the pause of a rival.           *)
(***************************************************************************)
EXTENDS Integers, FiniteSets

CONSTANTS
  Workers,      \* Celery workers or session-runner tasks
  Groups,       \* groups of the account
  Intervals,    \* interval_minutes the user may choose, in time units
  Free, Abandoned,
  FastDelay,    \* reschedule of a revoked round
  RevokeTTL,    \* _REVOKE_TTL_SECONDS
  IterMax,      \* longest time between two revoke checks of a round
  DeleteGrace,  \* asyncio.sleep between the revoke and the delete of xab:new
  TitleWait,    \* longest time between the revoke and the commit of a rival's pause
  Batch,        \* sender_log_commit_batch
  Ops,          \* operations the user performs
  Failures,     \* "redis": Redis calls may fail; "commit": the bot's commit may
  MaxQueue, MaxOps, MaxFaults  \* bounds: queued messages, operations, crashes

OpNames == {"text", "groups", "interval", "stop", "rival", "start", "delete", "deleteGroup"}

ASSUME RoundAssumption ==
  /\ Intervals \subseteq Nat \ {0}
  /\ \E i \in Intervals : \A j \in Intervals : j <= i
  /\ \E i \in Intervals : \A j \in Intervals : i <= j
  /\ FastDelay \in Nat \ {0} /\ RevokeTTL \in Nat \ {0}
  /\ IterMax \in Nat /\ DeleteGrace \in Nat /\ TitleWait \in Nat
  /\ Batch \in Nat \ {0}
  /\ MaxQueue \in Nat \ {0} /\ MaxOps \in Nat /\ MaxFaults \in Nat
  /\ Ops \subseteq OpNames
  /\ Failures \subseteq {"redis", "commit"}
  /\ Free \notin Workers /\ Abandoned \notin Workers /\ Free # Abandoned

VARIABLES
  status, interval, text, groups, rows, dueIn,  \* database: campaign, schedule, groups
  textKey, revoke,                              \* Redis: text (0: none), revoke time left
  lock,                                         \* campaign:exec:{id}
  queue,                                        \* messages process_campaign(id) in the queue
  bot,                                          \* the bot handler in progress
  pc, snap, todo, msg, outs, pend, revoked, left,  \* per worker: the round
  since,                                        \* history of a round: see NotTold
  sent, staleSends, rest, lost, late, ops, faults  \* history

dbVars == <<status, interval, text, groups, rows, dueIn>>
redisVars == <<textKey, revoke>>
workVars == <<pc, snap, todo, msg, outs, pend, revoked, left>>
roundVars == <<workVars, since>>
histVars == <<sent, staleSends, rest, lost, late>>
vars == <<dbVars, redisVars, lock, queue, bot, roundVars, histVars, ops, faults>>

NoText == 0
MaxInterval == CHOOSE i \in Intervals : \A j \in Intervals : j <= i
MinInterval == CHOOSE i \in Intervals : \A j \in Intervals : i <= j
NoOp == [op |-> "none", val |-> 0, sel |-> {}, cap |-> FALSE]
NoSnap == [text |-> NoText, interval |-> 0, groups |-> {}, plan |-> {}]
NoMsg == [group |-> {}, text |-> NoText]

\* since[w]: the bot has not signalled since the round of w was loaded, or how
\* many messages that round has sent after the first signal.
NotTold == -1
Told(w) == since[w] # NotTold

Later(a, b) == IF a >= b THEN a ELSE b

-----------------------------------------------------------------------------
(* The lock, as the abstract lock CampaignLock implements. *)
Lock == INSTANCE RoundLock WITH holder <- lock

InRound(w) == pc[w] # "idle"

\* The session of a task that ended, well or badly, is closed: everything of
\* the round that was not committed is gone.
Close(w) ==
  /\ snap' = [snap EXCEPT ![w] = NoSnap]
  /\ todo' = [todo EXCEPT ![w] = {}]
  /\ msg' = [msg EXCEPT ![w] = NoMsg]
  /\ outs' = [outs EXCEPT ![w] = {}]
  /\ pend' = [pend EXCEPT ![w] = {}]
  /\ revoked' = [revoked EXCEPT ![w] = FALSE]
  /\ left' = [left EXCEPT ![w] = 0]
  /\ since' = [since EXCEPT ![w] = NotTold]

Goto(w, l) == pc' = [pc EXCEPT ![w] = l]

\* What the worker's is_revoked may answer: an error reads as "not revoked".
IsRevoked(b) == (b = (revoke > 0)) \/ ("redis" \in Failures /\ b = FALSE)

\* What get_text or the fallback may answer.
CurrentText(w, t) ==
  \/ t = IF textKey = NoText THEN snap[w].text ELSE textKey
  \/ "redis" \in Failures /\ t = snap[w].text

\* Mutant: SETNX instead of SETEX, a second edit does not reach Redis.
SetText_IfAbsent(t) == textKey' = IF textKey = NoText THEN t ELSE textKey

\* A round that may still send: loaded, and not past its send loop.
MaySend(w) == pc[w] \in {"loaded", "read", "planning", "head", "picking", "sending"}

\* The rounds that a signal is meant for.
Tell == since' = [w \in Workers |-> IF MaySend(w) /\ ~Told(w) THEN 0 ELSE since[w]]

\* Mutant: the bot does not signal the round in flight.
SetRevoke_Dropped == Tell /\ UNCHANGED revoke

\* Redis writes of the bot; errors are hidden from the handler.
SetRevoke ==
  /\ Tell
  /\ revoke' = RevokeTTL \/ ("redis" \in Failures /\ revoke' = revoke)

SetText(t) == textKey' = t \/ ("redis" \in Failures /\ textKey' = textKey)

-----------------------------------------------------------------------------
(* Scheduling *)

\* schedule_due_campaigns: the task id does not stop a second message.
Beat ==
  /\ status = "running" /\ dueIn = 0
  /\ queue < MaxQueue
  /\ queue' = queue + 1
  /\ UNCHANGED <<dbVars, redisVars, lock, bot, roundVars, histVars, ops, faults>>

\* Mutant: the result of acquire is ignored.
StartTask_NoLock(w) ==
  /\ pc[w] = "idle" /\ queue > 0
  /\ queue' = queue - 1
  /\ lock' = w /\ Goto(w, "locked")
  /\ UNCHANGED <<dbVars, redisVars, bot, snap, todo, msg, outs, pend, revoked, left,
                 since, histVars, ops, faults>>

\* process_campaign gets the lock, finds a round in progress and returns, or
\* loses the reply to its SET and fails, leaving a key nobody knows.
StartTask(w) ==
  /\ pc[w] = "idle" /\ queue > 0
  /\ queue' = queue - 1
  /\ \/ Lock!Acquire(w) /\ Goto(w, "locked")
     \/ lock # Free /\ UNCHANGED <<lock, pc>>
     \/ "redis" \in Failures /\ lock = Free /\ Lock!Abandon(w) /\ UNCHANGED pc
  /\ UNCHANGED <<dbVars, redisVars, bot, snap, todo, msg, outs, pend, revoked, left,
                 since, histVars, ops, faults>>

\* Mutant: no gate on next_run_at.
LoadCampaign_NoGate(w) ==
  /\ pc[w] = "locked"
  /\ IF status = "running"
     THEN /\ snap' = [snap EXCEPT ![w] = [NoSnap EXCEPT !.text = text, !.interval = interval]]
          /\ Goto(w, "loaded")
     ELSE Goto(w, "leaving") /\ UNCHANGED snap
  /\ UNCHANGED <<dbVars, redisVars, lock, queue, bot, todo, msg, outs, pend, revoked, left,
                 since, histVars, ops, faults>>

\* run_campaign_round reads campaign and schedule: not running or not due ends it.
LoadCampaign(w) ==
  /\ pc[w] = "locked"
  /\ IF status = "running" /\ dueIn = 0
     THEN /\ snap' = [snap EXCEPT ![w] = [NoSnap EXCEPT !.text = text, !.interval = interval]]
          /\ Goto(w, "loaded")
     ELSE Goto(w, "leaving") /\ UNCHANGED snap
  /\ UNCHANGED <<dbVars, redisVars, lock, queue, bot, todo, msg, outs, pend, revoked, left,
                 since, histVars, ops, faults>>

\* A commit of send logs fails when the campaign or a logged group is deleted.
CommitFails(logs) == status = "deleted" \/ ~(logs \subseteq rows)

\* Outcomes of this round's sends that are not committed.
Unsaved(w) == (outs[w] \cup pend[w]) \cap snap[w].plan

\* The exception leaves run_campaign_round: rollback, then finally releases.
Abort(w) ==
  /\ Close(w)
  /\ Goto(w, "leaving")
  /\ lost' = (lost \/ Unsaved(w) # {})
  /\ faults' = faults + 1

\* The groups of the campaign are read.
ReadGroups(w) ==
  /\ pc[w] = "loaded"
  /\ snap' = [snap EXCEPT ![w].groups = groups]
  /\ Goto(w, "read")
  /\ UNCHANGED <<dbVars, redisVars, lock, queue, bot, todo, msg, outs, pend, revoked, left,
                 since, histVars, ops, faults>>

\* revoke_was_set_on_entry
EntryRevoke(w) ==
  /\ pc[w] = "read"
  /\ \E b \in BOOLEAN : IsRevoked(b) /\ revoked' = [revoked EXCEPT ![w] = b]
  /\ Goto(w, "planning")
  /\ UNCHANGED <<dbVars, redisVars, lock, queue, bot, snap, todo, msg, outs, pend, left,
                 since, histVars, ops, faults>>

\* Invalid groups are dropped; random skips, the blocklist and the limit of the
\* account leave any plan and log the rest as skipped, in batches like outcomes;
\* an unusable account has no plan and no log.  Without a plan the round ignores
\* the revoke.
PlanRound(w) ==
  /\ pc[w] = "planning"
  /\ \E plan \in SUBSET snap[w].groups :
     \E skipped \in SUBSET (snap[w].groups \ plan) :
     \E open \in SUBSET skipped :
       /\ Cardinality(open) = Cardinality(skipped) % Batch
       /\ IF skipped # open /\ CommitFails(skipped \ open) THEN Abort(w)
          ELSE /\ todo' = [todo EXCEPT ![w] = plan]
               /\ snap' = [snap EXCEPT ![w].plan = plan]
               /\ pend' = [pend EXCEPT ![w] = open]
               /\ revoked' = [revoked EXCEPT ![w] = @ /\ plan # {}]
               /\ Goto(w, IF plan = {} THEN "finishing" ELSE "head")
               /\ UNCHANGED <<msg, outs, left, since, lost, faults>>
  /\ UNCHANGED <<dbVars, redisVars, lock, queue, bot, sent, staleSends, rest, late, ops>>

-----------------------------------------------------------------------------
(* The send loop of _account_worker *)

\* Mutant: the loop goes by what the round found on entry.
CheckRevoke_EntryOnly(w) ==
  /\ pc[w] = "head"
  /\ Goto(w, IF revoked[w] \/ todo[w] = {} THEN "gathered" ELSE "picking")
  /\ left' = [left EXCEPT ![w] = 0]
  /\ UNCHANGED <<dbVars, redisVars, lock, queue, bot, snap, todo, msg, outs, pend, revoked,
                 since, histVars, ops, faults>>

\* is_campaign_revoked before each group
CheckRevoke(w) ==
  /\ pc[w] = "head"
  /\ \E b \in BOOLEAN :
       /\ IsRevoked(b)
       /\ Goto(w, IF b \/ todo[w] = {} THEN "gathered" ELSE "picking")
  /\ left' = [left EXCEPT ![w] = 0]
  /\ UNCHANGED <<dbVars, redisVars, lock, queue, bot, snap, todo, msg, outs, pend, revoked,
                 since, histVars, ops, faults>>

\* Mutant: the group stays on the list.
PickGroup_KeepsGroup(w) ==
  /\ pc[w] = "picking"
  /\ \E g \in todo[w], t \in {textKey, snap[w].text} :
       /\ CurrentText(w, t)
       /\ msg' = [msg EXCEPT ![w] = [group |-> {g}, text |-> t]]
  /\ left' = [left EXCEPT ![w] = IterMax]
  /\ Goto(w, "sending")
  /\ UNCHANGED <<dbVars, redisVars, lock, queue, bot, snap, todo, outs, pend, revoked,
                 since, histVars, ops, faults>>

\* The text is read before the rate slot, the delay and the retries of the send.
PickGroup(w) ==
  /\ pc[w] = "picking"
  /\ \E g \in todo[w], t \in {textKey, snap[w].text} :
       /\ CurrentText(w, t)
       /\ todo' = [todo EXCEPT ![w] = @ \ {g}]
       /\ msg' = [msg EXCEPT ![w] = [group |-> {g}, text |-> t]]
  /\ left' = [left EXCEPT ![w] = IterMax]
  /\ Goto(w, "sending")
  /\ UNCHANGED <<dbVars, redisVars, lock, queue, bot, snap, outs, pend, revoked,
                 since, histVars, ops, faults>>

\* Redis fails in wait_account_send_slot_sync, outside the try: the account
\* worker raises, gather returns the exception and its outcomes are dropped.
RateSlotError(w) ==
  /\ pc[w] = "sending" /\ "redis" \in Failures
  /\ lost' = (lost \/ outs[w] # {})
  /\ outs' = [outs EXCEPT ![w] = {}]
  /\ msg' = [msg EXCEPT ![w] = NoMsg]
  /\ left' = [left EXCEPT ![w] = 0]
  /\ Goto(w, "gathered")
  /\ UNCHANGED <<dbVars, redisVars, lock, queue, bot, snap, todo, pend, revoked,
                 since, sent, staleSends, rest, late, ops, faults>>

Outcome(w) ==
  /\ pc[w] = "sending"
  /\ outs' = [outs EXCEPT ![w] = @ \cup msg[w].group]
  /\ msg' = [msg EXCEPT ![w] = NoMsg]

\* Telegram accepts the message; a burst pause may follow.
Deliver(w) ==
  /\ Outcome(w)
  /\ sent' = [g \in Groups |-> IF g \in msg[w].group THEN sent[g] + 1 ELSE sent[g]]
  /\ staleSends' = IF msg[w].text < text THEN staleSends + 1 ELSE staleSends
  /\ since' = [since EXCEPT ![w] = IF Told(w) THEN @ + 1 ELSE @]
  /\ Goto(w, "head")
  /\ UNCHANGED <<dbVars, redisVars, lock, queue, bot, snap, todo, pend, revoked, left,
                 rest, lost, late, ops, faults>>

\* The send fails: the loop goes on, or breaks (flood wait, ban, lost session).
SendFails(w) ==
  /\ Outcome(w)
  /\ \/ Goto(w, "head") /\ UNCHANGED left
     \/ Goto(w, "gathered") /\ left' = [left EXCEPT ![w] = 0]
  /\ UNCHANGED <<dbVars, redisVars, lock, queue, bot, snap, todo, pend, revoked,
                 since, histVars, ops, faults>>

-----------------------------------------------------------------------------
(* Recording the outcomes and rescheduling *)

\* Mutant: the key is cleared as soon as a round has heard it.
MidRevoke_Clears(w) ==
  /\ pc[w] = "gathered"
  /\ \E b \in BOOLEAN : IsRevoked(b) /\ revoked' = [revoked EXCEPT ![w] = @ \/ b]
  /\ revoke' = 0
  /\ Goto(w, "recording")
  /\ UNCHANGED <<dbVars, textKey, lock, queue, bot, snap, todo, msg, outs, pend, left,
                 since, histVars, ops, faults>>

\* revoked_mid_round
MidRevoke(w) ==
  /\ pc[w] = "gathered"
  /\ \E b \in BOOLEAN : IsRevoked(b) /\ revoked' = [revoked EXCEPT ![w] = @ \/ b]
  /\ Goto(w, "recording")
  /\ UNCHANGED <<dbVars, redisVars, lock, queue, bot, snap, todo, msg, outs, pend, left,
                 since, histVars, ops, faults>>

\* One outcome is added to the session; _BatchCommitter commits every Batch.
Record(w) ==
  /\ pc[w] = "recording" /\ outs[w] # {}
  /\ \E g \in outs[w] :
       LET logs == pend[w] \cup {g} IN
       IF Cardinality(logs) >= Batch /\ CommitFails(logs) THEN Abort(w)
       ELSE /\ outs' = [outs EXCEPT ![w] = @ \ {g}]
            /\ pend' = [pend EXCEPT ![w] = IF Cardinality(logs) >= Batch THEN {} ELSE logs]
            /\ UNCHANGED <<pc, snap, todo, msg, revoked, left, since, lost, faults>>
  /\ UNCHANGED <<dbVars, redisVars, lock, queue, bot, sent, staleSends, rest, late, ops>>

\* finish_schedule with the interval of the snapshot, and the last commit.
Reschedule(w) ==
  /\ dueIn' = IF revoked[w] THEN FastDelay ELSE snap[w].interval
  /\ rest' = IF revoked[w] THEN MaxInterval ELSE 0
  /\ sent' = [g \in Groups |-> 0]
  /\ pend' = [pend EXCEPT ![w] = {}]
  /\ Goto(w, IF revoked[w] THEN "clearing" ELSE "leaving")

FinishSchedule(w) ==
  /\ \/ pc[w] = "recording" /\ outs[w] = {}
     \/ pc[w] = "finishing"
  /\ IF CommitFails(pend[w])
     THEN Abort(w) /\ UNCHANGED <<dueIn, rest, sent>>
     ELSE /\ Reschedule(w)
          /\ UNCHANGED <<snap, todo, msg, outs, revoked, left, since, lost, faults>>
  /\ UNCHANGED <<status, interval, text, groups, rows, redisVars, lock, queue, bot,
                 staleSends, late, ops>>

ClearRevoke(w) ==
  /\ pc[w] = "clearing"
  /\ revoke' = 0 \/ ("redis" \in Failures /\ revoke' = revoke)
  /\ Goto(w, "leaving")
  /\ UNCHANGED <<dbVars, textKey, lock, queue, bot, snap, todo, msg, outs, pend, revoked, left,
                 since, histVars, ops, faults>>

\* Mutant: no release.
EndTask_KeepsLock(w) ==
  /\ pc[w] = "leaving"
  /\ Close(w) /\ Goto(w, "idle")
  /\ UNCHANGED <<dbVars, redisVars, lock, queue, bot, histVars, ops, faults>>

\* finally: release, which logs an error and leaves the key to its TTL.
EndTask(w) ==
  /\ pc[w] = "leaving"
  /\ Lock!Release(w) \/ ("redis" \in Failures /\ Lock!Abandon(w))
  /\ Close(w) /\ Goto(w, "idle")
  /\ UNCHANGED <<dbVars, redisVars, queue, bot, histVars, ops, faults>>

\* The soft time limit raises inside the round: rollback, finally releases.
TimeLimit(w) ==
  /\ InRound(w) /\ pc[w] # "leaving"
  /\ faults < MaxFaults /\ faults' = faults + 1
  /\ Close(w) /\ Goto(w, "leaving")
  /\ UNCHANGED <<dbVars, redisVars, lock, queue, bot, histVars, ops>>

\* The process dies: the lock stays until its TTL; the message is redelivered
\* (acks_late, Celery) or gone (BRPOP, session runner).
Crash(w) ==
  /\ InRound(w)
  /\ faults < MaxFaults /\ faults' = faults + 1
  /\ Close(w) /\ Goto(w, "idle")
  /\ Lock!Abandon(w)
  /\ queue' \in {queue, queue + 1} /\ queue' <= MaxQueue
  /\ UNCHANGED <<dbVars, redisVars, bot, histVars, ops>>

\* The TTL of an abandoned key runs out.
LockExpires ==
  /\ Lock!Expire
  /\ UNCHANGED <<dbVars, redisVars, queue, bot, roundVars, histVars, ops, faults>>

-----------------------------------------------------------------------------
(* The bot: signal in Redis, then commit *)

Begin(op) ==
  /\ op \in Ops /\ bot = NoOp /\ status # "deleted"
  /\ ops < MaxOps /\ ops' = ops + 1
  /\ UNCHANGED <<dbVars, lock, queue, workVars, histVars, faults>>

\* Mutant: only the database is written, Redis is not told.
BeginText_Silent ==
  /\ Begin("text")
  /\ bot' = [NoOp EXCEPT !.op = "text", !.val = Later(text, textKey) + 1]
  /\ UNCHANGED <<redisVars, since>>

\* update_campaign_message_text
BeginText ==
  /\ Begin("text")
  /\ LET t == Later(text, textKey) + 1 IN
       SetText(t) /\ bot' = [NoOp EXCEPT !.op = "text", !.val = t]
  /\ SetRevoke

\* replace_campaign_groups with the groups the user selected
BeginGroups ==
  /\ Begin("groups")
  /\ \E sel \in (SUBSET rows) \ {{}} :
       sel # groups /\ bot' = [NoOp EXCEPT !.op = "groups", !.sel = sel]
  /\ SetRevoke
  /\ UNCHANGED textKey

\* update_campaign_interval_minutes: _reschedule_running_cap reads the schedule here.
BeginInterval ==
  /\ Begin("interval")
  /\ \E i \in Intervals :
       bot' = [NoOp EXCEPT !.op = "interval", !.val = i, !.cap = status = "running" /\ dueIn > i]
  /\ UNCHANGED <<redisVars, since>>

\* stop_campaign by a handler that commits at once
BeginStop ==
  /\ Begin("stop")
  /\ bot' = [NoOp EXCEPT !.op = "stop"]
  /\ SetRevoke
  /\ UNCHANGED textKey

\* campaign_interval starts another campaign of the account: start_campaign stops
\* this one, and the commit comes after the titles were asked of Telegram.
BeginRival ==
  /\ Begin("rival") /\ status = "running"
  /\ bot' = [NoOp EXCEPT !.op = "rival"]
  /\ SetRevoke
  /\ UNCHANGED textKey

BeginStart ==
  /\ Begin("start") /\ status = "paused"
  /\ bot' = [NoOp EXCEPT !.op = "start"]
  /\ UNCHANGED <<redisVars, since>>

\* xab_new_start, phase 1: revoke_in_flight_campaigns_for_account, then sleep.
BeginDelete ==
  /\ Begin("delete")
  /\ bot' = [NoOp EXCEPT !.op = "grace", !.val = DeleteGrace]
  /\ SetRevoke
  /\ SetText(NoText)

\* Phase 3: delete_all_campaigns_for_account signals again before its DELETE.
SignalDelete ==
  /\ bot.op = "grace" /\ bot.val = 0
  /\ bot' = [NoOp EXCEPT !.op = "delete"]
  /\ SetRevoke
  /\ SetText(NoText)
  /\ UNCHANGED <<dbVars, lock, queue, workVars, histVars, ops, faults>>

CommitText ==
  /\ bot.op = "text" /\ text' = bot.val /\ staleSends' = 0
  /\ UNCHANGED <<status, interval, groups, rows, dueIn, sent, rest, lost, late>>

CommitGroups ==
  /\ bot.op = "groups" /\ groups' = bot.sel
  /\ UNCHANGED <<status, interval, text, rows, dueIn, histVars>>

CommitInterval ==
  /\ bot.op = "interval" /\ interval' = bot.val
  /\ dueIn' = IF bot.cap THEN bot.val ELSE dueIn
  /\ UNCHANGED <<status, text, groups, rows, histVars>>

\* The pause is late when time has passed since its signal.
CommitStop ==
  /\ bot.op \in {"stop", "rival"} /\ status' = "paused"
  /\ late' = (bot.val > 0)
  /\ UNCHANGED <<interval, text, groups, rows, dueIn, sent, staleSends, rest, lost>>

CommitStart ==
  /\ bot.op = "start" /\ status' = "running" /\ dueIn' = interval
  /\ UNCHANGED <<interval, text, groups, rows, histVars>>

\* The delete cascades to the schedule and the campaign's groups.
CommitDelete ==
  /\ bot.op = "delete" /\ status' = "deleted" /\ groups' = {}
  /\ UNCHANGED <<interval, text, rows, dueIn, histVars>>

Commit ==
  /\ \/ CommitText \/ CommitGroups \/ CommitInterval
     \/ CommitStop \/ CommitStart \/ CommitDelete
  /\ bot' = NoOp
  /\ UNCHANGED <<redisVars, lock, queue, roundVars, ops, faults>>

\* The commit fails; what was signalled through Redis stays.
Rollback ==
  /\ "commit" \in Failures /\ bot.op \notin {"none", "grace"}
  /\ bot' = NoOp
  /\ UNCHANGED <<dbVars, redisVars, lock, queue, roundVars, histVars, ops, faults>>

\* grp_delete: a group row goes, with its campaign_groups rows, without a signal.
DeleteGroup(g) ==
  /\ "deleteGroup" \in Ops /\ bot = NoOp /\ g \in rows
  /\ ops < MaxOps /\ ops' = ops + 1
  /\ rows' = rows \ {g}
  /\ groups' = groups \ {g}
  /\ UNCHANGED <<status, interval, text, dueIn, redisVars, lock, queue, bot, roundVars,
                 histVars, faults>>

-----------------------------------------------------------------------------
(* Time *)

\* The 24 h TTL of the text key outlives any round that started before the edit.
ExpireTextKey ==
  /\ textKey # NoText /\ bot = NoOp
  /\ \A w \in Workers : InRound(w) => snap[w].text = text
  /\ textKey' = NoText
  /\ UNCHANGED <<dbVars, revoke, lock, queue, bot, roundVars, histVars, ops, faults>>

\* Only an iteration of the send loop and idling last, and two waits of the bot.
MayPass(w) == pc[w] = "idle" \/ (pc[w] \in {"sending", "head"} /\ left[w] > 0)

CountDown(n) == IF n = 0 THEN 0 ELSE n - 1

\* The sleep before a deletion runs down; the wait for titles may end at any time.
BotWaits ==
  \/ bot = NoOp /\ bot' = bot
  \/ bot.op = "grace" /\ bot.val > 0 /\ bot' = [bot EXCEPT !.val = @ - 1]
  \/ bot.op = "rival" /\ bot.val < TitleWait /\ bot' = [bot EXCEPT !.val = @ + 1]

Tick ==
  /\ \A w \in Workers : MayPass(w)
  /\ BotWaits
  /\ dueIn' = CountDown(dueIn)
  /\ revoke' = CountDown(revoke)
  /\ left' = [w \in Workers |-> CountDown(left[w])]
  /\ rest' = IF rest = MaxInterval THEN rest ELSE rest + 1
  /\ UNCHANGED <<status, interval, text, groups, rows, textKey, lock, queue,
                 pc, snap, todo, msg, outs, pend, revoked, since, sent, staleSends, lost, late,
                 ops, faults>>

-----------------------------------------------------------------------------
Init ==
  /\ status = "running" /\ interval \in Intervals /\ text = 1
  /\ groups = Groups /\ rows = Groups /\ dueIn = 0
  /\ textKey = NoText /\ revoke = 0
  /\ Lock!Init
  /\ queue = 0 /\ bot = NoOp
  /\ pc = [w \in Workers |-> "idle"]
  /\ snap = [w \in Workers |-> NoSnap]
  /\ todo = [w \in Workers |-> {}]
  /\ msg = [w \in Workers |-> NoMsg]
  /\ outs = [w \in Workers |-> {}]
  /\ pend = [w \in Workers |-> {}]
  /\ revoked = [w \in Workers |-> FALSE]
  /\ left = [w \in Workers |-> 0]
  /\ since = [w \in Workers |-> NotTold]
  /\ sent = [g \in Groups |-> 0]
  /\ staleSends = 0 /\ rest = MaxInterval /\ lost = FALSE /\ late = FALSE
  /\ ops = 0 /\ faults = 0

\* One step of a worker's round.
RoundStep(w) ==
  \/ LoadCampaign(w) \/ ReadGroups(w) \/ EntryRevoke(w) \/ PlanRound(w)
  \/ CheckRevoke(w) \/ PickGroup(w) \/ Deliver(w) \/ SendFails(w)
  \/ MidRevoke(w) \/ Record(w) \/ FinishSchedule(w) \/ ClearRevoke(w) \/ EndTask(w)

UserStep ==
  \/ BeginText \/ BeginGroups \/ BeginInterval \/ BeginStop \/ BeginRival \/ BeginStart
  \/ BeginDelete
  \/ \E g \in Groups : DeleteGroup(g)

Next ==
  \/ Beat
  \/ \E w \in Workers :
       StartTask(w) \/ RoundStep(w) \/ RateSlotError(w) \/ TimeLimit(w) \/ Crash(w)
  \/ LockExpires
  \/ UserStep \/ SignalDelete \/ Commit \/ Rollback
  \/ ExpireTextKey \/ Tick

Spec == Init /\ [][Next]_vars

\* Celery beat, the worker loops, the bot's handlers and Redis' clock go on.
Fairness ==
  /\ WF_vars(Beat) /\ WF_vars(LockExpires) /\ WF_vars(Tick)
  /\ WF_vars(Commit) /\ WF_vars(SignalDelete)
  /\ \A w \in Workers : WF_vars(StartTask(w)) /\ WF_vars(RoundStep(w))

FairSpec == Spec /\ Fairness

-----------------------------------------------------------------------------
Labels == {"idle", "locked", "loaded", "read", "planning", "head", "picking", "sending", "gathered",
           "recording", "finishing", "clearing", "leaving"}

BotSteps == {"none", "text", "groups", "interval", "stop", "rival", "start", "grace", "delete"}

Texts == 0 .. MaxOps + 1

Snapshots == [text : Texts, interval : Intervals \cup {0},
              groups : SUBSET Groups, plan : SUBSET Groups]
Messages == [group : SUBSET Groups, text : Texts]
Handlers == [op : BotSteps, val : Nat, sel : SUBSET Groups, cap : BOOLEAN]

SharedTypes ==
  /\ status \in {"running", "paused", "deleted"}
  /\ interval \in Intervals /\ text \in Texts /\ textKey \in Texts
  /\ groups \subseteq rows /\ rows \subseteq Groups
  /\ dueIn \in 0 .. Later(MaxInterval, FastDelay) /\ revoke \in 0 .. RevokeTTL
  /\ lock \in Workers \cup {Free, Abandoned}
  /\ queue \in 0 .. MaxQueue /\ bot \in Handlers

RoundTypes ==
  /\ pc \in [Workers -> Labels]
  /\ snap \in [Workers -> Snapshots] /\ msg \in [Workers -> Messages]
  /\ todo \in [Workers -> SUBSET Groups] /\ outs \in [Workers -> SUBSET Groups]
  /\ pend \in [Workers -> SUBSET Groups]
  /\ revoked \in [Workers -> BOOLEAN] /\ left \in [Workers -> 0 .. IterMax]
  /\ since \in [Workers -> {NotTold} \cup Nat]

HistoryTypes ==
  /\ sent \in [Groups -> Nat] /\ staleSends \in Nat /\ faults \in Nat
  /\ rest \in 0 .. MaxInterval /\ lost \in BOOLEAN /\ late \in BOOLEAN
  /\ ops \in 0 .. MaxOps

TypeOK == SharedTypes /\ RoundTypes /\ HistoryTypes

\* The campaign was stopped with a commit at once, deleted, or given other groups
\* after w loaded it.
Stale(w) ==
  \/ status = "paused" /\ ~late
  \/ status = "deleted"
  \/ groups # snap[w].groups \cap rows

(***************************************************************************)
(* A round whose campaign was stopped, deleted or regrouped meanwhile does *)
(* not start another send: the revoke key is there when it looks, although *)
(* earlier rounds clear the key and it expires (campaign_signals.py:24-29, *)
(* clear_revoke at sender.py:768).  A pause committed some time after its  *)
(* signal is excepted: a round loaded in between is not told.              *)
(***************************************************************************)
StaleRoundIsRevoked == \A w \in Workers : pc[w] = "head" /\ Stale(w) => revoke > 0

(***************************************************************************)
(* From the moment the bot signals, a round in flight sends one message at *)
(* most, whatever becomes of the commit and whenever it comes: an edit, a  *)
(* stop, the pause of a rival, both signals of a deletion                  *)
(* (sender.py:327-340, campaign_signals.py:24-29).                         *)
(***************************************************************************)
OneSendAfterSignal == \A w \in Workers : since[w] <= 1

(***************************************************************************)
(* After an edit of the text is committed at most the message already on   *)
(* its way goes out with an older text (campaign_signals.py:21-23).        *)
(***************************************************************************)
AtMostOneStaleSend == staleSends <= 1

(***************************************************************************)
(* Between two reschedules a group gets a message once, and once more per  *)
(* aborted round at most, however many copies of the task are queued       *)
(* (tasks.py:29, the lock and the not-due gate of sender.py:556-564).      *)
(***************************************************************************)
SentOncePerRound == \A g \in Groups : sent[g] <= 1 + faults

(***************************************************************************)
(* Rounds are at least the smallest interval apart unless the earlier one  *)
(* was revoked: duplicate messages, redeliveries and interval edits do not *)
(* bring a round forward (sender.py:556-564, campaigns.py:110-129).        *)
(***************************************************************************)
RoundSpacing ==
  [][\A w \in Workers : pc[w] = "locked" /\ pc'[w] = "loaded" => rest >= MinInterval]_vars

(***************************************************************************)
(* No outcome of a send is lost because rows it refers to were deleted     *)
(* during the round, as the comments on the grace period say               *)
(* (campaign.py:407,410, campaign_signals.py:26-29).                       *)
(***************************************************************************)
NoLostBatch == ~lost

(***************************************************************************)
(* A message is never older than the text the round found in the database, *)
(* nor newer than what the bot committed or is committing (the database is *)
(* the source of truth, campaign_signals.py:61-64).                        *)
(***************************************************************************)
TextFromDatabase ==
  \A w \in Workers : pc[w] = "sending" =>
    /\ msg[w].text >= snap[w].text
    /\ msg[w].text <= IF bot.op = "text" THEN bot.val ELSE text

(***************************************************************************)
(* The next round of a running campaign is never further away than its     *)
(* current interval (_reschedule_running_cap, campaigns.py:110-117).       *)
(***************************************************************************)
DueWithinInterval == status = "running" => dueIn <= Later(interval, FastDelay)

(***************************************************************************)
(* A running campaign that is due gets rescheduled by a finished round,    *)
(* although tasks crash, lose their message or find the lock taken: the    *)
(* beat enqueues it again and the lock expires (tasks.py:27-66).           *)
(***************************************************************************)
DueRoundHappens == (status = "running" /\ dueIn = 0) ~> (status # "running" \/ dueIn > 0)

(***************************************************************************)
(* A committed text is loaded by some round of a campaign that stays       *)
(* running, without the user doing anything more (campaigns.py:132-147).   *)
(***************************************************************************)
EditReachesRound ==
  \A t \in Texts :
    (status = "running" /\ text = t) ~>
      (status # "running" \/ text # t \/ \E w \in Workers : snap[w].text = t)

-----------------------------------------------------------------------------
(* Why the types hold and a group gets its message once *)

\* What the handler is about to commit fits the database it finds.
BotIsSound ==
  /\ text <= ops + 1 /\ textKey <= ops + 1
  /\ bot.op = "text" => bot.val <= ops + 1
  /\ bot.op = "groups" => bot.sel \subseteq rows
  /\ bot.op = "interval" => bot.val \in Intervals

\* Every round holds the lock.
RoundsHoldLock == \A w \in Workers : InRound(w) => lock = w

BeforePlan == {"idle", "locked", "loaded", "read", "planning"}

\* What is to be sent and what is on its way are different groups of the plan.
PlanIsSplit ==
  \A w \in Workers :
    /\ todo[w] \cup msg[w].group \subseteq snap[w].plan
    /\ todo[w] \cap msg[w].group = {}
    /\ pc[w] \in BeforePlan => snap[w].plan = {}

\* The send loop of w is through with g, in this round.
Attempted(w, g) ==
  /\ pc[w] \in {"head", "picking", "sending", "gathered", "recording"}
  /\ g \in snap[w].plan \ (todo[w] \cup msg[w].group)

\* A message is one of the round in flight or one of a failed round.
SendsAccounted ==
  \A g \in Groups :
    /\ sent[g] <= 1 + faults
    /\ (\A w \in Workers : ~Attempted(w, g)) => sent[g] <= faults

\* What is left of a delay and what has passed of it make up an interval.
Rested == rest + dueIn >= MinInterval

\* A round reschedules with an interval that the user could choose.
LoadedInterval ==
  \A w \in Workers :
    pc[w] \notin {"idle", "locked", "clearing", "leaving"} => snap[w].interval \in Intervals

\* While Redis and the commits of the bot do not fail, the text key holds the
\* committed text or the one that the bot is about to commit.
TextsAgree ==
  /\ textKey # NoText => textKey = IF bot.op = "text" THEN bot.val ELSE text
  /\ bot.op = "text" => bot.val > text
  /\ \A w \in Workers : snap[w].text <= text

(***************************************************************************)
(* The inductive strengthening of TypeOK and SentOncePerRound: a round     *)
(* holds the lock, splits its plan into sent, current and to do, and every *)
(* message is accounted for (sender.py:327-414, 786-795).                  *)
(***************************************************************************)
IInv == TypeOK /\ BotIsSound /\ RoundsHoldLock /\ PlanIsSplit /\ SendsAccounted
-----------------------------------------------------------------------------
(* Why a signal reaches the round in flight *)

\* The bot is between a signal and its commit, and no time has passed.
Announced == bot.op \in {"text", "groups", "stop", "delete"} \/ (bot.op = "rival" /\ bot.val = 0)

\* The round of w was told to end, or what it works with has changed.
Outdated(w) ==
  /\ MaySend(w)
  /\ \/ Told(w)
     \/ status = "paused" /\ ~late
     \/ status = "deleted"
     \/ pc[w] # "loaded" /\ groups # snap[w].groups \cap rows
     \/ snap[w].text < text

\* How long w may go on before it looks at the revoke key.
TimeToCheck(w) == IF pc[w] = "picking" THEN IterMax ELSE left[w]

\* No round is far enough to look at the revoke key, nor to be sending.
NoneLoaded == \A w \in Workers : pc[w] \in {"idle", "locked", "leaving"}

\* A round that finishes and clears the revoke key has put off the next one.
ClearingPutsOff == \A w \in Workers : pc[w] = "clearing" => dueIn > 0

\* A commit at once finds the signal standing, or the round that heard it cleared
\* the key and no other can load the campaign.
SignalAhead == Announced => revoke = RevokeTTL \/ (dueIn > 0 /\ NoneLoaded)

\* The revoke key outlives the iteration of every round it is meant for.
OutdatedIsRevoked == \A w \in Workers : Outdated(w) => revoke > TimeToCheck(w)

\* The text key is not behind the database, nor a round ahead of it.
TextsForward ==
  /\ textKey # NoText => textKey >= IF bot.op = "text" THEN bot.val ELSE text
  /\ bot.op = "text" => bot.val > text
  /\ \A w \in Workers :
       /\ snap[w].text <= text
       /\ pc[w] = "sending" => msg[w].text >= snap[w].text

\* After a stale message the round does not send another one.
StaleSendIsLast ==
  /\ staleSends <= 1
  /\ staleSends > 0 =>
       \A w \in Workers : pc[w] \in {"picking", "sending"} => snap[w].text >= text

\* A round that has sent a message since the signal does not take another group.
ToldSendIsLast ==
  \A w \in Workers :
    /\ since[w] <= 1
    /\ pc[w] \in {"picking", "sending"} => since[w] <= 0
    /\ pc[w] \in {"idle", "locked"} => ~Told(w)

(***************************************************************************)
(* The inductive strengthening of StaleRoundIsRevoked, OneSendAfterSignal  *)
(* and AtMostOneStaleSend: a signal outlives the iteration it interrupts,  *)
(* also when its commit comes late, and a commit at once finds it standing *)
(* (campaign_signals.py:21-29, sender.py:327-340, 762-770).                *)
(***************************************************************************)
SignalInv ==
  /\ TypeOK /\ BotIsSound /\ RoundsHoldLock
  /\ ClearingPutsOff /\ SignalAhead /\ OutdatedIsRevoked
  /\ TextsForward /\ StaleSendIsLast /\ ToldSendIsLast

\* Only a deletion removes the text key while a round has an older text, and
\* there is none.
TextKeyStays ==
  /\ bot.op # "grace"
  /\ bot.op = "text" => textKey # NoText
  /\ textKey = NoText =>
       \A w \in Workers : pc[w] \notin {"idle", "locked", "leaving"} => snap[w].text >= text

\* Whatever is picked after a commit has the text of the commit.
StaleSendIsPicked ==
  /\ staleSends <= 1
  /\ staleSends > 0 => \A w \in Workers : pc[w] = "sending" => msg[w].text >= text

(***************************************************************************)
(* The inductive strengthening of AtMostOneStaleSend when an iteration may *)
(* last longer than the revoke key, as with a long flood wait              *)
(* (campaign_signals.py:21-23, sender.py:342-346).                         *)
(***************************************************************************)
TextInv ==
  /\ TypeOK /\ BotIsSound /\ RoundsHoldLock
  /\ TextsForward /\ TextKeyStays /\ StaleSendIsPicked

-----------------------------------------------------------------------------
(* The rounds of the campaign as one send loop *)

Looping == {"head", "picking", "sending", "gathered", "recording"}

\* What w does to the loop
LoopOf(w) ==
  [open |-> pc[w] \in Looping \cup {"finishing"},
   todo |-> IF pc[w] \in {"head", "picking", "sending"} THEN todo[w] ELSE {},
   cur  |-> msg[w].group,
   done |-> outs[w]]

\* The loop of the campaign: that of the one worker in a round.
RoundLoop ==
  [open |-> \E w \in Workers : LoopOf(w).open,
   todo |-> UNION {LoopOf(w).todo : w \in Workers},
   cur  |-> UNION {LoopOf(w).cur : w \in Workers},
   done |-> UNION {LoopOf(w).done : w \in Workers}]

Sends == INSTANCE SendLoop WITH Senders <- {"campaign"},
                                loop <- [s \in {"campaign"} |-> RoundLoop]

(***************************************************************************)
(* However many workers, copies of the task, aborts and crashes there are, *)
(* the campaign has one send loop, which plans, takes, tries and records   *)
(* like a single process (sender.py:327-506, 596-761, 772-795).            *)
(***************************************************************************)
OneSendLoop == Sends!Spec

\* A message is on its way, and outcomes exist, only in the loop.
LoopIsTidy ==
  \A w \in Workers :
    /\ pc[w] = "sending" <=> msg[w].group # {}
    /\ pc[w] \notin Looping => outs[w] = {}
=============================================================================
