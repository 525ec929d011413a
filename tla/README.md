# TLA+ models of the autoposting bot

The bot lets a user link a Telegram account, write a message, choose groups
and have the message posted to them every few minutes.  This directory holds
TLA+ models of the parts that decide whether this happens, once and with the
right text, although several processes work on the same campaign: what TLC
checks about them and what TLAPS proves about them.  Paths such as
`engine/sender.py` are relative to `src/`.

## 1. The system

| part | state it keeps | operations | hard behaviour |
|---|---|---|---|
| **Scheduler** `worker/tasks.py`, `worker/celery_app.py` | the Celery queue | the beat enqueues due campaigns every 30 s; `process_campaign` | duplicates, redelivery after a crash (`acks_late`), time limits |
| **Distributed lock** `engine/distributed_lock.py` | Redis key `campaign:exec:{id}`, a token per worker, a heartbeat thread | acquire (SET NX PX), renew and release (Lua scripts) | outages longer than the TTL, lost replies, crashes |
| **Campaign round** `engine/sender.py` | the SQLAlchemy session's snapshot, uncommitted logs | load, plan, send group by group, record, reschedule | stale snapshot, partial commits, revocation, aborts |
| **Signals** `engine/campaign_signals.py` | Redis keys with text and revoke | set, get, clear; errors hidden | written before the database commits |
| **Campaign service and handlers** `app/services/campaigns.py`, `bot/handlers/campaign.py`, API routes | campaigns, schedules, groups | edit text, interval, groups; start, stop, delete | a round in flight, commit failures, bot against API |
| **Account send limit** `engine/account_rate_limit.py` | one Redis counter per account and minute | INCR, EXPIRE, DECR | races, crashes between the calls |
| **Subscriptions** `app/services/subscription.py`, `worker/tasks.py`, payment handlers | users, payment requests, reminder flags | request, approve, reject, purge, remind | two processes on one row, message before commit |
| **Accounts and login** `app/services/accounts.py`, `engine/login.py`, `bot/handlers/login.py` | account status, login key in Redis | send code, complete login, replace the old account, repair several active ones | two logins at once, failure after half the work, commits over rows read earlier |
| **Send with retries** `engine/telegram_helpers.py` | counters of one call | retry, flood wait, slow mode | a lost answer makes a second delivery, three counters in one loop |
| **Client pool, session runner** `engine/telethon_pool.py`, `runner/main.py` | open clients, a Redis list | get, invalidate; push, pop | eviction while in use, lost messages |
| **Dialogs of the bot** `bot/handlers/*`, `bot/middlewares.py`, `bot/states.py` | a state and a dictionary per user, in memory | some sixty handlers | buttons of old messages in any state, handlers that wait, the access gate |
| **API, analytics, texts, configuration** | - | reads, counts, keyboards | none that outlives a handler |

How they interact: the *bot* (one asyncio process), the *API*, *beat* and any
number of *workers* share PostgreSQL and Redis and call each other through the
Celery queue only.  The bot talks to a round in flight through two Redis keys:
the text key, which the round prefers to its own snapshot, and the revoke key,
which ends the round at the next group and makes it reschedule itself soon.
Rounds of one campaign exclude each other through the lock; rounds of
different campaigns of one account share the send limit.

What makes each part correct:

* lock: two rounds of a campaign at once only after one has gone a whole TTL
  without a renewal; nobody releases or renews another's key; a key left by a
  crash goes away;
* round: a group gets a message once per round, rounds keep their distance, a
  stopped or regrouped campaign stops sending, a signal stops a round after one
  message, the text is one the database held, a due campaign runs;
* send limit: never more than N slots per window (a slot is one call of
  `safe_send_message`; its retries take no new one), nobody refused before;
* subscription: paid days are served, nobody who pays is purged and everybody is
  reminded once, but for what crosses a task that is already under way; who is
  done is purged;
* accounts: one active account per user, one running campaign per account,
  nothing running on a replaced account, but for transactions that overlapped;
* delivery: a message goes out a bounded number of times, what Telegram
  refused is not tried again, counters add up, every round ends;
* dialogs: whatever was tapped before, an answer goes to what was asked for
  last, links stay within their account, one payment request at a time.

`PROJECT.json` lists every component with its status and every hazard with its
line; the properties below were chosen from that list.

## 2. Modules

| module | models | lines of code it reads |
|---|---|---|
| `RoundLock` | what a round needs of its lock: acquire, release, abandon, expire | `distributed_lock.py` 78-149 |
| `CampaignLock` | the lock with its key, TTL, tokens, heartbeat thread and timers | `distributed_lock.py` 54-149 |
| `CampaignRound` | one campaign: beat, queue, workers with their rounds, bot operations, Redis signals, crashes, time | `sender.py` 327-795, `campaign_signals.py`, `campaigns.py` 110-366, handlers |
| `SendLoop` | what a round promises of its send loop: plan, take, try, record in batches, close | `sender.py` 46-60, 269-360, 500-761 |
| `RateLimit` | the send slots of one account | `account_rate_limit.py` 23-39 |
| `Subscription` | one user: demo, payments, purge, reminders | `subscription.py` 37-160, `tasks.py` 117-175 |
| `Delivery` | rounds of one account: worker, client pool, `safe_send_message`, write-back | `sender.py` 246-761, `telegram_helpers.py` 73-290, `telethon_pool.py` |
| `CampaignRows` | rows of campaigns and what the services do to them (operators, no state) | `services/campaigns.py` 43-366, `models.py` |
| `Dialogs` | one bot user: state machine, middleware, every handler that changes state | `bot/handlers/*`, `middlewares.py`, `states.py` |
| `Accounts` | accounts and campaigns of a user under overlapping transactions | `accounts.py`, `login.py`, `services/campaigns.py` |
| `MC*` | the sets of workers, groups, operations and tariffs of the runs | |
| `*_proofs` | theorems and their proofs; `CampaignRows_proofs` has the lemmas on rows that `Accounts_proofs` and `Dialogs_proofs` share | |

`CampaignRound` instantiates `RoundLock` for its lock; `CampaignLock`
implements `RoundLock` (property `AbstractLock`, theorem
`LockImplementsRoundLock`), where a round that lapses gives up the abstract lock.
`CampaignRound` has rounds that hold the lock until they end, so what is shown
about it holds with the real lock as long as renewals are timely
(`TimelyRoundsHold`).  `Accounts` and `Dialogs` extend `CampaignRows`: the first
splits what a service does to rows into a read and a commit, the second applies
it in the step of a handler.  `Delivery` looks into what `CampaignRound` has as
one step (`Deliver`, `SendFails`).  Both implement `SendLoop`, each with a mapping
of its own: in `Delivery` every process has a loop (`ImplementsSendLoop`), in
`CampaignRound` all workers together have one (`OneSendLoop`), whose groups to do,
current group and outcomes are the unions of the workers'.  That the two agree on
what a round does with its groups is therefore checked, not assumed.

### SendLoop

`loop[s]` is the loop of a sender: whether it is open, the groups left, the one
taken, those with an outcome that is not saved.  A group is taken when none is
current and leaves with its outcome; the loop breaks with the rest undone
(`Stop`, or `Outcome` with nothing left) or fails it (`FailRest`); outcomes
are recorded batch by batch when nothing is left, and `Close` is the commit that
ends the round.  `Drop` is what an exception of the worker, an abort or a crash does.

### CampaignLock

Variables: `key` and `ttl` are the Redis key and what is left of its TTL; for
each worker `pc` says whether it is in its round or in `release`, `token` is
`HeldLock.token`, `beat` the heartbeat thread (waiting in `stop.wait`, lost,
or off), `timer` the time it has waited and `age` the time since it last
renewed the key.  The actions are the code's calls: `Acquire`,
`AcquireReplyLost`, `HeartbeatRenew`, `HeartbeatLost`, `HeartbeatError`,
`StopHeartbeat`, `Release`, `ReleaseError`, `Crash`, and `Tick` for the clock.
A Lua script is one step because Redis runs it as one.  Tokens are `uuid4` and
never repeat, so `Acquire` takes one that nobody holds.  `MaxGap` bounds the
time the environment (failing calls, a paused process) keeps a live thread from
renewing.  It may exceed the TTL, and does in the run: `Lapsed` is a round whose
thread has not renewed for a whole TTL or has been told that the key is
another's, and which goes on sending.  Only `TimelyRoundsHold` assumes *Timely*,
`MaxGap < TTL`.  Not modelled: a heartbeat call that hangs past the `join` timeout of the release.

### CampaignRound

The variables are grouped: `dbVars` is the committed database (campaign row,
its groups, the group rows, the schedule as time left), `redisVars` the two
signal keys, `queue` the number of queued messages, `bot` the handler between
its Redis signals and its commit, `roundVars` the round of each worker.  `pc`
names the places where a round may be interrupted; between two of them the
code makes one call of Redis, the database or Telegram.  `snap` is what the
session loaded and never refreshes; `outs` are outcomes in the memory of the
account worker, `pend` those added to the session and not committed.
`since`, `sent`, `staleSends`, `rest`, `lost` and `late` are history variables
for properties: `since[w]` counts what a round has sent since the bot's first
signal, `late` marks a pause that was committed some time after its signal.

| actions | code |
|---|---|
| `Beat` | `schedule_due_campaigns` |
| `StartTask` | `process_campaign`, `run_campaign_round_async` up to acquire |
| `LoadCampaign`, `ReadGroups`, `EntryRevoke`, `PlanRound` | `run_campaign_round` up to the gather |
| `CheckRevoke`, `PickGroup`, `Deliver`, `SendFails`, `RateSlotError` | the loop of `_account_worker` |
| `MidRevoke`, `Record`, `FinishSchedule`, `ClearRevoke`, `EndTask` | the rest of the round |
| `TimeLimit`, `Crash`, `LockExpires` | soft limit, dead worker, TTL |
| `Begin*`, `Commit*`, `Rollback`, `SignalDelete`, `DeleteGroup` | services and handlers: signals first, commit afterwards |
| `Tick` | the clock: rounds that send or pause, and the two waits of the bot (`BotWaits`) |

Most handlers commit at once.  Two wait: `xab_new_start` sleeps `DeleteGrace`
between its signal and its deletion, and `campaign_interval`, which starts a
campaign and thereby pauses the running one of the account (`BeginRival`), signals
it, asks Telegram for a title per untitled group, up to `TitleWait`, and commits
the pause only then.  In that time the rival's round may end, clear the key, be
due again and load the campaign, which still says running.

Abstractions: a text is its version number, so *older* and *newer* can be
compared; which groups are planned is any subset of the campaign's groups (the
planner's limits, block list and random skips) and the rest may be logged as
skipped; jitter is left out; pop of the message and acquire are one step; the
text key's 24 h TTL does not end during a round that began before the edit;
operations on the campaign come one after the other (the bot can in fact handle
another message of the user during the two waits; an edit at that time is not
in `CampaignRound`, the dialogs it disturbs are in `Dialogs`).  One account per campaign, as the schema has it.

### RateLimit

`count` is the counter per window, `expired` the windows whose key has run out
of its 75 s, `pc` and `win` a sender between its calls, `granted` (history) the
slots handed out.  `Incr` is the INCR with the comparison of its result, `Decr`
the return of a slot over the limit, which may come after the window ended.  A
crash may hit between any two calls; `MaxLeak` bounds the slots it leaks.  That
no INCR comes after the key expired is assumed: the key lives 15 s longer than
its window.

### Subscription

`left` and `demo` count days, as `d_left` does in the reminder task; the day a
subscription ends counts as over.  Handlers of the bot do not await between
their reads and their commit, so each is one step; the two tasks take several,
in another process, and any handler may come between two of them.  `raced`
(history) says that a payment was asked for since the purge selected the user,
`crossed` which reminder was being sent when the current period began.  The tariffs of the runs are longer than the first reminder, as 30, 180 and 360
days are.

### Delivery

The row of the account (`status`, `waits` for `flood_wait_until` ahead, `warm`),
the groups marked `invalid` and the `blocked` list are the database; `barred`,
`refusing`, `dead` are what Telegram does and nobody has noticed; the rest is the
round of each process.  A round is `Begin` (load and plan), `Connect` /
`BuildFails` / `Unauthorized`, then for each group `Take` and one action per
outcome of a try of `safe_send_message` (`Delivers`, `AnswerLost`, `SendError`,
`SlowMode`, `FloodWait`, `Refused`, `RefusedByText`, `AccountBarred`, and
`LookupFails` before the first try), and at the end `WriteBatch` for each full
batch of outcomes and `WriteBack` for the last commit, which brings the meta
outcome: the warm-up counter and the session.  `Dropped` may come at any time
(the worker raises, a commit fails, the process dies) and takes what is not
written with it.  A refusal is one of three exceptions, or an error known by its
text, which `safe_send_message` tries again like any other.  A success after a
flood retry still makes the account wait (`flooded`).  `slow`, `flood`, `generic` are the counters of the code's
loop, which has no other bound.  Since a round writes back rows it loaded at
`Begin`, processes run rounds of several campaigns of the account at once.
`written` counts what the batches of a round have committed; `copies`, `logged`,
`forgotten`, `overlapped`, `tries` and `vain` are history.  Looking an entity up and
joining a group are one step that succeeds or raises; the wait for a slot is in
`RateLimit`.  An account that Telegram bars is noticed by the three errors that
the code knows (`vain` counts them); other errors of such an account are ordinary
failures of a send.

### CampaignRows and Accounts

`tx` holds the open transaction of each process: what it read (a campaign row
and its running rivals; the accounts to replace and their running campaigns)
and will write.  A commit writes the columns the session changed and does not
read again, as READ COMMITTED with `expire_on_commit=False` has it; a row that
was deleted meanwhile makes it fail (`Present`).  `StartBegin`, `CreateBegin`,
`LoginReads`, `RepairBegin` read, the `*Commit*` actions write,
`LoginCommitsHalf` is the commit of the `except` branch of
`complete_login_task` after the status was set.  `unseen`, `blind` and `late`
record what a commit could not have seen, and the properties say that nothing
but that breaks the policy of one account and one campaign.

### Dialogs

`state` and `data` are aiogram's state machine of one user.  Every message and
button is an action that any state may meet: `Handles` is the access middleware,
the guards on `state` follow the filters and the order in which the routers are
included, and a button has no guard on `state` where the code has none.  A
handler is one step because it does not give up the event loop between its
reads and its commit, but for two: `xab_new_start` sleeps two seconds
(`sleeping`), and `campaign_interval` asks Telegram for titles with its
transaction open (`creating`).  Meanwhile others run; one that writes a row the
open transaction has locked stops the event loop for ever (`Freeze`), and
`Restart` ends that and a deletion that sleeps, and every dialog unless
`fsm_redis_url` keeps them in Redis; it may do either.  `intent` is history: what
the user's last button or command asked for.  A deletion that ends its sleep opens
the dialog of a new campaign.  That is what was asked for only if the user has not
touched a dialog since (`latest`); otherwise `intent` becomes `taken`.  The button
for a new campaign after a stop (`NavCampaign`) asks for one without naming an
account.  Login tasks, admins, the end of a demo and closed sessions come in between.

## 3. What is checked

Runs that pass:

| run | instance | shows |
|---|---|---|
| `Lock` | 3 workers, 4 tokens, TTL 6, heartbeat 2, gaps of up to 9, fair | `MutualExclusion`, `AbstractLock` (refinement), `OrphanExpires`, `OnlyOwnerDeletes`, `OnlyOwnerRenews`, the inductive invariant |
| `RoundEdits` | 2 workers, 2 groups, 2 queued messages, 2 edits, waits of 1 before a deletion and a rival's pause, 1 crash | `StaleRoundIsRevoked`, `OneSendAfterSignal`, `AtMostOneStaleSend`, `TextFromDatabase`, the inductive invariant `SignalInv` |
| `RoundFaults` | all operations (1), failing Redis and commits, 1 crash | `SentOncePerRound`, `RoundSpacing`, the inductive invariant |
| `RoundLive` | 1 edit, stop, start or deletion, iterations of up to 2 against a grace of 1, 1 crash, fair | `OneSendLoop` (refinement), `DueRoundHappens`, `EditReachesRound` |
| `RateLimit` | 4 senders, limit 2, 2 windows, 3 leaks | `AtMostMaxSends`, `DeniedOnlyWhenFull`, the inductive invariant |
| `Subscription` | 3 payments of 2 tariffs, 1 failure, payments at any step of the tasks, fair | `PaidDaysServed`, `PayingUserKept`, `RemindedOnce`, `ExpiredIsPurged`, the inductive invariant `RemindInv` |
| `Delivery` | 2 processes, 2 groups of which Telegram may close one, limit 2, 1 retry of each kind, batches of 1, 2 rounds, 1 dropped round each, pooling | `CopiesBounded`, `RefusedOnce`, `BarredOnce`, `WarmUpCounted`, `BarredClientGone`, `RoundNearsEnd`, the inductive invariant |
| `Accounts` | 2 processes, 2 accounts, 2 campaigns | `OneRunningPerAccount`, `OneActiveAccount`, `ReplacedIsQuiet`, the inductive invariant |
| `Dialogs` | 2 accounts, 2 campaigns, 1 group, open or expired access, 1 deletion that sleeps, restarts that keep or lose the dialog | `DialogAsAsked`, `LinksOfAccount`, `RequestAsAsked`, the inductive invariant |

Why the bounds suffice: the hard cases need two rounds that meet (two workers,
two messages), an edit between two groups (two groups), a second signal that
meets the end of a revoked round (two edits), and one failure that leaves
something behind.  Time units are small multiples: what matters is whether an
iteration of the send loop fits into the revoke TTL (it does in the code but for
long flood waits, and in the runs), whether it outlasts the grace period (it does
in the code, and in `RoundLive` and `RoundDelete`), and whether an outage outlasts
the lock's TTL (`Lock` has both kinds).  A wait of one unit before a rival's pause
is enough for a round to end and the next to load.  The
counter of a window must exceed its limit with debts of two senders
outstanding (four senders, limit two).  Two overlapping transactions are what
every anomaly of `Accounts` takes, and two campaigns or accounts what they
compete for; groups play no part there.  A dialog is confused by two campaigns
or accounts (edit one, tap the button of the other) and by one group that is
deleted or belongs to the account that was replaced.  With two groups a round
can go on after what it learnt of the first.  Of the
retries, `Delivery` has one of each kind, where the code has two for floods and
other errors: the counters interleave in the same ways, and the theorems have any
number.  With batches of one every outcome is committed for itself and the warm-up
after all of them, the most that a lost round can leave in between; batches that
are not full at the end are in the proofs only.  Campaigns and processes
are symmetric sets where no liveness is checked.  `Delivery` may stop, since the
rounds begun are bounded, so deadlock is not checked there.

`ImplementsSendLoop` is in no run: on the instance of `Delivery` TLC finds it true
but takes longer than all the other properties together, and the theorem
`DeliveryIsSendLoop` says more.
The inductive invariant `TextInv` is in no run either: the theorem
`TextKeySuffices` rests on it, and what it states is in `RoundEdits`.

Runs that find a disagreement between the code and what its docs say (each is
quoted in `PROJECT.json`):

| run | what happens |
|---|---|
| `RoundIntervalEdit` | the interval is shortened during a round; the round reschedules with the long one it had loaded, and the next is further away than the new interval |
| `RoundDelete` | the code gives a revoked round two seconds before it deletes the campaign (`campaign.py:408`); an iteration sleeps longer than that before it sends (`config.py:77`, `sender.py:354`), so its log refers to a row that is gone, and the batch is lost although the comments exclude it (`NoLostBatch`) |
| `PaymentPhone` | a user whose access has ended types the phone that the bot asks for; the middleware refuses every text and the dialog never goes on |

Further outcomes are in the models because they are in the code.  The passing
runs reach them, and their properties say which step is the only one that leads
there:

* two rounds of a campaign at once, after an outage of Redis as long as the TTL:
  the heartbeat thread stops, the round does not, a second worker enters
  (`MutualExclusion` with `Lapsed`; the header of `distributed_lock.py` promises
  that split-brain stays excluded, for its Redis that answers);
* a round under a pause: `campaign_interval` signals the rival, waits for titles
  and commits late, and the round that loads in between is told by nobody
  (`late` in `StaleRoundIsRevoked`);
* a payment request between the select and the DELETE of the purge, which goes
  with its user (`raced` in `PayingUserKept`);
* a reminder committed over a renewal, which suppresses the same reminder of the
  new period (`crossed` in `RemindedOnce`);
* a warm-up counter behind the messages sent, after rounds that overlapped or a
  round lost between two batches (`WarmUpCounted`);
* two running campaigns or active accounts after transactions that did not see
  each other (`Accounts`);
* a dialog taken over: a deletion ends its two seconds of sleep, clears whatever
  dialog the user has opened meanwhile and asks for the text of a new campaign;
  what the user types for the other dialog becomes that text (`campaign.py:408-428`,
  `taken` in `DialogAsAsked`).

Four more come from reading; the models have the first two as the code does.
`campaign_interval` awaits Telegram with rows locked (`campaign.py:847`), so one
more tap of the same user can block the whole bot (`Freeze`); a login
that replaces an account and pauses its campaigns (`tasks.py:217`) waits for the
same rows too, but in another process and only until the titles are there.  The button for a new campaign after a
stop (`nav:campaign`) starts a dialog with the account of the one before, or,
without one, a dialog that the next message ends; it names no account, so
`DialogAsAsked` accepts any.  `DELETE` of a user whose campaign has a schedule fails
on `schedules.campaign_id` (`users.py:104`).  And a group left over when the account
has used up `max_groups_limit` is logged as `all_accounts_blocked`, which the
comment at `sender.py:219` takes literally; the models leave the reason of a skip
out.  The comment at `sender.py:508` wants the session saved only for a new access
hash, while the code saves it after every round, so that the pool, which wants to
keep its clients for long, drops the client each time unless saving fails.

Some hazards show up when constants of a run are changed: with
`IterMax > RevokeTTL` a stopped round sends on after the revoke key expired (flood
waits may sleep longer than ten minutes); with `Ops = {"deleteGroup"}` the deletion
of a group, which signals nothing, loses a batch; with `Failures = {"commit"}` a
commit that fails after the text went to Redis leaves rounds that post a text the
database never held (`TextFromDatabase`, which `RoundEdits` checks without
failures); with `Failures = {"redis"}` a hidden error leaves the *previous* text in
Redis and rounds prefer it for a day.  And the lock of a round is taken with 1800 s
(`core/config.py:106`), so after a crash a campaign waits far longer than the 60 s
the lock's header promises.

### Fairness

`CampaignRound.FairSpec` assumes weak fairness of the beat (runs every 30 s),
of each worker's next step (its loop and the calls it awaits return), of the
bot's commit, of the expiry of keys and of time.  Edits, crashes, failures and
expiry of the text key are not fair.  `RoundLive` has no failing Redis calls,
since no schedule makes an endless outage end.  `CampaignLock.FairSpec` has
time and the calls of the heartbeat threads, and `Subscription.FairSpec` the beat's tasks (each runs again every
hour or day) and the calendar.

`Accounts`, `Delivery` and `Dialogs` assume none: processes die and users walk
away.  That the retries of a send come to an end is the action property
`RoundNearsEnd` instead: each step of a round lowers a bound on the steps left.
`TypingSpec` of `PaymentPhone` is strongly fair to one action, a user who keeps
typing the phone, which is what the prompt asks for; the counterexample has no
step that the bot owes.

## 4. What is proved

TLAPS checks these for all values of the constants.

* `CampaignLock_proofs`.  `TypeCorrect`; `FencedRelease`: only the owner
  deletes, whatever the outages (from the script's comparison and the freshness
  of tokens); `OverlapIsLapse` and `LockImplementsRoundLock`, with no assumption on
  outages.  Mutual exclusion but for lapsed rounds is not inductive: it follows
  from `Lease` (the key of a round that has not lapsed holds its token, with
  `ttl + age = TTL`, and that of one that has is lost to it) and from
  `TokensUnique`.  `TimelyRoundsHold` adds `MaxGap < TTL`: then no round lapses and
  all hold the abstract lock, which is what `CampaignRound` builds on.
  `Bookkeeping` (types, unique tokens, what idle workers and stopped threads have)
  carries `FencedRelease`.
* `CampaignRound_proofs`.  `TypeCorrect` and `OncePerRound`, from the inductive
  `IInv`, with every failure and every operation of the user.  That a group
  gets one message per round is not inductive: a delivery must know that
  nobody else is sending (`RoundsHoldLock`), that the group was not on its way
  before (`PlanIsSplit`: what is to be sent, what is on its way and what was
  tried are parts of one plan) and that earlier messages belong to failed
  rounds (`SendsAccounted`: as long as no round has tried the group, at most one
  message per failure).  An abort, time limit or crash turns the messages of a
  round into messages of a failed one; a reschedule starts anew.  The types need
  `BotIsSound`, since what a handler commits was read before its signal.
* `RateLimit_proofs`.  `RateIsLimited`, `RateIsFull`.  The limit alone is not
  inductive: the counter must cover the slots handed out and the debts of
  those about to DECR (`Covered`), otherwise a late DECR could let one more in.
  The proof counts debts with the library's facts on finite cardinalities.
* `Subscription_proofs`.  `Invariant`, `DaysAreServed` without further
  assumption, and `PurgeKeepsPaying`: what the purge deletes neither paid nor asked
  to, unless the request came after the select.  The purge looks at
  `payment_status` while what matters is the open request, so `IInv` ties them.
* `CampaignLock_proofs` also has `LeaseIsKept` and `RateLimit_proofs`
  `SlotsAreCovered`: the inductive invariants themselves, as the runs check them.
* `CampaignRound_proofs`: `RoundsAreSpaced`.  Two rounds that were not revoked
  are an interval apart, whatever fails.  `Rested` ties the time since the last
  round ended to the time until the campaign is due, `rest + due` is at least
  the shortest interval, and `LoadedInterval` says that a round reschedules with
  one of the intervals.  `TextsAreCommitted`, for a bot whose Redis and commits
  work: a message lies between the text its round loaded and the one being
  committed.  `TextsAgree` is needed, since the text key may be ahead of the row
  only while the handler that wrote it is about to commit.
* `Delivery_proofs`.  `DeliveryInvariant`, and from it `CopiesAreBounded`,
  `RefusalsAreHeeded`, `BansAreHeeded`, `WarmUpIsCounted`, `BarredClientsGo`.  A
  bound on tries is not inductive: it needs that whatever is still to be sent
  has a try left (`RefusalsLearnt`, `BarLearnt`), that a group has its outcome or is
  in the queue, not both (`RoundOrdered`), and that a second try means lost
  outcomes.  `BarLearnt` also ties a noticed bar to the outcome that will drop the
  client, until it is written.  `WarmUpLoaded` says that a round without overlap
  loaded the current counter, and that what is logged beyond it are its own batches
  (`written`) and those of lost rounds (`forgotten`).  `RoundsEnd` is the variant `StepsLeft`, which every step of a
  round lowers.
* `Accounts_proofs`.  `AccountsInvariant`, `OneRunning`, `OneActive`,
  `ReplacedQuiet`.  The rows alone are not enough: `StartsKnown`,
  `ReplacementsKnown` and `LoginsKnown` say of each open transaction that a row it
  has not read is one that history records as unseen.
* `Dialogs_proofs`.  `DialogsInvariant`, `AnswersWhatWasAsked`,
  `LinksStayInAccount`, `RequestsAreAsked`, for any accounts, campaigns, groups and
  tariffs.  What was asked for survives because a step that leaves the
  intent keeps the dialog on its campaign, account or tariff; the end of a deletion
  is told apart by `latest`, which any other step on the dialog resets; besides, an open creation has not left its
  row (`CreationIsFresh`) and a campaign under edit has one (`EditedExists`), so
  that its account cannot change under the dialog.

Signals and rounds (`CampaignRound_proofs`).  These relate a handler in progress,
what is left of the revoke key and the age of a round's iteration.

* `SignalsArrive` is the inductive `SignalInv`; `StaleRoundsEnd`, `RoundsAreTold` and
  `OneStaleSend` follow.  When a handler commits at once its signal still stands, or
  the round that heard it has cleared it and no other can have loaded (`SignalAhead`;
  a round that clears has put the next one off, `ClearingPutsOff`).  For a rival's
  pause this holds only until time passes; what holds for every signal, however late
  its commit, is that the key outlives the iteration of each round it found in flight
  (`Told` in `OutdatedIsRevoked`: `revoke > TimeToCheck`), so that such a round sends
  one message at most (`ToldSendIsLast`).  The same of rounds with outdated data gives
  the others: a round that has sent a stale message is revoked when it looks
  (`StaleSendIsLast`).
* `TextKeySuffices` shows `AtMostOneStaleSend` a second time, without the revoke
  key: as long as nobody deletes the campaign the text key stays, and whatever
  is picked after a commit has its text (`StaleSendIsPicked`).
* `RoundsAreOneLoop`: `CampaignRound` implements `SendLoop` with one sender.  The
  unions of the mapping are the loop of one worker because the others are not in
  the loop (`RoundsHoldLock`) and one that is not in it has no message or outcome
  (`LoopIsTidy`).  An abort, time limit or crash maps to `Drop`, an outcome
  added to the session to `Record`, whether its batch is committed or not.

The hypotheses of these theorems are those under which the code can keep the
promise:

| hypothesis | in the code | without it |
|---|---|---|
| `"redis" \notin Failures` | errors of the signals are logged and hidden | the signal is missing, the bot commits anyway |
| `IterMax < RevokeTTL` | 600 s against a send with its delays and slot; a flood wait may sleep longer | a stopped round sends on; `SignalInv` already fails when they are equal |
| `"delete" \notin Ops` (`TextKeySuffices`) | a deletion clears the text key | with `IterMax >= RevokeTTL` too, two stale messages |

So a message of an older text is sent at most once unless an iteration outlasts
the revoke key *and* the campaign is being deleted.

Others of this kind:

* `CampaignLock_proofs`: `FencedRenewal`, whatever the outages.  What makes the TTL
  of a key grow is the thread of the round whose token it holds: a key that stays is
  not taken again (SET NX), and a thread that lost it finds another token
  (`TokensUnique`).
* `Subscription_proofs`: `RemindersAreKept` (the inductive `RemindInv`) and
  `OneReminderADay`, for `LongTariffs`.  Before its day nothing is told, and no flag is
  set but by a task that the renewal crossed (`NotYetTold`); the task works on today's
  reminder only and once unless it failed, or on one of a period that is over
  (`TaskOfToday`); and each failure accounts for one reminder too many or too few, a
  crossing for one too few (`ToldToday`).  `LongTariffs` says that a tariff is longer than the first
  reminder is early, as its months of 30 days are (`subscription.py:87`); a
  renewal would otherwise land among the days of reminders it has just reset.
* `Delivery_proofs`: `DeliveryIsSendLoop`, one step of `SendLoop` or a stutter for
  each action: retries, joins and floods within a try are stutters, both ways in
  which a client is not to be had are `FailRest`, each batch is a `Record`.

The constants' assumptions are named (`LockAssumption`, `RoundAssumption`,
`RateAssumption`, `SubscriptionAssumption`, `RowsAssumption`,
`AccountsAssumption`, `DeliveryAssumption`, `DialogsAssumption`); TLC evaluates
them in the runs.

Model-checked only: liveness, that is `OrphanExpires`, `DueRoundHappens`,
`EditReachesRound` and `ExpiredIsPurged`; the prover has no ENABLED.  Every invariant
and every action property of the passing runs is stated by a theorem.

## 5. Not modelled

Texts, keyboards, statistics, reads of the API, configuration, proxies, device
profiles and delays, encryption, group titles, pruning of logs: no state that
another process depends on.  Modelled in part: the planner and the worker have
one account, which is what `run_campaign_round` passes them; how an entity is
found is one step; the deadline and the signals of the session runner are left
out; so are paging of group lists and the checks of the format of numbers, texts
and chat ids.  `PROJECT.json` says for each component what is missing.
Telethon, Redis, PostgreSQL, aiogram and Celery are external; the models have
what the code relies on (atomic scripts, TTLs, redelivery, foreign keys, row
locks, dialogs kept in memory or in Redis).

## 6. What is left

1. The session runner: its list, the deadline of a round and its shutdown.
2. The planner with several accounts, should campaigns get more than one.
3. The safety core of `OrphanExpires`: a bound on the time a key without a
   running round can last, as an invariant of `CampaignLock`.
