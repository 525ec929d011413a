----------------------------- MODULE Subscription -----------------------------
(***************************************************************************)
(* The subscription of one bot user: the demo, payment requests that an    *)
(* admin approves or rejects (app/services/subscription.py), and the two   *)
(* scheduled tasks that work on the same row from another process: the     *)
(* purge of expired demo users and the daily reminders (worker/tasks.py).  *)
(*                                                                         *)
(* A handler of the bot does not await between its reads and its commit,   *)
(* so it is one step; a task reads, works and commits in several, and the  *)
(* handlers run between them.  Time is counted in days that are left, as   *)
(* the reminder task counts it.                                            *)
(***************************************************************************)
EXTENDS Integers

CONSTANTS
  Demo,      \* days of the demo
  Tariffs,   \* days a request may buy
  MaxPayments, MaxFaults  \* bounds: requests, failures of the reminder task

ASSUME SubscriptionAssumption ==
  /\ Demo \in Nat
  /\ Tariffs \subseteq Nat \ {0}
  /\ MaxPayments \in Nat /\ MaxFaults \in Nat

VARIABLES
  exists, demo, left, status,  \* users row: demo and subscription days left, payment_status
  flags,      \* the reminders (3 or 1 days) marked as sent
  request,    \* tariff of the pending payment request, 0 when there is none
  purge,      \* the purge task: "idle", or "selected" this user's id
  reminder,   \* the reminder task: "idle", "sending", "sent"
  kind,       \* which reminder it is sending
  ran,        \* the task of today has run
  told,       \* history: reminder -> times it was delivered in this period
  paid, used, \* history: days bought, days served
  raced,      \* history: a payment was asked for since the purge selected the user
  crossed,    \* history: the reminders being sent when the period began
  payments, faults

userVars == <<exists, demo, left, status, flags, request>>
taskVars == <<purge, reminder, kind, ran>>
histVars == <<told, paid, used, raced, crossed>>
vars == <<userVars, taskVars, histVars, payments, faults>>

Kinds == {3, 1}
NotTold == [k \in Kinds |-> 0]

-----------------------------------------------------------------------------
(* The bot *)

\* upsert_user: /start of a user the database does not know begins a demo.
\* (The new row has a new id: a reminder for a deleted row is over by then.)
Register ==
  /\ ~exists /\ exists' = TRUE /\ reminder = "idle"
  /\ demo' = Demo /\ left' = 0 /\ status' = "none"
  /\ flags' = {} /\ request' = 0
  /\ told' = NotTold /\ paid' = 0 /\ used' = 0 /\ crossed' = {}
  /\ UNCHANGED <<taskVars, raced, payments, faults>>

\* Mutant: the user is not marked.
SubmitPayment_NoStatus(t) ==
  /\ exists /\ request = 0
  /\ payments < MaxPayments /\ payments' = payments + 1
  /\ request' = t /\ raced' = (purge = "selected")
  /\ UNCHANGED <<exists, demo, left, status, flags, taskVars, told, paid, used, crossed,
                 faults>>

\* create_payment_request refuses a second pending request.
SubmitPayment(t) ==
  /\ exists /\ request = 0
  /\ payments < MaxPayments /\ payments' = payments + 1
  /\ request' = t /\ status' = "pending" /\ raced' = (purge = "selected")
  /\ UNCHANGED <<exists, demo, left, flags, taskVars, told, paid, used, crossed, faults>>

\* The reminder whose flag the task has yet to commit
BeingSent == IF reminder = "idle" THEN {} ELSE {kind}

\* Mutant: a renewal counts from now.
Approve_FromNow ==
  /\ exists /\ request # 0
  /\ left' = request
  /\ status' = "active" /\ flags' = {} /\ request' = 0
  /\ paid' = paid + request /\ told' = NotTold /\ crossed' = BeingSent
  /\ UNCHANGED <<exists, demo, taskVars, used, raced, payments, faults>>

\* Mutant: the reminder flags are not reset.
Approve_KeepsFlags ==
  /\ exists /\ request # 0
  /\ left' = left + request
  /\ status' = "active" /\ request' = 0
  /\ paid' = paid + request /\ told' = NotTold /\ crossed' = BeingSent
  /\ UNCHANGED <<exists, demo, flags, taskVars, used, raced, payments, faults>>

\* approve_payment: from the end of a running subscription, else from now.
Approve ==
  /\ exists /\ request # 0
  /\ left' = left + request
  /\ status' = "active" /\ flags' = {} /\ request' = 0
  /\ paid' = paid + request /\ told' = NotTold /\ crossed' = BeingSent
  /\ UNCHANGED <<exists, demo, taskVars, used, raced, payments, faults>>

\* reject_payment
Reject ==
  /\ exists /\ request # 0
  /\ status' = IF status = "pending" THEN "rejected" ELSE status
  /\ request' = 0
  /\ UNCHANGED <<exists, demo, left, flags, taskVars, histVars, payments, faults>>

-----------------------------------------------------------------------------
(* purge_expired_demo_users *)

\* Mutant: only users who never asked to pay are selected.
SelectPurge_OnlyNew ==
  /\ exists /\ purge = "idle"
  /\ demo = 0 /\ left = 0 /\ status = "none"
  /\ purge' = "selected" /\ raced' = FALSE
  /\ UNCHANGED <<userVars, reminder, kind, ran, told, paid, used, crossed, payments, faults>>

\* Mutant: users who wait for an admin are selected too.
SelectPurge_Pending ==
  /\ exists /\ purge = "idle"
  /\ demo = 0 /\ left = 0
  /\ purge' = "selected" /\ raced' = FALSE
  /\ UNCHANGED <<userVars, reminder, kind, ran, told, paid, used, crossed, payments, faults>>

\* The select, and the filter over what it returned.
SelectPurge ==
  /\ exists /\ purge = "idle"
  /\ demo = 0 /\ left = 0 /\ status # "pending"
  /\ purge' = "selected" /\ raced' = FALSE
  /\ UNCHANGED <<userVars, reminder, kind, ran, told, paid, used, crossed, payments, faults>>

\* DELETE by id, whatever the row holds by now; it cascades to the requests.
DeletePurged ==
  /\ purge = "selected" /\ purge' = "idle"
  /\ exists' = FALSE /\ demo' = 0 /\ left' = 0 /\ status' = "none"
  /\ flags' = {} /\ request' = 0
  /\ told' = NotTold /\ paid' = 0 /\ used' = 0 /\ raced' = FALSE /\ crossed' = {}
  /\ UNCHANGED <<reminder, kind, ran, payments, faults>>

-----------------------------------------------------------------------------
(* subscription_reminder_task *)

\* The task loads the users whose subscription runs and finds out who is due.
StartReminder ==
  /\ reminder = "idle" /\ ~ran /\ ran' = TRUE
  /\ IF exists /\ left \in Kinds \ flags
     THEN reminder' = "sending" /\ kind' = left
     ELSE UNCHANGED <<reminder, kind>>
  /\ UNCHANGED <<userVars, purge, histVars, payments, faults>>

\* The message goes out before the flag is committed.  A renewal meanwhile
\* began a period the message says nothing about.
SendReminder ==
  /\ reminder = "sending" /\ reminder' = "sent"
  /\ told' = IF left = kind THEN [told EXCEPT ![kind] = @ + 1] ELSE told
  /\ UNCHANGED <<userVars, purge, kind, ran, paid, used, raced, crossed, payments, faults>>

\* send_telegram_text_sync hides a failure: the flag is set all the same.
SendFails ==
  /\ reminder = "sending" /\ reminder' = "sent"
  /\ faults < MaxFaults /\ faults' = faults + 1
  /\ UNCHANGED <<userVars, purge, kind, ran, histVars, payments>>

\* Mutant: the flags of all reminders are set.
CommitReminder_AllFlags ==
  /\ reminder = "sent" /\ reminder' = "idle"
  /\ flags' = IF exists THEN Kinds ELSE flags
  /\ UNCHANGED <<exists, demo, left, status, request, purge, kind, ran, histVars,
                 payments, faults>>

\* The commit writes the flag the session changed, and no other column.
CommitReminder ==
  /\ reminder = "sent" /\ reminder' = "idle"
  /\ flags' = IF exists THEN flags \cup {kind} ELSE flags
  /\ UNCHANGED <<exists, demo, left, status, request, purge, kind, ran, histVars,
                 payments, faults>>

\* The task dies, and is delivered again (acks_late), or its commit fails.
ReminderFails ==
  /\ reminder # "idle" /\ reminder' = "idle"
  /\ faults < MaxFaults /\ faults' = faults + 1
  /\ ran' \in BOOLEAN
  /\ UNCHANGED <<userVars, purge, kind, histVars, payments>>

-----------------------------------------------------------------------------
CountDown(n) == IF n = 0 THEN 0 ELSE n - 1

\* Midnight, after the beat ran the reminder task of the day.
NextDay ==
  /\ ran /\ ran' = FALSE /\ reminder = "idle"
  /\ left' = CountDown(left) /\ demo' = CountDown(demo)
  /\ used' = IF left > 0 THEN used + 1 ELSE used
  /\ UNCHANGED <<exists, status, flags, request, purge, reminder, kind, told, paid,
                 raced, crossed, payments, faults>>

Init ==
  /\ exists = FALSE /\ demo = 0 /\ left = 0 /\ status = "none" /\ flags = {} /\ request = 0
  /\ purge = "idle" /\ reminder = "idle" /\ kind = 3 /\ ran = FALSE
  /\ told = NotTold /\ paid = 0 /\ used = 0 /\ raced = FALSE /\ crossed = {}
  /\ payments = 0 /\ faults = 0

Reminder == StartReminder \/ SendReminder \/ CommitReminder

Next ==
  \/ Register \/ (\E t \in Tariffs : SubmitPayment(t)) \/ Approve \/ Reject
  \/ SelectPurge \/ DeletePurged
  \/ Reminder \/ SendFails \/ ReminderFails
  \/ NextDay

Spec == Init /\ [][Next]_vars

\* The beat starts both tasks again and again and days pass; users and admins
\* need not do anything.
FairSpec ==
  Spec /\ WF_vars(SelectPurge) /\ WF_vars(DeletePurged) /\ WF_vars(Reminder) /\ WF_vars(NextDay)

-----------------------------------------------------------------------------
TypeOK ==
  /\ exists \in BOOLEAN /\ ran \in BOOLEAN
  /\ demo \in 0 .. Demo /\ left \in Nat /\ paid \in Nat /\ used \in Nat
  /\ status \in {"none", "pending", "active", "rejected"}
  /\ flags \subseteq Kinds /\ kind \in Kinds
  /\ request \in Tariffs \cup {0}
  /\ purge \in {"idle", "selected"} /\ reminder \in {"idle", "sending", "sent"}
  /\ told \in [Kinds -> Nat] /\ raced \in BOOLEAN /\ crossed \subseteq Kinds
  /\ payments \in 0 .. MaxPayments /\ faults \in 0 .. MaxFaults

(***************************************************************************)
(* Every day a user paid for is served or still to come: renewals before   *)
(* and after the end of a subscription neither lose nor add days           *)
(* (subscription.py:79-87).                                                *)
(***************************************************************************)
PaidDaysServed == paid = used + left

(***************************************************************************)
(* The purge deletes nobody who has a running subscription or waits for an *)
(* admin to look at a payment, unless the payment was asked for after the  *)
(* purge had selected its users: it deletes by id and looks at no row      *)
(* again (subscription.py:137-160).                                        *)
(***************************************************************************)
PayingUserKept ==
  [][(exists /\ ~exists') => (left = 0 /\ request = 0) \/ raced]_vars

\* A reminder is left out by a failure, or when the period began while the task
\* was sending the same reminder of the period before.
MayMiss(k) == faults + (IF k \in crossed THEN 1 ELSE 0)

(***************************************************************************)
(* A subscription that runs through its third-last or last day has been    *)
(* announced exactly once on that day, renewed or not, though each failure *)
(* of the task may cost or repeat one reminder, and a renewal that is      *)
(* approved between a message and the commit of its flag, which then       *)
(* stands for the new period, costs that reminder (tasks.py:137-175).      *)
(***************************************************************************)
RemindedOnce ==
  [][\A k \in Kinds : (left = k /\ left' < k /\ exists') =>
         told[k] \in (1 - MayMiss(k)) .. (1 + faults)]_vars

(***************************************************************************)
(* A user whose demo and subscription are over and who asks for nothing is *)
(* removed, also one who has paid before or was rejected                   *)
(* (tasks.py:117-119).                                                     *)
(***************************************************************************)
ExpiredIsPurged ==
  (exists /\ demo = 0 /\ left = 0 /\ status # "pending") ~>
    (~exists \/ left > 0 \/ status = "pending")

(***************************************************************************)
(* The inductive strengthening of PaidDaysServed and PayingUserKept: an    *)
(* open request shows in the status, and nobody who pays is selected by    *)
(* the purge but by a payment since (subscription.py:66, 141-157).         *)
(***************************************************************************)
IInv ==
  /\ TypeOK /\ PaidDaysServed
  /\ (request # 0) => (status = "pending")
  /\ ~exists => (left = 0 /\ request = 0)
  /\ (purge = "selected" /\ ~raced) => (left = 0 /\ request = 0)
-----------------------------------------------------------------------------
(* Why a reminder is sent once *)

\* Before its day nothing has been sent for a reminder, and only a task that the
\* renewal crossed has set its flag.
NotYetTold == \A k \in Kinds : left > k => told[k] = 0 /\ (k \in flags => k \in crossed)

\* A renewal is not due for any reminder.
Renewed == \A k \in Kinds : left > k

\* The task works on the reminder of today, once a day unless it failed, or on
\* one of a period, or of a user, that is over.
TaskOfToday ==
  /\ reminder # "idle" =>
       /\ ran
       /\ (left = kind /\ kind \notin flags) \/ (Renewed /\ kind \in crossed) \/ ~exists
  /\ left \in flags => ran \/ left \in crossed

\* On its day a reminder still to be sent was repeated by failures only, and one
\* that was sent was left out or repeated by failures only, or was crossed.
ToldToday ==
  left \in Kinds =>
    IF ran /\ reminder # "sending" THEN told[left] \in (1 - MayMiss(left)) .. (1 + faults)
    ELSE told[left] \in 0 .. faults

(***************************************************************************)
(* The inductive strengthening of RemindedOnce (tasks.py:137-175).         *)
(***************************************************************************)
RemindInv == IInv /\ NotYetTold /\ TaskOfToday /\ ToldToday
=============================================================================
