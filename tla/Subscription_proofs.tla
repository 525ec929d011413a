-------------------------- MODULE Subscription_proofs --------------------------
(***************************************************************************)
(* Proofs about subscriptions, for any demo, tariffs and number of         *)
(* payments and faults.  They go through IInv: the purge selects by the    *)
(* status of the user, while what it must not delete is his request, so    *)
(* the invariant has to tie the two.                                       *)
(***************************************************************************)
EXTENDS Subscription, TLAPS

\* The empty database satisfies the invariant.
LEMMA InitIInv == Init => IInv
<1> SUFFICES ASSUME Init PROVE IInv
  OBVIOUS
<1>1. exists \in BOOLEAN /\ ran \in BOOLEAN
  BY DEF Init
<1>2. /\ flags \subseteq Kinds /\ kind \in Kinds /\ told \in [Kinds -> Nat]
      /\ raced \in BOOLEAN /\ crossed \subseteq Kinds
  BY DEF Init, NotTold, Kinds
<1>3. /\ demo \in 0 .. Demo /\ left = 0 /\ paid = 0 /\ used = 0 /\ request = 0
      /\ payments \in 0 .. MaxPayments /\ faults \in 0 .. MaxFaults
  BY SubscriptionAssumption DEF Init
<1>4. status = "none" /\ purge = "idle" /\ reminder = "idle"
  BY DEF Init
<1> QED
  BY <1>1, <1>2, <1>3, <1>4 DEF IInv, TypeOK, PaidDaysServed

\* Registration, payments and their answers by the admin.
LEMMA BotIInv ==
  ASSUME IInv, Register \/ (\E t \in Tariffs : SubmitPayment(t)) \/ Approve \/ Reject
  PROVE  IInv'
<1> USE SubscriptionAssumption
    DEF IInv, TypeOK, PaidDaysServed, taskVars, histVars, NotTold, Kinds, BeingSent
<1>1. CASE Register
  BY <1>1 DEF Register
<1>2. CASE \E t \in Tariffs : SubmitPayment(t)
  <2> PICK t \in Tariffs : SubmitPayment(t)
    BY <1>2
  <2>1. raced' \in BOOLEAN /\ (purge = "selected" => raced')
    BY ZenonT(30) DEF SubmitPayment
  <2>2. /\ payments' \in 0 .. MaxPayments /\ request' \in Tariffs /\ status' = "pending"
        /\ UNCHANGED <<exists, demo, left, flags, taskVars, told, paid, used, crossed, faults>>
    BY DEF SubmitPayment
  <2>3. exists'
    BY DEF SubmitPayment
  <2> QED
    BY <2>1, <2>2, <2>3
<1>3. CASE Approve
  <2>1. request \in Nat /\ request # 0
    BY <1>3 DEF Approve
  <2>2. left' \in Nat /\ paid' \in Nat /\ paid' = used' + left'
    BY <1>3, <2>1 DEF Approve
  <2> QED
    BY <1>3, <2>2 DEF Approve
<1>4. CASE Reject
  BY <1>4 DEF Reject
<1> QED
  BY <1>1, <1>2, <1>3, <1>4

\* The steps of the purge.
LEMMA PurgeIInv ==
  ASSUME IInv, SelectPurge \/ DeletePurged
  PROVE  IInv'
<1> USE SubscriptionAssumption
    DEF IInv, TypeOK, PaidDaysServed, userVars, histVars, NotTold, Kinds
<1>1. CASE SelectPurge
  BY <1>1 DEF SelectPurge
<1>2. CASE DeletePurged
  <2>1. exists' \in BOOLEAN /\ ran' \in BOOLEAN
    BY <1>2 DEF DeletePurged
  <2>2. /\ flags' \subseteq Kinds /\ kind' \in Kinds /\ told' \in [Kinds -> Nat]
        /\ raced' \in BOOLEAN /\ crossed' \subseteq Kinds
    BY <1>2 DEF DeletePurged
  <2>3. /\ demo' \in 0 .. Demo /\ left' = 0 /\ paid' = 0 /\ used' = 0 /\ request' = 0
        /\ payments' \in 0 .. MaxPayments /\ faults' \in 0 .. MaxFaults
    BY <1>2 DEF DeletePurged
  <2>4. /\ status' = "none" /\ purge' = "idle"
        /\ reminder' \in {"idle", "sending", "sent"}
    BY <1>2 DEF DeletePurged
  <2> QED
    BY <2>1, <2>2, <2>3, <2>4
<1> QED
  BY <1>1, <1>2

\* The steps of the reminder task, its failures included.
LEMMA ReminderIInv ==
  ASSUME IInv, Reminder \/ SendFails \/ ReminderFails
  PROVE  IInv'
<1> USE SubscriptionAssumption
    DEF IInv, TypeOK, PaidDaysServed, userVars, histVars, NotTold, Kinds
<1>1. CASE StartReminder
  BY <1>1 DEF StartReminder
<1>2. CASE SendReminder
  BY <1>2 DEF SendReminder
<1>3. CASE CommitReminder
  BY <1>3 DEF CommitReminder
<1>4. CASE SendFails
  BY <1>4 DEF SendFails
<1>5. CASE ReminderFails
  BY <1>5 DEF ReminderFails
<1> QED
  BY <1>1, <1>2, <1>3, <1>4, <1>5 DEF Reminder

\* A day goes by.
LEMMA DayIInv == ASSUME IInv, NextDay PROVE IInv'
<1> USE SubscriptionAssumption DEF IInv, TypeOK, PaidDaysServed, Kinds
<1>1. left' \in Nat /\ demo' \in 0 .. Demo
  BY DEF NextDay, CountDown
<1>2. used' \in Nat /\ paid' = used' + left'
  BY DEF NextDay, CountDown
<1>3. (~exists \/ (purge = "selected" /\ ~raced)) => left' = 0
  BY DEF NextDay, CountDown
<1> QED
  BY <1>1, <1>2, <1>3 DEF NextDay

\* Every step keeps the invariant.
LEMMA StepIInv == IInv /\ [Next]_vars => IInv'
<1> SUFFICES ASSUME IInv, [Next]_vars PROVE IInv'
  OBVIOUS
<1>1. CASE Register \/ (\E t \in Tariffs : SubmitPayment(t)) \/ Approve \/ Reject
  BY <1>1, BotIInv
<1>2. CASE SelectPurge \/ DeletePurged
  BY <1>2, PurgeIInv
<1>3. CASE Reminder \/ SendFails \/ ReminderFails
  BY <1>3, ReminderIInv
<1>4. CASE NextDay
  BY <1>4, DayIInv
<1>5. CASE UNCHANGED vars
  BY <1>5 DEF vars, userVars, taskVars, histVars, IInv, TypeOK, PaidDaysServed
<1> QED
  BY <1>1, <1>2, <1>3, <1>4, <1>5 DEF Next

\* The invariant holds in every state, however tasks and payments overlap.
THEOREM Invariant == Spec => []IInv
BY InitIInv, StepIInv, PTL DEF Spec

\* No renewal loses or adds a day.
THEOREM DaysAreServed == Spec => []PaidDaysServed
<1>1. IInv => PaidDaysServed
  BY DEF IInv
<1> QED
  BY <1>1, Invariant, PTL

\* Only the purge deletes a row, and never that of a user who pays, but for a
\* payment asked for since it selected its users (subscription.py:137-160).
THEOREM PurgeKeepsPaying == Spec => PayingUserKept
<1>1. ASSUME IInv, [Next]_vars
      PROVE  [(exists /\ ~exists') => (left = 0 /\ request = 0) \/ raced]_vars
  <2>1. CASE DeletePurged
    BY <1>1, <2>1 DEF DeletePurged, IInv
  <2>2. CASE ~DeletePurged
    <3>1. CASE Register
      BY <3>1 DEF Register
    <3>2. CASE \E t \in Tariffs : SubmitPayment(t)
      BY <3>2 DEF SubmitPayment
    <3>3. CASE Approve \/ Reject
      BY <3>3 DEF Approve, Reject
    <3>4. CASE SelectPurge
      BY <3>4 DEF SelectPurge, userVars
    <3>5. CASE Reminder \/ SendFails \/ ReminderFails
      BY <3>5 DEF Reminder, StartReminder, SendReminder, CommitReminder, SendFails,
        ReminderFails, userVars
    <3>6. CASE NextDay
      BY <3>6 DEF NextDay
    <3>7. CASE UNCHANGED vars
      BY <3>7
    <3> QED
      BY <1>1, <2>2, <3>1, <3>2, <3>3, <3>4, <3>5, <3>6, <3>7 DEF Next
  <2> QED
    BY <2>1, <2>2
<1> QED
  BY <1>1, Invariant, PTL DEF Spec, PayingUserKept

-----------------------------------------------------------------------------
\* Every tariff outlasts the first reminder: they are months of 30 days
\* (subscription.py:87), and a renewal begins before any reminder is due.
LongTariffs == \A t \in Tariffs : \A k \in Kinds : t > k

LEMMA InitRemind == Init => RemindInv
BY InitIInv DEF Init, RemindInv, NotYetTold, TaskOfToday, ToldToday, Kinds

\* Steps that leave the subscription, its reminders and the task alone.
LEMMA StutterRemind ==
  ASSUME RemindInv, IInv', UNCHANGED <<left, flags, reminder, kind, ran, told, faults>>,
         UNCHANGED <<exists, crossed>>
  PROVE  RemindInv'
BY DEF RemindInv, NotYetTold, TaskOfToday, ToldToday, MayMiss, Renewed

\* A new period begins with nothing sent, and none of its reminders is due.
LEMMA PeriodRemind ==
  ASSUME IInv', flags' = {}, told' = NotTold, left' \notin Kinds,
         reminder' # "idle" =>
           ran' /\ ((Renewed' /\ kind' \in crossed') \/ ~exists')
  PROVE  RemindInv'
<1>1. \A k \in Kinds : told'[k] = 0
  BY DEF NotTold
<1> QED
  BY <1>1 DEF RemindInv, NotYetTold, TaskOfToday, ToldToday

\* The row comes when no reminder is being sent, and may go while one is.
LEMMA RowRemind ==
  ASSUME RemindInv, Register \/ DeletePurged
  PROVE  RemindInv'
<1> USE DEF RemindInv
<1>1. IInv'
  BY BotIInv, PurgeIInv
<1>2. CASE Register
  BY <1>1, <1>2, PeriodRemind DEF Register, Kinds, taskVars
<1>3. CASE DeletePurged
  <2>1. reminder' # "idle" => ran' /\ ~exists'
    BY <1>3 DEF DeletePurged, TaskOfToday
  <2> QED
    BY <1>1, <1>3, <2>1, PeriodRemind DEF DeletePurged, Kinds
<1> QED
  BY <1>2, <1>3

\* A renewal is not yet due for a reminder; the task may be at one.
LEMMA ApproveRemind ==
  ASSUME LongTariffs, RemindInv, Approve
  PROVE  RemindInv'
<1> USE DEF RemindInv
<1>1. IInv'
  BY BotIInv
<1>2. request \in Tariffs /\ request \in Nat /\ left \in Nat
  BY SubscriptionAssumption DEF Approve, IInv, TypeOK
<1>3. left' = left + request /\ \A k \in Kinds : request > k
  BY <1>2 DEF Approve, LongTariffs
<1>4. left' \notin Kinds /\ Renewed'
  BY <1>2, <1>3 DEF Kinds, Renewed
<1>5. reminder' # "idle" => ran' /\ kind' \in crossed'
  BY DEF Approve, BeingSent, TaskOfToday, taskVars
<1> QED
  BY <1>1, <1>4, <1>5, PeriodRemind DEF Approve

\* The task sends the reminder of the day, or fails and counts as a fault.
LEMMA TaskRemind ==
  ASSUME RemindInv, Reminder \/ SendFails \/ ReminderFails
  PROVE  RemindInv'
<1> USE DEF RemindInv
<1>1. IInv'
  BY ReminderIInv
<1>2. /\ left \in Nat /\ faults \in Nat /\ told \in [Kinds -> Nat] /\ faults' \in Nat
      /\ kind \in Kinds /\ left' = left /\ exists' = exists /\ crossed' = crossed
  BY <1>1, SubscriptionAssumption
  DEF IInv, TypeOK, Reminder, StartReminder, SendReminder, CommitReminder, SendFails,
      ReminderFails, userVars, histVars
<1>3. reminder # "idle" /\ left \in Kinds => left = kind /\ kind \notin flags
  BY <1>2 DEF IInv, TaskOfToday, Renewed, Kinds
<1> USE <1>1, <1>2
<1>5. CASE StartReminder
  <2>1. /\ reminder = "idle" /\ ran = FALSE /\ ran' = TRUE
        /\ UNCHANGED <<flags, told, faults>>
        /\ exists /\ left \in Kinds \ flags => reminder' = "sending" /\ kind' = left
        /\ ~(exists /\ left \in Kinds \ flags) => UNCHANGED <<reminder, kind>>
    BY <1>5 DEF StartReminder, userVars, histVars, IInv, TypeOK
  <2>2. NotYetTold' /\ TaskOfToday'
    BY <2>1 DEF NotYetTold, TaskOfToday
  <2>3. ASSUME left \in Kinds
        PROVE  /\ told[left] \in 0 .. faults /\ exists
               /\ left \in flags => left \in crossed
    BY <2>1, <2>3 DEF ToldToday, TaskOfToday, IInv, Kinds
  <2>4. ToldToday'
    <3>1. left \in Kinds /\ left \in flags => MayMiss(left)' = faults + 1
      BY <2>1, <2>3 DEF MayMiss
    <3> QED
      BY <2>1, <2>3, <3>1 DEF ToldToday
  <2> QED
    BY <2>2, <2>4
<1>6. CASE SendReminder
  <2>1. /\ reminder = "sending" /\ reminder' = "sent" /\ ran
        /\ UNCHANGED <<flags, kind, ran, faults>>
        /\ told' = IF left = kind THEN [told EXCEPT ![kind] = @ + 1] ELSE told
    BY <1>6 DEF SendReminder, TaskOfToday, userVars
  <2>2. /\ left \in Kinds => left = kind /\ told[left] \in 0 .. faults /\ told'[left] = told[left] + 1
        /\ \A k \in Kinds : left > k => told'[k] = told[k]
    BY <1>3, <2>1 DEF ToldToday
  <2>3. ToldToday'
    <3>1. left \in Kinds => MayMiss(left)' \in {faults, faults + 1}
      BY <2>1 DEF MayMiss
    <3> QED
      BY <2>1, <2>2, <3>1 DEF ToldToday
  <2>4. NotYetTold' /\ TaskOfToday'
    BY <2>1, <2>2 DEF NotYetTold, TaskOfToday, Renewed
  <2> QED
    BY <2>3, <2>4
<1>7. CASE SendFails
  <2>1. /\ reminder = "sending" /\ reminder' = "sent" /\ ran
        /\ UNCHANGED <<flags, kind, ran, told>> /\ faults' = faults + 1
    BY <1>7 DEF SendFails, TaskOfToday, userVars, histVars
  <2>2. left \in Kinds => told[left] \in 0 .. faults
    BY <2>1 DEF ToldToday
  <2>3. ToldToday'
    <3>1. left \in Kinds => MayMiss(left)' \in {faults + 1, faults + 2}
      BY <2>1 DEF MayMiss
    <3> QED
      BY <2>1, <2>2, <3>1 DEF ToldToday
  <2>4. NotYetTold' /\ TaskOfToday'
    BY <2>1 DEF NotYetTold, TaskOfToday, Renewed
  <2> QED
    BY <2>3, <2>4
<1>8. CASE CommitReminder
  <2>1. /\ reminder = "sent" /\ reminder' = "idle" /\ ran /\ ran' = ran
        /\ UNCHANGED <<kind, told, faults>>
        /\ flags' = IF exists THEN flags \cup {kind} ELSE flags
    BY <1>8 DEF CommitReminder, TaskOfToday, histVars
  <2>2. NotYetTold'
    BY <2>1 DEF NotYetTold, TaskOfToday, IInv
  <2>3. TaskOfToday' /\ ToldToday'
    BY <2>1 DEF TaskOfToday, ToldToday, MayMiss
  <2> QED
    BY <2>2, <2>3
<1>9. CASE ReminderFails
  <2>1. /\ reminder # "idle" /\ reminder' = "idle" /\ ran /\ ran' \in BOOLEAN
        /\ UNCHANGED <<flags, kind, told>> /\ faults' = faults + 1
    BY <1>9 DEF ReminderFails, TaskOfToday, userVars, histVars
  <2>2. left \in Kinds => told[left] \in (0 - faults) .. faults + 1 /\ told[left] \in Nat
    <3>1. left \in Kinds => MayMiss(left) \in {faults, faults + 1}
      BY DEF MayMiss
    <3> QED
      BY <3>1 DEF ToldToday
  <2>3. ToldToday'
    <3>1. left \in Kinds => MayMiss(left)' \in {faults + 1, faults + 2}
      BY <2>1 DEF MayMiss
    <3> QED
      BY <2>1, <2>2, <3>1 DEF ToldToday
  <2>4. left \in flags => left \in crossed
    BY <1>3, <2>1 DEF NotYetTold, TaskOfToday, Renewed, IInv, TypeOK, Kinds
  <2>5. NotYetTold' /\ TaskOfToday'
    BY <2>1, <2>4 DEF NotYetTold, TaskOfToday
  <2> QED
    BY <2>3, <2>5
<1> QED
  BY <1>5, <1>6, <1>7, <1>8, <1>9 DEF Reminder

\* The next day may be the day of a reminder.
LEMMA DayRemind == ASSUME RemindInv, NextDay PROVE RemindInv'
<1> USE DEF RemindInv
<1>1. IInv'
  BY DayIInv
<1>2. left \in Nat /\ faults \in Nat /\ left' = CountDown(left)
  BY DEF IInv, TypeOK, NextDay
<1>3. ran' = FALSE /\ reminder' = "idle" /\ UNCHANGED <<flags, told, faults, crossed>>
  BY DEF NextDay
<1>4. \A k \in Kinds : left' >= k => left > k
  BY <1>2 DEF CountDown, Kinds
<1>5. NotYetTold'
  BY <1>2, <1>3, <1>4 DEF NotYetTold, Kinds, CountDown
<1>6. ASSUME left' \in Kinds PROVE (left' \in flags' => left' \in crossed') /\ told'[left'] = 0
  <2>1. left' \in Nat /\ left' >= left'
    BY <1>2 DEF CountDown
  <2>2. left > left'
    BY <1>4, <1>6, <2>1
  <2> QED
    BY <1>3, <1>6, <2>2 DEF NotYetTold
<1>7. left' \notin Kinds => left' \notin flags'
  BY <1>1 DEF IInv, TypeOK
<1>8. TaskOfToday' /\ ToldToday'
  BY <1>2, <1>3, <1>6, <1>7 DEF TaskOfToday, ToldToday
<1> QED
  BY <1>1, <1>5, <1>8

\* Every step keeps RemindInv.
LEMMA StepRemind ==
  ASSUME LongTariffs, RemindInv, [Next]_vars
  PROVE  RemindInv'
<1>1. IInv'
  BY StepIInv DEF RemindInv
<1>2. CASE (\E t \in Tariffs : SubmitPayment(t)) \/ Reject \/ SelectPurge \/ UNCHANGED vars
  BY <1>1, <1>2, StutterRemind
  DEF SubmitPayment, Reject, SelectPurge, userVars, taskVars, histVars, vars
<1>3. CASE Register \/ DeletePurged
  BY <1>3, RowRemind
<1>4. CASE Approve
  BY <1>4, ApproveRemind
<1>5. CASE Reminder \/ SendFails \/ ReminderFails
  BY <1>5, TaskRemind
<1>6. CASE NextDay
  BY <1>6, DayRemind
<1> QED
  BY <1>2, <1>3, <1>4, <1>5, <1>6 DEF Next

(***************************************************************************)
(* The reminder of a day is sent once and its flag committed, but for      *)
(* failures and for a renewal in the middle of it (tasks.py:137-175).      *)
(***************************************************************************)
THEOREM RemindersAreKept ==
  ASSUME LongTariffs
  PROVE  Spec => []RemindInv
<1>1. RemindInv /\ [Next]_vars => RemindInv'
  BY StepRemind
<1> QED
  BY <1>1, InitRemind, PTL DEF Spec

(***************************************************************************)
(* Nobody passes the third-last or last day of a subscription without      *)
(* exactly one reminder, unless a failure left it out or repeated it, or   *)
(* the period began while the same reminder of the last one was being sent *)
(* (tasks.py:137-175).                                                     *)
(***************************************************************************)
THEOREM OneReminderADay ==
  ASSUME LongTariffs
  PROVE  Spec => RemindedOnce
<1>1. ASSUME RemindInv, [Next]_vars
      PROVE  [\A k \in Kinds : (left = k /\ left' < k /\ exists') =>
                 told[k] \in (1 - MayMiss(k)) .. (1 + faults)]_vars
  <2> USE <1>1 DEF RemindInv
  <2> SUFFICES ASSUME NEW k \in Kinds, left = k, left' < k, exists'
               PROVE  told[k] \in (1 - MayMiss(k)) .. (1 + faults)
    OBVIOUS
  <2>1. left \in Nat /\ k # 0 /\ exists
    BY DEF IInv, TypeOK, Kinds
  <2>2. NextDay
    <3>1. ~Register /\ ~DeletePurged
      BY <2>1 DEF Register, DeletePurged
    <3>2. ~Approve
      BY <2>1, SubscriptionAssumption DEF Approve, IInv, TypeOK
    <3>3. left' # left
      BY <2>1
    <3> QED
      BY <1>1, <3>1, <3>2, <3>3
      DEF Next, SubmitPayment, Reject, SelectPurge, Reminder, StartReminder, SendReminder,
          CommitReminder, SendFails, ReminderFails, userVars, vars
  <2>3. ran /\ reminder = "idle"
    BY <2>2 DEF NextDay
  <2> QED
    BY <2>3 DEF ToldToday
<1> QED
  BY <1>1, RemindersAreKept, PTL DEF Spec, RemindedOnce
=============================================================================
