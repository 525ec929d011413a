------------------------- MODULE CampaignRound_proofs -------------------------
(***************************************************************************)
(* Proofs about campaign rounds, for any workers, groups, intervals and    *)
(* bounds, with and without failures.  First what holds whatever fails     *)
(* (IInv, Rested); then what holds while Redis does not: the texts         *)
(* (TextsAgree, TextInv) and the signals (SignalInv).                      *)
(***************************************************************************)
EXTENDS CampaignRound, TLAPS

\* The longest interval exists and bounds every delay of a reschedule.
LEMMA MaxIntervalType ==
  /\ MaxInterval \in Intervals
  /\ \A i \in Intervals : i <= MaxInterval
  /\ MaxInterval \in Nat \ {0}
<1>1. \E i \in Intervals : \A j \in Intervals : j <= i
  BY RoundAssumption
<1>2. MaxInterval \in Intervals /\ \A j \in Intervals : j <= MaxInterval
  BY <1>1 DEF MaxInterval
<1> QED
  BY <1>2, RoundAssumption

\* Every delay is at most the longest of the two.
LEMMA DelayType ==
  \A d \in Intervals \cup {0, FastDelay} : d \in 0 .. Later(MaxInterval, FastDelay)
<1> TAKE d \in Intervals \cup {0, FastDelay}
<1>1. d \in Nat /\ FastDelay \in Nat /\ MaxInterval \in Nat
  BY MaxIntervalType, RoundAssumption
<1>2. d <= MaxInterval \/ d <= FastDelay
  BY <1>1, MaxIntervalType, RoundAssumption
<1> QED
  BY <1>1, <1>2 DEF Later

-----------------------------------------------------------------------------
(* Types *)

\* The empty values have their types.
LEMMA EmptyTypes ==
  /\ NoSnap \in Snapshots /\ NoMsg \in Messages /\ NoOp \in Handlers
  /\ 0 \in 0 .. IterMax /\ 0 \in Texts /\ 1 \in Texts
<1>1. 0 \in Texts /\ 1 \in Texts /\ 0 \in 0 .. IterMax
  BY RoundAssumption DEF Texts
<1> QED
  BY <1>1 DEF NoSnap, NoMsg, NoOp, NoText, Snapshots, Messages, Handlers, BotSteps

\* In the beginning everything has its type.
LEMMA InitTypes == Init => TypeOK /\ BotIsSound
<1> SUFFICES ASSUME Init PROVE TypeOK /\ BotIsSound
  OBVIOUS
<1>1. /\ revoked \in [Workers -> BOOLEAN] /\ lost \in BOOLEAN /\ late \in BOOLEAN
      /\ since \in [Workers -> {NotTold} \cup Nat]
  BY DEF Init
<1>2. RoundTypes
  BY <1>1, EmptyTypes DEF Init, RoundTypes, Labels
<1>3. dueIn \in 0 .. Later(MaxInterval, FastDelay) /\ rest \in 0 .. MaxInterval
  BY RoundAssumption, MaxIntervalType DEF Init, Later
<1>4. SharedTypes
  BY <1>3, RoundAssumption, EmptyTypes DEF Init, SharedTypes, NoText, Lock!Init
<1>5. HistoryTypes
  BY <1>1, <1>3, RoundAssumption DEF Init, HistoryTypes
<1>6. BotIsSound
  BY DEF Init, BotIsSound, NoOp, NoText
<1> QED
  BY <1>2, <1>4, <1>5, <1>6 DEF TypeOK

\* A closed session has nothing left of its round.
LEMMA CloseTypes ==
  ASSUME RoundTypes, NEW w \in Workers, NEW l \in Labels, Close(w), Goto(w, l)
  PROVE  RoundTypes'
<1>1. revoked' \in [Workers -> BOOLEAN] /\ since' \in [Workers -> {NotTold} \cup Nat]
  BY DEF RoundTypes, Close
<1> QED
  BY <1>1, EmptyTypes DEF RoundTypes, Close, Goto

\* An exception changes nothing of the database and counts as a fault.
LEMMA AbortTypes ==
  ASSUME RoundTypes, HistoryTypes, NEW w \in Workers, Abort(w),
         UNCHANGED <<sent, staleSends, rest, late, ops>>
  PROVE  RoundTypes' /\ HistoryTypes'
<1>1. RoundTypes'
  BY CloseTypes DEF Abort, Labels
<1>2. lost' \in BOOLEAN
  BY DEF Abort, HistoryTypes
<1> QED
  BY <1>1, <1>2 DEF Abort, HistoryTypes

\* Steps that leave the database, the signals and the bot alone.
LEMMA SharedSame ==
  ASSUME SharedTypes, BotIsSound,
         UNCHANGED <<status, interval, text, groups, rows, dueIn, textKey, revoke, lock, queue,
                     bot, ops>>
  PROVE  SharedTypes' /\ BotIsSound'
BY DEF SharedTypes, BotIsSound

\* Steps that leave the rounds alone.
LEMMA RoundSame == ASSUME RoundTypes, UNCHANGED roundVars PROVE RoundTypes'
BY DEF RoundTypes, roundVars, workVars

\* Rounds are told of a signal, if anything.
LEMMA ToldSame ==
  ASSUME RoundTypes, UNCHANGED workVars, Tell \/ UNCHANGED since
  PROVE  RoundTypes'
<1>1. since' \in [Workers -> {NotTold} \cup Nat]
  BY DEF RoundTypes, Tell
<1> QED
  BY <1>1 DEF RoundTypes, workVars

\* Steps that leave the history alone.
LEMMA HistorySame == ASSUME HistoryTypes, UNCHANGED <<histVars, ops, faults>> PROVE HistoryTypes'
BY DEF HistoryTypes, histVars

\* Enqueueing, locks and keys that expire.
LEMMA SchedulingTypes ==
  ASSUME TypeOK, BotIsSound,
         Beat \/ LockExpires \/ ExpireTextKey \/ \E w \in Workers : StartTask(w)
  PROVE  TypeOK' /\ BotIsSound'
<1> USE RoundAssumption DEF TypeOK, dbVars, redisVars
<1>1. CASE Beat
  <2>1. SharedTypes' /\ BotIsSound'
    BY <1>1 DEF Beat, SharedTypes, BotIsSound
  <2> QED
    BY <1>1, <2>1, RoundSame, HistorySame DEF Beat
<1>2. CASE \E w \in Workers : StartTask(w)
  <2> PICK w \in Workers : StartTask(w)
    BY <1>2
  <2>1. SharedTypes' /\ BotIsSound'
    BY DEF StartTask, Lock!Acquire, Lock!Abandon, SharedTypes, BotIsSound
  <2>2. RoundTypes'
    BY DEF StartTask, RoundTypes, Goto, Labels
  <2> QED
    BY <2>1, <2>2, HistorySame DEF StartTask
<1>3. CASE LockExpires
  <2>1. SharedTypes' /\ BotIsSound'
    BY <1>3 DEF LockExpires, Lock!Expire, SharedTypes, BotIsSound
  <2> QED
    BY <1>3, <2>1, RoundSame, HistorySame DEF LockExpires
<1>4. CASE ExpireTextKey
  <2>1. SharedTypes' /\ BotIsSound'
    BY <1>4, EmptyTypes DEF ExpireTextKey, NoText, SharedTypes, BotIsSound, HistoryTypes
  <2> QED
    BY <1>4, <2>1, RoundSame, HistorySame DEF ExpireTextKey
<1> QED
  BY <1>1, <1>2, <1>3, <1>4

\* A round loads the committed text and has no plan yet, or it leaves.
LEMMA LoadedSnap ==
  ASSUME RoundTypes, NEW w \in Workers, LoadCampaign(w)
  PROVE  \/ snap'[w].text = text /\ snap'[w].plan = {}
         \/ snap' = snap /\ pc'[w] = "leaving"
<1>1. snap \in [Workers -> Snapshots] /\ pc \in [Workers -> Labels]
  BY DEF RoundTypes
<1>2. CASE status = "running" /\ dueIn = 0
  <2>1. snap' = [snap EXCEPT ![w] = [NoSnap EXCEPT !.text = text, !.interval = interval]]
    BY <1>2 DEF LoadCampaign
  <2>2. snap'[w] = [NoSnap EXCEPT !.text = text, !.interval = interval]
    BY <1>1, <2>1
  <2> QED
    BY <2>2 DEF NoSnap
<1>3. CASE ~(status = "running" /\ dueIn = 0)
  BY <1>1, <1>3 DEF LoadCampaign, Goto
<1> QED
  BY <1>2, <1>3

\* Reading the groups leaves the rest of the snapshot alone.
LEMMA GroupsOnly ==
  ASSUME RoundTypes, NEW w \in Workers, ReadGroups(w)
  PROVE  snap'[w].text = snap[w].text /\ snap'[w].plan = snap[w].plan
<1>1. snap' = [snap EXCEPT ![w].groups = groups]
  BY DEF ReadGroups
<1>2. snap \in [Workers -> Snapshots] /\ snap[w] \in Snapshots
  BY DEF RoundTypes
<1>3. snap'[w] = [snap[w] EXCEPT !.groups = groups]
  BY <1>1, <1>2
<1> QED
  BY <1>2, <1>3 DEF Snapshots

\* The steps of a round up to its plan.
LEMMA PlanningTypes ==
  ASSUME TypeOK, BotIsSound, NEW w \in Workers,
         LoadCampaign(w) \/ ReadGroups(w) \/ EntryRevoke(w) \/ PlanRound(w)
  PROVE  TypeOK' /\ BotIsSound'
<1> USE RoundAssumption DEF TypeOK, dbVars, redisVars
<1>1. SharedTypes' /\ BotIsSound'
  BY SharedSame DEF LoadCampaign, ReadGroups, EntryRevoke, PlanRound
<1>2. CASE LoadCampaign(w)
  <2>1. [NoSnap EXCEPT !.text = text, !.interval = interval] \in Snapshots
    BY EmptyTypes DEF NoSnap, Snapshots, SharedTypes
  <2>2. RoundTypes'
    BY <1>2, <2>1 DEF LoadCampaign, RoundTypes, Goto, Labels
  <2> QED
    BY <1>1, <1>2, <2>2, HistorySame DEF LoadCampaign
<1>3. CASE ReadGroups(w)
  <2>1. [snap[w] EXCEPT !.groups = groups] \in Snapshots
    <3>1. snap[w] \in Snapshots /\ groups \in SUBSET Groups
      BY DEF SharedTypes, RoundTypes
    <3> HIDE RoundAssumption DEF TypeOK
    <3> QED
      BY ONLY <3>1 DEF Snapshots
  <2>2. snap' = [snap EXCEPT ![w] = [snap[w] EXCEPT !.groups = groups]]
    BY <1>3 DEF ReadGroups
  <2>3. RoundTypes'
    BY <1>3, <2>1, <2>2 DEF ReadGroups, RoundTypes, Goto, Labels
  <2> QED
    BY <1>1, <1>3, <2>3, HistorySame DEF ReadGroups
<1>4. CASE EntryRevoke(w)
  <2>1. revoked' \in [Workers -> BOOLEAN]
    BY <1>4 DEF EntryRevoke, RoundTypes
  <2>2. RoundTypes'
    BY <1>4, <2>1 DEF EntryRevoke, RoundTypes, Goto, Labels
  <2> QED
    BY <1>1, <1>4, <2>2, HistorySame DEF EntryRevoke
<1>5. CASE PlanRound(w)
  <2>1. PICK plan \in SUBSET snap[w].groups, open \in SUBSET snap[w].groups :
          \/ Abort(w)
          \/ /\ todo' = [todo EXCEPT ![w] = plan]
             /\ snap' = [snap EXCEPT ![w].plan = plan]
             /\ pend' = [pend EXCEPT ![w] = open]
             /\ revoked' = [revoked EXCEPT ![w] = @ /\ plan # {}]
             /\ Goto(w, IF plan = {} THEN "finishing" ELSE "head")
             /\ UNCHANGED <<msg, outs, left, since, lost, faults>>
    BY <1>5 DEF PlanRound
  <2>2. CASE Abort(w)
    BY <1>1, <1>5, <2>2, AbortTypes DEF PlanRound
  <2>3. CASE ~Abort(w)
    <3>1. snap[w] \in Snapshots /\ plan \subseteq Groups /\ open \subseteq Groups
      BY DEF RoundTypes, Snapshots
    <3>2. [snap[w] EXCEPT !.plan = plan] \in Snapshots
      BY <3>1 DEF Snapshots
    <3>3. snap' = [snap EXCEPT ![w] = [snap[w] EXCEPT !.plan = plan]]
      BY <2>1, <2>3
    <3>4. revoked' \in [Workers -> BOOLEAN]
      BY <2>1, <2>3 DEF RoundTypes
    <3>5. pc' \in [Workers -> Labels]
      BY <2>1, <2>3 DEF RoundTypes, Goto, Labels
    <3>6. RoundTypes'
      BY <2>1, <2>3, <3>1, <3>2, <3>3, <3>4, <3>5 DEF RoundTypes
    <3>7. HistoryTypes'
      BY <1>5, <2>1, <2>3 DEF PlanRound, HistoryTypes
    <3> QED
      BY <1>1, <3>6, <3>7
  <2> QED
    BY <2>2, <2>3
<1> QED
  BY <1>2, <1>3, <1>4, <1>5

\* The send loop.
LEMMA SendingTypes ==
  ASSUME TypeOK, BotIsSound, NEW w \in Workers,
         CheckRevoke(w) \/ PickGroup(w) \/ RateSlotError(w) \/ Deliver(w) \/ SendFails(w)
  PROVE  TypeOK' /\ BotIsSound'
<1> USE RoundAssumption DEF TypeOK, dbVars, redisVars, histVars
<1>1. SharedTypes' /\ BotIsSound'
  BY SharedSame DEF CheckRevoke, PickGroup, RateSlotError, Deliver, SendFails
<1>2. CASE CheckRevoke(w)
  <2>1. RoundTypes'
    BY <1>2, EmptyTypes DEF CheckRevoke, RoundTypes, Goto, Labels
  <2> QED
    BY <1>1, <1>2, <2>1, HistorySame DEF CheckRevoke
<1>3. CASE PickGroup(w)
  <2>1. PICK g \in todo[w], t \in {textKey, snap[w].text} :
          /\ todo' = [todo EXCEPT ![w] = @ \ {g}]
          /\ msg' = [msg EXCEPT ![w] = [group |-> {g}, text |-> t]]
    BY <1>3 DEF PickGroup
  <2>2. [group |-> {g}, text |-> t] \in Messages
    BY DEF Messages, RoundTypes, SharedTypes, Snapshots
  <2>3. IterMax \in 0 .. IterMax
    OBVIOUS
  <2>4. RoundTypes'
    BY <1>3, <2>1, <2>2, <2>3 DEF PickGroup, RoundTypes, Goto, Labels
  <2> QED
    BY <1>1, <1>3, <2>4, HistorySame DEF PickGroup
<1>4. CASE RateSlotError(w)
  <2>1. RoundTypes'
    BY <1>4, EmptyTypes DEF RateSlotError, RoundTypes, Goto, Labels
  <2>2. lost' \in BOOLEAN
    BY <1>4 DEF RateSlotError, HistoryTypes
  <2> QED
    BY <1>1, <1>4, <2>1, <2>2 DEF RateSlotError, HistoryTypes
<1>5. msg[w].group \subseteq Groups
  BY DEF RoundTypes, Messages
<1>6. CASE Deliver(w)
  <2>1. RoundTypes'
    <3>1. since' \in [Workers -> {NotTold} \cup Nat]
      BY <1>6 DEF Deliver, RoundTypes, Told, NotTold
    <3> QED
      BY <1>5, <1>6, <3>1, EmptyTypes DEF Deliver, Outcome, RoundTypes, Goto, Labels
  <2>2. sent' \in [Groups -> Nat] /\ staleSends' \in Nat
    BY <1>6 DEF Deliver, HistoryTypes
  <2> QED
    BY <1>1, <1>6, <2>1, <2>2 DEF Deliver, HistoryTypes
<1>7. CASE SendFails(w)
  <2>1. RoundTypes'
    BY <1>5, <1>7, EmptyTypes DEF SendFails, Outcome, RoundTypes, Goto, Labels
  <2> QED
    BY <1>1, <1>7, <2>1, HistorySame DEF SendFails
<1> QED
  BY <1>2, <1>3, <1>4, <1>6, <1>7

\* Recording, rescheduling and the end of a round.
LEMMA RecordingTypes ==
  ASSUME TypeOK, BotIsSound, NEW w \in Workers,
         MidRevoke(w) \/ Record(w) \/ FinishSchedule(w) \/ ClearRevoke(w)
  PROVE  TypeOK' /\ BotIsSound'
<1> USE RoundAssumption DEF TypeOK, dbVars, redisVars, histVars
<1>1. CASE MidRevoke(w)
  <2>1. revoked' \in [Workers -> BOOLEAN]
    BY <1>1 DEF MidRevoke, RoundTypes
  <2>2. RoundTypes'
    BY <1>1, <2>1 DEF MidRevoke, RoundTypes, Goto, Labels
  <2> QED
    BY <1>1, <2>2, SharedSame, HistorySame DEF MidRevoke
<1>2. CASE Record(w)
  <2>1. SharedTypes' /\ BotIsSound'
    BY <1>2, SharedSame DEF Record
  <2>2. CASE Abort(w)
    BY <1>2, <2>1, <2>2, AbortTypes DEF Record
  <2>3. CASE ~Abort(w)
    <3>1. PICK g \in outs[w] :
            /\ outs' = [outs EXCEPT ![w] = @ \ {g}]
            /\ \/ pend' = [pend EXCEPT ![w] = {}]
               \/ pend' = [pend EXCEPT ![w] = pend[w] \cup {g}]
            /\ UNCHANGED <<pc, snap, todo, msg, revoked, left, since, lost, faults>>
      BY <1>2, <2>3 DEF Record
    <3>2. RoundTypes'
      BY <3>1 DEF RoundTypes
    <3> QED
      BY <1>2, <2>1, <3>1, <3>2, HistorySame DEF Record
  <2> QED
    BY <2>2, <2>3
<1>3. CASE FinishSchedule(w)
  <2>1. CASE Abort(w) /\ UNCHANGED <<dueIn, rest, sent>>
    BY <1>3, <2>1, AbortTypes, SharedSame DEF FinishSchedule
  <2>2. CASE Reschedule(w) /\ UNCHANGED <<snap, todo, msg, outs, revoked, left, since, lost, faults>>
    <3>1. snap[w].interval \in Intervals \cup {0}
      BY DEF RoundTypes, Snapshots
    <3>2. /\ dueIn' \in {FastDelay, snap[w].interval}
          /\ rest' \in {MaxInterval, 0}
      BY <2>2, Zenon DEF Reschedule
    <3>3. dueIn' \in 0 .. Later(MaxInterval, FastDelay) /\ rest' \in 0 .. MaxInterval
      <4>1. dueIn' \in Intervals \cup {0, FastDelay}
        BY <3>1, <3>2
      <4>2. rest' \in 0 .. MaxInterval
        BY <3>2, MaxIntervalType
      <4> QED
        BY <4>1, <4>2, DelayType, Zenon
    <3>4. SharedTypes' /\ BotIsSound'
      BY <1>3, <3>3 DEF FinishSchedule, SharedTypes, BotIsSound
    <3>5. RoundTypes'
      BY <2>2 DEF Reschedule, RoundTypes, Goto, Labels
    <3>6. HistoryTypes'
      BY <1>3, <2>2, <3>3 DEF FinishSchedule, Reschedule, HistoryTypes
    <3> QED
      BY <3>4, <3>5, <3>6
  <2> QED
    BY <1>3, <2>1, <2>2 DEF FinishSchedule
<1>4. CASE ClearRevoke(w)
  <2>1. SharedTypes' /\ BotIsSound'
    BY <1>4 DEF ClearRevoke, SharedTypes, BotIsSound
  <2>2. RoundTypes'
    BY <1>4 DEF ClearRevoke, RoundTypes, Goto, Labels
  <2> QED
    BY <1>4, <2>1, <2>2, HistorySame DEF ClearRevoke
<1> QED
  BY <1>1, <1>2, <1>3, <1>4

\* A round ends, is cut off, or dies with its process.
LEMMA EndingTypes ==
  ASSUME TypeOK, BotIsSound, NEW w \in Workers,
         EndTask(w) \/ TimeLimit(w) \/ Crash(w)
  PROVE  TypeOK' /\ BotIsSound'
<1> USE RoundAssumption DEF TypeOK, dbVars, redisVars, histVars
<1>1. RoundTypes'
  BY CloseTypes DEF EndTask, TimeLimit, Crash, Labels
<1>2. SharedTypes' /\ BotIsSound'
  BY DEF EndTask, TimeLimit, Crash, Lock!Release, Lock!Abandon, SharedTypes, BotIsSound
<1>3. HistoryTypes'
  BY DEF EndTask, TimeLimit, Crash, HistoryTypes
<1> QED
  BY <1>1, <1>2, <1>3

\* The clock.
LEMMA TickTypes == ASSUME TypeOK, BotIsSound, Tick PROVE TypeOK' /\ BotIsSound'
<1> USE RoundAssumption DEF TypeOK
<1>1. /\ dueIn' \in 0 .. Later(MaxInterval, FastDelay) /\ revoke' \in 0 .. RevokeTTL
      /\ rest' \in 0 .. MaxInterval
  BY MaxIntervalType DEF Tick, CountDown, SharedTypes, HistoryTypes, Later
<1>2. left' \in [Workers -> 0 .. IterMax]
  BY DEF Tick, CountDown, RoundTypes
<1>3. bot' \in Handlers /\ (bot' = bot \/ (bot.op \in {"grace", "rival"} /\ bot'.op = bot.op))
  <2>1. bot \in Handlers
    BY DEF SharedTypes
  <2>2. \A v \in Nat : [bot EXCEPT !.val = v] \in Handlers /\ [bot EXCEPT !.val = v].op = bot.op
    BY <2>1 DEF Handlers
  <2>3. bot.val \in Nat
    BY <2>1 DEF Handlers
  <2>4. CASE bot.op = "grace" /\ bot.val > 0 /\ bot' = [bot EXCEPT !.val = bot.val - 1]
    BY <2>2, <2>3, <2>4
  <2>5. CASE bot.op = "rival" /\ bot' = [bot EXCEPT !.val = bot.val + 1]
    BY <2>2, <2>3, <2>5
  <2> QED
    BY <2>1, <2>4, <2>5 DEF Tick, BotWaits
<1>4. SharedTypes' /\ BotIsSound'
  BY <1>1, <1>3 DEF Tick, SharedTypes, BotIsSound
<1>5. RoundTypes'
  BY <1>2 DEF Tick, RoundTypes
<1>6. HistoryTypes'
  BY <1>1 DEF Tick, HistoryTypes
<1> QED
  BY <1>4, <1>5, <1>6

\* What a handler of the bot carries from its signal to its commit.
LEMMA HandlerTypes ==
  ASSUME NEW op \in BotSteps, NEW v \in Nat, NEW sel \in SUBSET Groups, NEW c \in BOOLEAN
  PROVE  /\ [NoOp EXCEPT !.op = op] \in Handlers
         /\ [NoOp EXCEPT !.op = op, !.val = v] \in Handlers
         /\ [NoOp EXCEPT !.op = op, !.sel = sel] \in Handlers
         /\ [NoOp EXCEPT !.op = op, !.val = v, !.cap = c] \in Handlers
BY DEF NoOp, Handlers

\* The signals of the bot.
LEMMA SignalTypes ==
  ASSUME SharedTypes
  PROVE  /\ SetRevoke => revoke' \in 0 .. RevokeTTL
         /\ \A t \in Texts : SetText(t) => textKey' \in {t, textKey}
<1>1. RevokeTTL \in 0 .. RevokeTTL
  BY RoundAssumption
<1> QED
  BY <1>1 DEF SetRevoke, SetText, SharedTypes

\* What SetRevoke does to the rounds.
LEMMA SetRevokeTells == SetRevoke => Tell
BY DEF SetRevoke

\* A handler begins: it counts as an operation and changes no row.
LEMMA BeginTypes ==
  ASSUME TypeOK, BotIsSound, NEW op, Begin(op), Tell \/ UNCHANGED since, bot' \in Handlers,
         revoke' \in 0 .. RevokeTTL, textKey' \in 0 .. ops + 2,
         bot'.op = "text" => bot'.val <= ops + 2,
         bot'.op = "groups" => bot'.sel \subseteq rows,
         bot'.op = "interval" => bot'.val \in Intervals
  PROVE  TypeOK' /\ BotIsSound'
<1> USE RoundAssumption DEF TypeOK, Begin, dbVars, histVars
<1>1. ops' \in 0 .. MaxOps /\ ops' = ops + 1 /\ ops + 2 <= MaxOps + 1
  BY DEF HistoryTypes
<1>2. text' \in Texts /\ textKey' \in Texts /\ text' <= ops' + 1 /\ textKey' <= ops' + 1
  BY <1>1 DEF SharedTypes, BotIsSound, Texts, HistoryTypes
<1>3. SharedTypes'
  BY <1>2 DEF SharedTypes
<1>4. RoundTypes'
  BY ToldSame
<1>5. HistoryTypes'
  BY <1>1 DEF HistoryTypes
<1>6. BotIsSound'
  BY <1>1, <1>2 DEF BotIsSound, HistoryTypes
<1> QED
  BY <1>3, <1>4, <1>5, <1>6

\* The handlers of the bot up to their signal.
LEMMA UserTypes == ASSUME TypeOK, BotIsSound, UserStep PROVE TypeOK' /\ BotIsSound'
<1> USE RoundAssumption DEF TypeOK
<1>1. /\ ops \in Nat /\ text \in Nat /\ textKey \in Nat
      /\ text <= ops + 1 /\ textKey <= ops + 1
      /\ revoke \in 0 .. RevokeTTL
  BY DEF SharedTypes, HistoryTypes, BotIsSound, Texts
<1>2. textKey \in 0 .. ops + 2 /\ NoText \in 0 .. ops + 2
  BY <1>1 DEF NoText
<1>3. SetRevoke => revoke' \in 0 .. RevokeTTL
  BY SignalTypes
<1>4. CASE BeginText
  <2> DEFINE t == Later(text, textKey) + 1
  <2>1. t \in Nat /\ t <= ops + 2
    BY <1>1 DEF Later
  <2>2. bot' = [NoOp EXCEPT !.op = "text", !.val = t] /\ textKey' \in {t, textKey}
    BY <1>4 DEF BeginText, SetText
  <2> HIDE DEF t
  <2>3. bot' \in Handlers /\ bot'.op = "text" /\ bot'.val = t
    BY <2>1, <2>2, HandlerTypes DEF BotSteps, NoOp
  <2>4. textKey' \in 0 .. ops + 2
    BY <1>1, <1>2, <2>1, <2>2
  <2> QED
    BY <1>3, <1>4, <2>1, <2>3, <2>4, BeginTypes, SetRevokeTells DEF BeginText
<1>5. CASE BeginGroups
  <2>1. PICK sel \in SUBSET rows : bot' = [NoOp EXCEPT !.op = "groups", !.sel = sel]
    BY <1>5 DEF BeginGroups
  <2>2. sel \in SUBSET Groups
    BY DEF SharedTypes
  <2>3. bot' = [op |-> "groups", val |-> 0, sel |-> sel, cap |-> FALSE]
    BY <2>1 DEF NoOp
  <2>4. bot' \in Handlers /\ bot'.op = "groups" /\ bot'.sel = sel
    BY <2>2, <2>3 DEF BotSteps, Handlers
  <2> QED
    BY <1>2, <1>3, <1>5, <2>4, BeginTypes, SetRevokeTells DEF BeginGroups
<1>6. CASE BeginInterval
  <2>1. PICK i \in Intervals :
          bot' = [NoOp EXCEPT !.op = "interval", !.val = i,
                              !.cap = status = "running" /\ dueIn > i]
    BY <1>6 DEF BeginInterval
  <2>2. i \in Nat /\ (status = "running" /\ dueIn > i) \in BOOLEAN
    OBVIOUS
  <2>3. bot' \in Handlers /\ bot'.op = "interval" /\ bot'.val = i
    BY <2>1, <2>2 DEF BotSteps, NoOp, Handlers
  <2> QED
    BY <1>1, <1>2, <1>6, <2>3, BeginTypes DEF BeginInterval, redisVars
<1>7. CASE BeginStop
  <2>1. bot' \in Handlers /\ bot'.op = "stop"
    BY <1>7 DEF BeginStop, BotSteps, NoOp, Handlers
  <2> QED
    BY <1>2, <1>3, <1>7, <2>1, BeginTypes, SetRevokeTells DEF BeginStop
<1>11. CASE BeginRival
  <2>1. bot' \in Handlers /\ bot'.op = "rival"
    BY <1>11 DEF BeginRival, BotSteps, NoOp, Handlers
  <2> QED
    BY <1>2, <1>3, <1>11, <2>1, BeginTypes, SetRevokeTells DEF BeginRival
<1>8. CASE BeginStart
  <2>1. bot' \in Handlers /\ bot'.op = "start"
    BY <1>8 DEF BeginStart, BotSteps, NoOp, Handlers
  <2> QED
    BY <1>1, <1>2, <1>8, <2>1, BeginTypes DEF BeginStart, redisVars
<1>9. CASE BeginDelete
  <2>1. bot' \in Handlers /\ bot'.op = "grace"
    BY <1>9 DEF BeginDelete, BotSteps, NoOp, Handlers
  <2>2. textKey' \in 0 .. ops + 2
    BY <1>2, <1>9 DEF BeginDelete, SetText
  <2> QED
    BY <1>3, <1>9, <2>1, <2>2, BeginTypes, SetRevokeTells DEF BeginDelete
<1>10. CASE \E g \in Groups : DeleteGroup(g)
  <2>1. PICK g \in Groups : DeleteGroup(g)
    BY <1>10
  <2>2. ops' = ops + 1 /\ ops' \in 0 .. MaxOps
    BY <2>1 DEF DeleteGroup, HistoryTypes
  <2>3. SharedTypes' /\ BotIsSound'
    BY <1>1, <2>1, <2>2 DEF DeleteGroup, SharedTypes, BotIsSound, redisVars, NoOp
  <2>4. RoundTypes'
    BY <2>1, RoundSame DEF DeleteGroup
  <2>5. HistoryTypes'
    BY <2>1, <2>2 DEF DeleteGroup, HistoryTypes, histVars
  <2> QED
    BY <2>3, <2>4, <2>5
<1> QED
  BY <1>4, <1>5, <1>6, <1>7, <1>8, <1>9, <1>10, <1>11 DEF UserStep

\* The handlers of the bot from their signal to their commit.
LEMMA CommitTypes ==
  ASSUME TypeOK, BotIsSound, SignalDelete \/ Commit \/ Rollback
  PROVE  TypeOK' /\ BotIsSound'
<1> USE RoundAssumption DEF TypeOK
<1>1. CASE SignalDelete
  <2>1. bot' \in Handlers /\ bot'.op = "delete"
    BY <1>1 DEF SignalDelete, BotSteps, NoOp, Handlers
  <2>2. revoke' \in 0 .. RevokeTTL /\ textKey' \in {0, textKey}
    BY <1>1, SignalTypes, EmptyTypes DEF SignalDelete, NoText
  <2>3. SharedTypes' /\ BotIsSound'
    BY <1>1, <2>1, <2>2, EmptyTypes
    DEF SignalDelete, dbVars, SharedTypes, BotIsSound, HistoryTypes
  <2> QED
    BY <1>1, <2>3, ToldSame, SetRevokeTells, HistorySame DEF SignalDelete
<1>2. CASE Commit
  <2> USE <1>2 DEF Commit, redisVars
  <2>1. bot' \in Handlers /\ bot'.op = "none"
    BY EmptyTypes DEF NoOp
  <2>2. RoundTypes'
    BY RoundSame
  <2>3. CASE CommitText
    <3>1. text' \in Texts /\ text' <= ops + 1
      BY <2>3 DEF CommitText, SharedTypes, BotIsSound, Handlers, HistoryTypes, Texts
    <3>2. SharedTypes' /\ BotIsSound'
      BY <2>1, <2>3, <3>1 DEF CommitText, SharedTypes, BotIsSound
    <3>3. HistoryTypes'
      BY <2>3 DEF CommitText, HistoryTypes
    <3> QED
      BY <2>2, <3>2, <3>3
  <2>4. CASE CommitGroups
    <3>1. SharedTypes' /\ BotIsSound'
      BY <2>1, <2>4 DEF CommitGroups, SharedTypes, BotIsSound
    <3> QED
      BY <2>2, <2>4, <3>1, HistorySame DEF CommitGroups
  <2>5. CASE CommitInterval
    <3>1. bot.val \in Intervals
      BY <2>5 DEF CommitInterval, BotIsSound
    <3>2. dueIn' \in {bot.val, dueIn}
      BY <2>5, Zenon DEF CommitInterval
    <3>3. dueIn' \in 0 .. Later(MaxInterval, FastDelay)
      BY <3>1, <3>2, DelayType DEF SharedTypes
    <3>4. SharedTypes' /\ BotIsSound'
      BY <2>1, <2>5, <3>1, <3>3 DEF CommitInterval, SharedTypes, BotIsSound
    <3> QED
      BY <2>2, <2>5, <3>4, HistorySame DEF CommitInterval
  <2>6. CASE CommitStop
    <3>1. SharedTypes' /\ BotIsSound'
      BY <2>1, <2>6 DEF CommitStop, SharedTypes, BotIsSound
    <3>2. HistoryTypes'
      BY <2>6 DEF CommitStop, HistoryTypes
    <3> QED
      BY <2>2, <3>1, <3>2
  <2>7. CASE CommitStart
    <3>1. interval \in 0 .. Later(MaxInterval, FastDelay)
      BY DelayType DEF SharedTypes
    <3>2. SharedTypes' /\ BotIsSound'
      BY <2>1, <2>7, <3>1 DEF CommitStart, SharedTypes, BotIsSound
    <3> QED
      BY <2>2, <2>7, <3>2, HistorySame DEF CommitStart
  <2>8. CASE CommitDelete
    <3>1. SharedTypes' /\ BotIsSound'
      BY <2>1, <2>8 DEF CommitDelete, SharedTypes, BotIsSound
    <3> QED
      BY <2>2, <2>8, <3>1, HistorySame DEF CommitDelete
  <2> QED
    BY <2>3, <2>4, <2>5, <2>6, <2>7, <2>8
<1>3. CASE Rollback
  <2>1. bot' \in Handlers /\ bot'.op = "none"
    BY <1>3, EmptyTypes DEF Rollback, NoOp
  <2>2. SharedTypes' /\ BotIsSound'
    BY <1>3, <2>1 DEF Rollback, dbVars, redisVars, SharedTypes, BotIsSound
  <2> QED
    BY <1>3, <2>2, RoundSame, HistorySame DEF Rollback
<1> QED
  BY <1>1, <1>2, <1>3

\* Steps of nobody.
LEMMA StutterTypes == ASSUME TypeOK, BotIsSound, UNCHANGED vars PROVE TypeOK' /\ BotIsSound'
<1>1. SharedTypes' /\ BotIsSound'
  BY DEF TypeOK, vars, dbVars, redisVars, SharedTypes, BotIsSound
<1> QED
  BY <1>1, RoundSame, HistorySame DEF TypeOK, vars

\* Every step keeps the types.
LEMMA StepTypes == ASSUME TypeOK, BotIsSound, [Next]_vars PROVE TypeOK' /\ BotIsSound'
BY StutterTypes, SchedulingTypes, PlanningTypes, SendingTypes, RecordingTypes, EndingTypes,
   TickTypes, UserTypes, CommitTypes DEF Next, RoundStep

(***************************************************************************)
(* The types hold in every state: no edit, abort, failure or race takes    *)
(* the bot, the rounds or the counters out of their ranges                 *)
(* (campaigns.py:110-170, sender.py:533-812).                              *)
(***************************************************************************)
THEOREM TypeCorrect == Spec => []TypeOK
<1>1. Init => TypeOK /\ BotIsSound
  BY InitTypes
<1>2. TypeOK /\ BotIsSound /\ [Next]_vars => TypeOK' /\ BotIsSound'
  BY StepTypes
<1> QED
  BY <1>1, <1>2, PTL DEF Spec

-----------------------------------------------------------------------------
(* One round at a time *)

\* Nothing of the rounds of the others changes in a step of w.
LEMMA OthersStay ==
  ASSUME RoundTypes, NEW w \in Workers,
         RoundStep(w) \/ RateSlotError(w) \/ TimeLimit(w) \/ Crash(w) \/ StartTask(w),
         NEW v \in Workers \ {w}
  PROVE  UNCHANGED <<todo[v], msg[v], snap[v], pc[v], outs[v], pend[v], left[v], since[v]>>
<1> USE DEF RoundTypes, Close, Goto
<1>1. CASE StartTask(w) \/ LoadCampaign(w) \/ ReadGroups(w) \/ EntryRevoke(w)
  BY <1>1 DEF StartTask, LoadCampaign, ReadGroups, EntryRevoke
<1>2. CASE PlanRound(w) \/ Record(w)
  <2>1. CASE Abort(w)
    BY <2>1 DEF Abort
  <2>2. CASE PlanRound(w) /\ ~Abort(w)
    BY <2>2 DEF PlanRound
  <2>3. CASE Record(w) /\ ~Abort(w)
    BY <2>3 DEF Record
  <2> QED
    BY <1>2, <2>1, <2>2, <2>3
<1>3. CASE CheckRevoke(w) \/ PickGroup(w) \/ RateSlotError(w)
  BY <1>3 DEF CheckRevoke, PickGroup, RateSlotError
<1>4. CASE Deliver(w) \/ SendFails(w)
  BY <1>4 DEF Deliver, SendFails, Outcome
<1>5. CASE MidRevoke(w) \/ FinishSchedule(w) \/ ClearRevoke(w)
  BY <1>5 DEF MidRevoke, FinishSchedule, Abort, Reschedule, ClearRevoke
<1>6. CASE EndTask(w) \/ TimeLimit(w) \/ Crash(w)
  BY <1>6 DEF EndTask, TimeLimit, Crash
<1> QED
  BY <1>1, <1>2, <1>3, <1>4, <1>5, <1>6 DEF RoundStep

\* A round that goes on keeps the lock.
LEMMA RoundStepLock ==
  ASSUME RoundTypes, RoundsHoldLock, NEW w \in Workers,
         RoundStep(w) \/ RateSlotError(w) \/ TimeLimit(w), ~EndTask(w)
  PROVE  RoundsHoldLock'
<1>1. InRound(w) /\ lock = w
  BY DEF RoundStep, LoadCampaign, ReadGroups, EntryRevoke, PlanRound, CheckRevoke, PickGroup,
         Deliver, SendFails, Outcome, MidRevoke, Record, FinishSchedule, ClearRevoke,
         RateSlotError, TimeLimit, InRound, RoundsHoldLock
<1>2. lock' = lock
  BY DEF RoundStep, LoadCampaign, ReadGroups, EntryRevoke, PlanRound, CheckRevoke, PickGroup,
         Deliver, SendFails, MidRevoke, Record, FinishSchedule, ClearRevoke,
         RateSlotError, TimeLimit
<1>3. \A v \in Workers \ {w} : pc'[v] = pc[v]
  BY OthersStay
<1> QED
  BY <1>1, <1>2, <1>3 DEF RoundsHoldLock, InRound

\* A round begins with the lock and ends with giving it up.
LEMMA StepLock ==
  ASSUME TypeOK, RoundsHoldLock, [Next]_vars
  PROVE  RoundsHoldLock'
<1> USE RoundAssumption DEF TypeOK
<1>1. CASE \E w \in Workers : StartTask(w)
  BY <1>1 DEF StartTask, Lock!Acquire, Lock!Abandon, Goto, RoundTypes, RoundsHoldLock, InRound
<1>2. CASE \E w \in Workers : EndTask(w) \/ Crash(w)
  BY <1>2 DEF EndTask, Crash, Lock!Release, Lock!Abandon, Goto, RoundTypes, RoundsHoldLock,
              InRound
<1>3. CASE LockExpires
  BY <1>3 DEF LockExpires, Lock!Expire, roundVars, workVars, RoundsHoldLock, InRound
<1>4. CASE \E w \in Workers : RoundStep(w) \/ RateSlotError(w) \/ TimeLimit(w)
  BY <1>2, <1>4, RoundStepLock
<1>5. CASE UNCHANGED <<lock, pc>>
  BY <1>5 DEF RoundsHoldLock, InRound
<1>6. Beat \/ UserStep \/ SignalDelete \/ Commit \/ Rollback \/ ExpireTextKey \/ Tick
        \/ UNCHANGED vars => UNCHANGED <<lock, pc>>
  BY DEF Beat, UserStep, BeginText, BeginGroups, BeginInterval, BeginStop, BeginRival, BeginStart,
         BeginDelete, Begin, DeleteGroup, SignalDelete, Commit, Rollback, ExpireTextKey, Tick,
         roundVars, workVars, vars
<1> QED
  BY <1>1, <1>2, <1>3, <1>4, <1>5, <1>6 DEF Next

-----------------------------------------------------------------------------
(* The plan of a round *)

\* What one worker's part of PlanIsSplit says.
Split(w) ==
  /\ todo[w] \cup msg[w].group \subseteq snap[w].plan
  /\ todo[w] \cap msg[w].group = {}
  /\ pc[w] \in BeforePlan => snap[w].plan = {}

\* The session of w is closed.
LEMMA CloseSplit ==
  ASSUME RoundTypes, NEW w \in Workers, NEW l, Close(w), Goto(w, l)
  PROVE  Split(w)' /\ \A v \in Workers \ {w} : Split(v) => Split(v)'
BY DEF Close, Goto, NoSnap, NoMsg, RoundTypes, Split

\* A step of w keeps its plan split.
LEMMA RoundStepSplit ==
  ASSUME RoundTypes, NEW w \in Workers, Split(w),
         RoundStep(w) \/ RateSlotError(w) \/ TimeLimit(w) \/ Crash(w) \/ StartTask(w)
  PROVE  Split(w)'
<1>1. CASE Close(w) /\ \E l \in Labels : Goto(w, l)
  BY <1>1, CloseSplit
<1>2. EndTask(w) \/ TimeLimit(w) \/ Crash(w) \/ Abort(w) =>
        Close(w) /\ \E l \in Labels : Goto(w, l)
  BY DEF EndTask, TimeLimit, Crash, Abort, Labels
<1>3. CASE StartTask(w) \/ LoadCampaign(w) \/ ReadGroups(w) \/ EntryRevoke(w)
  <2>1. pc[w] \in BeforePlan /\ UNCHANGED <<todo, msg>>
    BY <1>3 DEF StartTask, LoadCampaign, ReadGroups, EntryRevoke, BeforePlan
  <2>2. snap[w].plan = {} /\ todo[w] = {} /\ msg[w].group = {}
    BY <2>1 DEF Split
  <2>3. snap'[w].plan = snap[w].plan \/ snap'[w].plan = {}
    <3>1. CASE LoadCampaign(w)
      BY <3>1 DEF LoadCampaign, NoSnap, RoundTypes
    <3>2. CASE ReadGroups(w)
      BY <3>2 DEF ReadGroups, RoundTypes, Snapshots
    <3>3. CASE StartTask(w) \/ EntryRevoke(w)
      BY <3>3 DEF StartTask, EntryRevoke
    <3> QED
      BY <1>3, <3>1, <3>2, <3>3
  <2> QED
    BY <2>1, <2>2, <2>3 DEF Split
<1>4. CASE PlanRound(w) /\ ~Abort(w)
  <2>1. PICK plan \in SUBSET snap[w].groups :
          /\ todo' = [todo EXCEPT ![w] = plan]
          /\ snap' = [snap EXCEPT ![w].plan = plan]
          /\ UNCHANGED msg
    BY <1>4 DEF PlanRound
  <2>2. pc'[w] \notin BeforePlan
    BY <1>4 DEF PlanRound, Goto, RoundTypes, BeforePlan
  <2>3. msg[w].group = {}
    BY <1>4 DEF PlanRound, Split, BeforePlan
  <2>4. todo'[w] = plan /\ snap'[w].plan = plan /\ msg'[w].group = {}
    BY <2>1, <2>3 DEF RoundTypes, Snapshots
  <2> QED
    BY <2>2, <2>4 DEF Split
<1>5. CASE PickGroup(w)
  <2>1. PICK g \in todo[w], t \in {textKey, snap[w].text} :
          /\ todo' = [todo EXCEPT ![w] = @ \ {g}]
          /\ msg' = [msg EXCEPT ![w] = [group |-> {g}, text |-> t]]
    BY <1>5 DEF PickGroup
  <2>2. pc'[w] \notin BeforePlan /\ snap' = snap
    BY <1>5 DEF PickGroup, Goto, RoundTypes, BeforePlan
  <2>3. todo'[w] = todo[w] \ {g} /\ msg'[w].group = {g}
    BY <2>1 DEF RoundTypes
  <2> QED
    BY <2>2, <2>3 DEF Split
<1>6. CASE CheckRevoke(w) \/ Deliver(w) \/ SendFails(w) \/ RateSlotError(w)
  BY <1>6 DEF CheckRevoke, Deliver, SendFails, Outcome, RateSlotError, Goto, NoMsg, BeforePlan,
              RoundTypes, Split
<1>7. CASE (MidRevoke(w) \/ Record(w) \/ FinishSchedule(w) \/ ClearRevoke(w)) /\ ~Abort(w)
  BY <1>7 DEF MidRevoke, Record, FinishSchedule, Reschedule, ClearRevoke, Goto, BeforePlan,
              RoundTypes, Split
<1> QED
  BY <1>1, <1>2, <1>3, <1>4, <1>5, <1>6, <1>7 DEF RoundStep

\* Every step keeps every plan split.
LEMMA StepSplit == ASSUME TypeOK, PlanIsSplit, [Next]_vars PROVE PlanIsSplit'
<1> USE DEF TypeOK
<1>1. PlanIsSplit <=> \A w \in Workers : Split(w)
  BY DEF PlanIsSplit, Split
<1>2. PlanIsSplit' <=> \A w \in Workers : Split(w)'
  BY DEF PlanIsSplit, Split
<1>3. CASE \E w \in Workers : RoundStep(w) \/ RateSlotError(w) \/ TimeLimit(w) \/ Crash(w)
                               \/ StartTask(w)
  <2> PICK w \in Workers : RoundStep(w) \/ RateSlotError(w) \/ TimeLimit(w) \/ Crash(w)
                            \/ StartTask(w)
    BY <1>3
  <2>1. Split(w)'
    BY <1>1, RoundStepSplit
  <2>2. \A v \in Workers \ {w} : Split(v)'
    BY <1>1, OthersStay DEF Split
  <2> QED
    BY <1>2, <2>1, <2>2
<1>4. CASE UNCHANGED <<todo, msg, snap, pc>>
  BY <1>4 DEF PlanIsSplit
<1>5. Beat \/ LockExpires \/ UserStep \/ SignalDelete \/ Commit \/ Rollback \/ ExpireTextKey
        \/ Tick \/ UNCHANGED vars => UNCHANGED <<todo, msg, snap, pc>>
  BY DEF Beat, LockExpires, UserStep, BeginText, BeginGroups, BeginInterval, BeginStop,
         BeginRival, BeginStart, BeginDelete, Begin, DeleteGroup, SignalDelete, Commit, Rollback,
         ExpireTextKey, Tick, roundVars, workVars, vars
<1> QED
  BY <1>3, <1>4, <1>5 DEF Next

-----------------------------------------------------------------------------
(* Every message belongs to the round in flight or to a failed one *)

\* Nothing was sent, and no attempt is forgotten.
LEMMA NothingSent ==
  ASSUME SendsAccounted, UNCHANGED <<sent, faults>>,
         \A w \in Workers, g \in Groups : Attempted(w, g) => Attempted(w, g)'
  PROVE  SendsAccounted'
BY DEF SendsAccounted

\* A round that fails leaves one more message unaccounted at most.
LEMMA FaultAccounted ==
  ASSUME SendsAccounted, HistoryTypes, sent' = sent, faults' = faults + 1
  PROVE  SendsAccounted'
BY DEF SendsAccounted, HistoryTypes

\* A step of a worker that goes on, or starts or ends its task, forgets no attempt.
LEMMA AttemptsStay ==
  ASSUME RoundTypes, NEW w \in Workers, NEW g \in Groups,
         NEW v \in Workers, Attempted(v, g),
         \/ StartTask(w) \/ LoadCampaign(w) \/ ReadGroups(w) \/ EntryRevoke(w)
         \/ (PlanRound(w) /\ ~Abort(w))
         \/ CheckRevoke(w) \/ PickGroup(w) \/ RateSlotError(w) \/ Deliver(w) \/ SendFails(w)
         \/ MidRevoke(w) \/ (Record(w) /\ ~Abort(w)) \/ ClearRevoke(w) \/ EndTask(w)
  PROVE  Attempted(v, g)'
<1>1. CASE v # w
  <2>1. UNCHANGED <<todo[v], msg[v], snap[v], pc[v]>>
    BY <1>1, OthersStay DEF RoundStep
  <2> QED
    BY <2>1 DEF Attempted
<1>2. CASE v = w
  <2>1. CASE \/ StartTask(w) \/ LoadCampaign(w) \/ ReadGroups(w) \/ EntryRevoke(w)
             \/ PlanRound(w) \/ ClearRevoke(w) \/ EndTask(w)
    BY <1>2, <2>1 DEF Attempted, StartTask, LoadCampaign, ReadGroups, EntryRevoke, PlanRound,
                      ClearRevoke, EndTask
  <2>2. CASE CheckRevoke(w) \/ MidRevoke(w) \/ (Record(w) /\ ~Abort(w))
    <3>1. pc'[w] \in {"picking", "gathered", "recording"} /\ UNCHANGED <<todo, msg, snap>>
      BY <1>2, <2>2 DEF Attempted, CheckRevoke, MidRevoke, Record, Goto, RoundTypes
    <3> QED
      BY <1>2, <3>1 DEF Attempted
  <2>3. CASE RateSlotError(w) \/ Deliver(w) \/ SendFails(w)
    <3>1. /\ pc'[w] \in {"head", "gathered"} /\ UNCHANGED <<todo, snap>>
          /\ msg'[w].group = {}
      BY <2>3 DEF RateSlotError, Deliver, SendFails, Outcome, NoMsg, Goto, RoundTypes
    <3> QED
      BY <1>2, <3>1 DEF Attempted
  <2>4. CASE PickGroup(w)
    <3>1. PICK h \in todo[w] :
            /\ todo'[w] = todo[w] \ {h} /\ msg'[w].group = {h}
            /\ pc'[w] = "sending" /\ UNCHANGED snap
      BY <2>4 DEF PickGroup, Goto, RoundTypes
    <3> QED
      BY <1>2, <3>1 DEF Attempted
  <2> QED
    BY <2>1, <2>2, <2>3, <2>4
<1> QED
  BY <1>1, <1>2

\* A message that Telegram accepts is the first of its group in this round: the
\* group was neither tried by this worker nor, under the lock, by another one.
LEMMA DeliverAccounted ==
  ASSUME TypeOK, RoundsHoldLock, PlanIsSplit, SendsAccounted, NEW w \in Workers, Deliver(w)
  PROVE  SendsAccounted'
<1> USE DEF TypeOK
<1>1. \A v \in Workers : v # w => pc[v] = "idle"
  BY DEF Deliver, Outcome, RoundsHoldLock, InRound
<1>2. ASSUME NEW g \in Groups, g \in msg[w].group
      PROVE  sent'[g] <= 1 + faults' /\ Attempted(w, g)'
  <2>1. \A v \in Workers : ~Attempted(v, g)
    BY <1>1, <1>2 DEF Attempted
  <2>2. sent'[g] = sent[g] + 1 /\ faults' = faults
    BY <1>2 DEF Deliver
  <2>3. sent'[g] <= 1 + faults'
    BY <2>1, <2>2 DEF SendsAccounted, HistoryTypes
  <2>4. /\ pc'[w] = "head" /\ msg'[w].group = {} /\ UNCHANGED <<todo, snap>>
    BY DEF Deliver, Outcome, NoMsg, Goto, RoundTypes
  <2>5. Attempted(w, g)'
    BY <1>2, <2>4 DEF PlanIsSplit, Attempted
  <2> QED
    BY <2>3, <2>5
<1>3. ASSUME NEW g \in Groups, g \notin msg[w].group
      PROVE  sent'[g] = sent[g] /\ faults' = faults
  BY <1>3 DEF Deliver
<1>4. \A v \in Workers, g \in Groups : Attempted(v, g) => Attempted(v, g)'
  BY AttemptsStay
<1> QED
  BY <1>2, <1>3, <1>4 DEF SendsAccounted

\* A reschedule starts the account anew.
LEMMA FinishAccounted ==
  ASSUME TypeOK, SendsAccounted, NEW w \in Workers, FinishSchedule(w)
  PROVE  SendsAccounted'
<1>1. CASE Abort(w) /\ UNCHANGED sent
  BY <1>1, FaultAccounted DEF TypeOK, Abort
<1>2. CASE Reschedule(w) /\ UNCHANGED faults
  BY <1>2 DEF Reschedule, TypeOK, HistoryTypes, SendsAccounted
<1> QED
  BY <1>1, <1>2 DEF FinishSchedule

\* Every step keeps the account of the messages.
LEMMA StepAccounted ==
  ASSUME TypeOK, RoundsHoldLock, PlanIsSplit, SendsAccounted, [Next]_vars
  PROVE  SendsAccounted'
<1>1. CASE \E w \in Workers : Deliver(w)
  BY <1>1, DeliverAccounted
<1>2. CASE \E w \in Workers : FinishSchedule(w)
  BY <1>2, FinishAccounted
<1>3. CASE \E w \in Workers :
             \/ TimeLimit(w) \/ Crash(w)
             \/ (PlanRound(w) /\ Abort(w)) \/ (Record(w) /\ Abort(w))
  <2>1. sent' = sent /\ faults' = faults + 1
    BY <1>3 DEF TimeLimit, Crash, PlanRound, Record, Abort, histVars
  <2> QED
    BY <2>1, FaultAccounted DEF TypeOK
<1>4. CASE \E w \in Workers :
             \/ StartTask(w) \/ LoadCampaign(w) \/ ReadGroups(w) \/ EntryRevoke(w)
             \/ (PlanRound(w) /\ ~Abort(w))
             \/ CheckRevoke(w) \/ PickGroup(w) \/ RateSlotError(w) \/ SendFails(w)
             \/ MidRevoke(w) \/ (Record(w) /\ ~Abort(w)) \/ ClearRevoke(w) \/ EndTask(w)
  <2>1. UNCHANGED <<sent, faults>>
    <3>1. ASSUME NEW w \in Workers, PlanRound(w) \/ Record(w), ~Abort(w)
          PROVE  UNCHANGED <<sent, faults>>
      BY <3>1 DEF PlanRound, Record
    <3> QED
      BY <1>4, <3>1 DEF StartTask, LoadCampaign, ReadGroups, EntryRevoke, CheckRevoke, PickGroup,
                        RateSlotError, SendFails, MidRevoke, ClearRevoke, EndTask, histVars
  <2>2. \A v \in Workers, g \in Groups : Attempted(v, g) => Attempted(v, g)'
    BY <1>4, AttemptsStay DEF TypeOK
  <2> QED
    BY <2>1, <2>2, NothingSent
<1>5. CASE UNCHANGED <<sent, faults, todo, msg, snap, pc>>
  BY <1>5, NothingSent DEF Attempted
<1>6. Beat \/ LockExpires \/ UserStep \/ SignalDelete \/ Commit \/ Rollback \/ ExpireTextKey
        \/ Tick \/ UNCHANGED vars => UNCHANGED <<sent, faults, todo, msg, snap, pc>>
  BY DEF Beat, LockExpires, UserStep, BeginText, BeginGroups, BeginInterval, BeginStop,
         BeginRival, BeginStart, BeginDelete, Begin, DeleteGroup, SignalDelete, Commit, CommitText,
         CommitGroups, CommitInterval, CommitStop, CommitStart, CommitDelete, Rollback,
         ExpireTextKey, Tick, roundVars, workVars, histVars, vars
<1> QED
  BY <1>1, <1>2, <1>3, <1>4, <1>5, <1>6 DEF Next, RoundStep

-----------------------------------------------------------------------------
\* In the beginning no round is running and nothing is sent.
LEMMA InitRounds == Init => RoundsHoldLock /\ PlanIsSplit /\ SendsAccounted
BY DEF Init, NoSnap, NoMsg, RoundsHoldLock, InRound, PlanIsSplit, SendsAccounted

(***************************************************************************)
(* The invariant is inductive.                                             *)
(***************************************************************************)
THEOREM Invariant == Spec => []IInv
<1>1. Init => IInv
  BY InitTypes, InitRounds DEF IInv
<1>2. IInv /\ [Next]_vars => IInv'
  BY StepTypes, StepLock, StepSplit, StepAccounted DEF IInv
<1> QED
  BY <1>1, <1>2, PTL DEF Spec

(***************************************************************************)
(* However many copies of the task are queued, redelivered or delayed, and *)
(* whatever the user does meanwhile, between two reschedules a group gets  *)
(* one message, and one more per failed round (sender.py:327-414,          *)
(* tasks.py:27-66).                                                        *)
(***************************************************************************)
THEOREM OncePerRound == Spec => []SentOncePerRound
<1>1. IInv => SentOncePerRound
  BY DEF IInv, SendsAccounted, SentOncePerRound
<1> QED
  BY <1>1, Invariant, PTL

-----------------------------------------------------------------------------
(* Rounds keep their distance *)

\* The shortest interval exists.
LEMMA MinIntervalType ==
  MinInterval \in Intervals /\ MinInterval \in Nat /\ \A i \in Intervals : MinInterval <= i
<1>1. \E i \in Intervals : \A j \in Intervals : i <= j
  BY RoundAssumption
<1>2. MinInterval \in Intervals /\ \A j \in Intervals : MinInterval <= j
  BY <1>1 DEF MinInterval
<1> QED
  BY <1>2, RoundAssumption

\* What one worker's part of LoadedInterval says.
Loaded(w) ==
  pc[w] \notin {"idle", "locked", "clearing", "leaving"} => snap[w].interval \in Intervals

\* The interval of a round is the one it loaded.
LEMMA RoundStepLoaded ==
  ASSUME TypeOK, NEW w \in Workers, Loaded(w),
         RoundStep(w) \/ RateSlotError(w) \/ TimeLimit(w) \/ Crash(w) \/ StartTask(w)
  PROVE  Loaded(w)'
<1> USE DEF TypeOK, RoundTypes, SharedTypes, Goto, Loaded
<1>1. CASE StartTask(w) \/ EndTask(w) \/ TimeLimit(w) \/ Crash(w) \/ ClearRevoke(w) \/ Abort(w)
  BY <1>1 DEF StartTask, EndTask, TimeLimit, Crash, ClearRevoke, Abort
<1>2. CASE LoadCampaign(w)
  <2>1. CASE status = "running" /\ dueIn = 0
    <3>1. snap' = [snap EXCEPT ![w] = [NoSnap EXCEPT !.text = text, !.interval = interval]]
      BY <1>2, <2>1 DEF LoadCampaign
    <3>2. snap'[w].interval = interval
      BY <3>1 DEF NoSnap
    <3> QED
      BY <3>2
  <2>2. CASE ~(status = "running" /\ dueIn = 0)
    BY <1>2, <2>2 DEF LoadCampaign
  <2> QED
    BY <2>1, <2>2
<1>3. CASE ReadGroups(w)
  BY <1>3 DEF ReadGroups, Snapshots
<1>4. CASE PlanRound(w) /\ ~Abort(w)
  <2>1. PICK plan \in SUBSET snap[w].groups : snap' = [snap EXCEPT ![w].plan = plan]
    BY <1>4 DEF PlanRound
  <2>2. snap'[w].interval = snap[w].interval /\ pc[w] = "planning"
    BY <1>4, <2>1 DEF PlanRound, Snapshots
  <2> QED
    BY <2>2
<1>5. CASE EntryRevoke(w) \/ CheckRevoke(w) \/ PickGroup(w) \/ RateSlotError(w)
  BY <1>5 DEF EntryRevoke, CheckRevoke, PickGroup, RateSlotError
<1>6. CASE Deliver(w) \/ SendFails(w) \/ MidRevoke(w)
  BY <1>6 DEF Deliver, SendFails, Outcome, MidRevoke
<1>7. CASE (Record(w) \/ FinishSchedule(w)) /\ ~Abort(w)
  BY <1>7 DEF Record, FinishSchedule, Reschedule
<1> QED
  BY <1>1, <1>2, <1>3, <1>4, <1>5, <1>6, <1>7 DEF RoundStep

\* Every step keeps the intervals that rounds have loaded.
LEMMA StepLoaded ==
  ASSUME TypeOK, LoadedInterval, [Next]_vars
  PROVE  LoadedInterval'
<1>1. CASE \E w \in Workers : RoundStep(w) \/ RateSlotError(w) \/ TimeLimit(w) \/ Crash(w)
                               \/ StartTask(w)
  <2> PICK w \in Workers : RoundStep(w) \/ RateSlotError(w) \/ TimeLimit(w) \/ Crash(w)
                            \/ StartTask(w)
    BY <1>1
  <2>1. Loaded(w)'
    BY RoundStepLoaded DEF LoadedInterval, Loaded
  <2>2. \A v \in Workers \ {w} : UNCHANGED <<snap[v], pc[v]>>
    BY OthersStay DEF TypeOK
  <2> QED
    BY <2>1, <2>2 DEF LoadedInterval, Loaded
<1>2. CASE UNCHANGED <<snap, pc>>
  BY <1>2 DEF LoadedInterval
<1>3. Beat \/ LockExpires \/ UserStep \/ SignalDelete \/ Commit \/ Rollback \/ ExpireTextKey
        \/ Tick \/ UNCHANGED vars => UNCHANGED <<snap, pc>>
  BY DEF Beat, LockExpires, UserStep, BeginText, BeginGroups, BeginInterval, BeginStop,
         BeginRival, BeginStart, BeginDelete, Begin, DeleteGroup, SignalDelete, Commit, Rollback,
         ExpireTextKey, Tick, roundVars, workVars, vars
<1> QED
  BY <1>1, <1>2, <1>3 DEF Next

\* Time moves from what is left to what has passed; every new delay is an interval.
LEMMA StepRested ==
  ASSUME TypeOK, BotIsSound, LoadedInterval, Rested, [Next]_vars
  PROVE  Rested'
<1> USE MinIntervalType, MaxIntervalType, RoundAssumption
<1>1. rest \in Nat /\ dueIn \in Nat /\ interval \in Intervals /\ rest <= MaxInterval
  BY DEF TypeOK, HistoryTypes, SharedTypes, Later
<1>2. CASE Tick
  <2>1. rest' = IF rest = MaxInterval THEN rest ELSE rest + 1
    BY <1>2 DEF Tick
  <2>2. dueIn' = IF dueIn = 0 THEN 0 ELSE dueIn - 1
    BY <1>2 DEF Tick, CountDown
  <2>3. MinInterval <= MaxInterval /\ MinInterval \in Nat /\ MaxInterval \in Nat
    OBVIOUS
  <2>4. dueIn' \in Nat
    BY <1>1, <2>2
  <2> HIDE MinIntervalType, MaxIntervalType, RoundAssumption
  <2> QED
    BY <1>1, <2>1, <2>2, <2>3, <2>4 DEF Rested
<1>3. CASE UNCHANGED <<rest, dueIn>>
  BY <1>3 DEF Rested
<1>4. ASSUME NEW w \in Workers, FinishSchedule(w) PROVE Rested'
  <2>1. snap[w].interval \in Intervals
    BY <1>4 DEF FinishSchedule, LoadedInterval
  <2>2. CASE Reschedule(w)
    <3>1. \/ rest' = MaxInterval /\ dueIn' = FastDelay
          \/ rest' = 0 /\ dueIn' = snap[w].interval
      BY <2>2 DEF Reschedule
    <3>2. /\ MinInterval <= MaxInterval /\ MinInterval <= snap[w].interval
          /\ {MinInterval, MaxInterval, FastDelay, snap[w].interval} \subseteq Nat
      BY <2>1
    <3> HIDE MinIntervalType, MaxIntervalType, RoundAssumption
    <3> QED
      BY <3>1, <3>2 DEF Rested
  <2>3. CASE UNCHANGED <<dueIn, rest>>
    BY <1>3, <2>3
  <2> QED
    BY <1>4, <2>2, <2>3 DEF FinishSchedule
<1>5. CASE Commit
  <2>1. CASE CommitInterval
    <3>1. bot.val \in Intervals /\ rest' = rest
      BY <2>1 DEF CommitInterval, BotIsSound, histVars
    <3>2. dueIn' = bot.val \/ dueIn' = dueIn
      BY <2>1 DEF CommitInterval
    <3>3. MinInterval <= bot.val /\ bot.val \in Nat /\ MinInterval \in Nat
      BY <3>1
    <3> HIDE MinIntervalType, MaxIntervalType, RoundAssumption
    <3> QED
      BY <1>1, <3>1, <3>2, <3>3 DEF Rested
  <2>2. CASE CommitStart
    BY <1>1, <2>2 DEF CommitStart, histVars, Rested
  <2>3. CASE CommitText \/ CommitGroups \/ CommitStop \/ CommitDelete
    BY <1>3, <2>3 DEF CommitText, CommitGroups, CommitStop, CommitDelete, histVars
  <2> QED
    BY <1>5, <2>1, <2>2, <2>3 DEF Commit
<1>6. ASSUME NEW w \in Workers,
             RoundStep(w) \/ RateSlotError(w) \/ TimeLimit(w) \/ Crash(w) \/ StartTask(w),
             ~FinishSchedule(w)
      PROVE  UNCHANGED <<rest, dueIn>>
  BY <1>6 DEF RoundStep, LoadCampaign, ReadGroups, EntryRevoke, PlanRound, CheckRevoke, PickGroup,
              Deliver, SendFails, MidRevoke, Record, ClearRevoke, EndTask, RateSlotError,
              TimeLimit, Crash, StartTask, dbVars, histVars
<1>7. Beat \/ LockExpires \/ UserStep \/ SignalDelete \/ Rollback \/ ExpireTextKey
        \/ UNCHANGED vars => UNCHANGED <<rest, dueIn>>
  BY DEF Beat, LockExpires, UserStep, BeginText, BeginGroups, BeginInterval, BeginStop,
         BeginRival, BeginStart, BeginDelete, Begin, DeleteGroup, SignalDelete, Rollback, ExpireTextKey,
         dbVars, histVars, vars
<1> QED
  BY <1>2, <1>3, <1>4, <1>5, <1>6, <1>7 DEF Next

\* A round that loads its campaign finds it due.
LEMMA LoadedWhenRested ==
  ASSUME TypeOK, Rested, [Next]_vars, NEW w \in Workers, pc[w] = "locked", pc'[w] = "loaded"
  PROVE  rest >= MinInterval
<1>1. CASE \E v \in Workers : LoadCampaign(v)
  <2>1. PICK v \in Workers : LoadCampaign(v)
    BY <1>1
  <2>2. CASE status = "running" /\ dueIn = 0
    BY <2>2, MinIntervalType DEF Rested, TypeOK, HistoryTypes
  <2>3. CASE ~(status = "running" /\ dueIn = 0)
    BY <2>1, <2>3 DEF LoadCampaign, Goto, TypeOK, RoundTypes
  <2> QED
    BY <2>2, <2>3
<1>2. ASSUME NEW v \in Workers, v # w,
             RoundStep(v) \/ RateSlotError(v) \/ TimeLimit(v) \/ Crash(v) \/ StartTask(v)
      PROVE  pc'[w] = pc[w]
  BY <1>2, OthersStay DEF TypeOK
<1>3. ASSUME RoundStep(w) \/ RateSlotError(w) \/ TimeLimit(w) \/ Crash(w) \/ StartTask(w)
      PROVE  LoadCampaign(w)
  BY <1>3 DEF RoundStep, ReadGroups, EntryRevoke, PlanRound, CheckRevoke, PickGroup, Deliver,
              SendFails, Outcome, MidRevoke, Record, FinishSchedule, ClearRevoke, EndTask,
              RateSlotError, TimeLimit, Crash, StartTask, Goto, TypeOK, RoundTypes
<1>4. Beat \/ LockExpires \/ UserStep \/ SignalDelete \/ Commit \/ Rollback \/ ExpireTextKey
        \/ Tick \/ UNCHANGED vars => UNCHANGED pc
  BY DEF Beat, LockExpires, UserStep, BeginText, BeginGroups, BeginInterval, BeginStop,
         BeginRival, BeginStart, BeginDelete, Begin, DeleteGroup, SignalDelete, Commit, Rollback,
         ExpireTextKey, Tick, roundVars, workVars, vars
<1> QED
  BY <1>1, <1>2, <1>3, <1>4 DEF Next

(***************************************************************************)
(* Duplicates, redeliveries, crashes and edits of the interval do not      *)
(* bring a round forward (sender.py:556-564, campaigns.py:110-129).        *)
(***************************************************************************)
THEOREM RoundsAreSpaced == Spec => RoundSpacing
<1>1. Init => TypeOK /\ BotIsSound /\ LoadedInterval /\ Rested
  BY InitTypes, MinIntervalType, MaxIntervalType DEF Init, LoadedInterval, Rested
<1>2. TypeOK /\ BotIsSound /\ LoadedInterval /\ Rested /\ [Next]_vars =>
        (TypeOK /\ BotIsSound /\ LoadedInterval /\ Rested)'
  BY StepTypes, StepLoaded, StepRested
<1>3. TypeOK /\ Rested /\ [Next]_vars =>
        \A w \in Workers : pc[w] = "locked" /\ pc'[w] = "loaded" => rest >= MinInterval
  BY LoadedWhenRested
<1> QED
  BY <1>1, <1>2, <1>3, PTL DEF Spec, RoundSpacing

-----------------------------------------------------------------------------
(* The text of a message *)

\* The newest text that a message may have.
Newest == IF bot.op = "text" THEN bot.val ELSE text

\* What one worker's part of TextsAgree and TextFromDatabase says.
TextFine(w) ==
  /\ snap[w].text <= text
  /\ pc[w] = "sending" => msg[w].text >= snap[w].text /\ msg[w].text <= Newest

\* While nothing fails, a message has the text of the key or of the snapshot.
LEMMA RoundStepText ==
  ASSUME Failures = {}, TypeOK, TextsAgree, NEW w \in Workers, TextFine(w),
         RoundStep(w) \/ RateSlotError(w) \/ TimeLimit(w) \/ Crash(w) \/ StartTask(w)
  PROVE  TextFine(w)'
<1> USE DEF TypeOK, RoundTypes, Goto
<1>1. UNCHANGED <<text, textKey, bot>>
  BY DEF RoundStep, LoadCampaign, ReadGroups, EntryRevoke, PlanRound, CheckRevoke, PickGroup,
         Deliver, SendFails, MidRevoke, Record, FinishSchedule, ClearRevoke, EndTask,
         RateSlotError, TimeLimit, Crash, StartTask, dbVars, redisVars
<1>2. text \in Nat /\ snap[w].text \in Nat /\ Newest \in Nat /\ text <= Newest /\ Newest' = Newest
  BY <1>1, RoundAssumption DEF SharedTypes, Snapshots, Handlers, Texts, TextsAgree, Newest
<1>3. CASE EndTask(w) \/ TimeLimit(w) \/ Crash(w) \/ Abort(w)
  <2>1. Close(w) /\ pc'[w] # "sending"
    BY <1>3 DEF EndTask, TimeLimit, Crash, Abort
  <2>2. snap'[w].text = 0
    BY <2>1 DEF Close, NoSnap, NoText
  <2> QED
    BY <1>1, <1>2, <2>1, <2>2 DEF TextFine
<1>4. CASE LoadCampaign(w)
  <2>1. snap'[w].text \in {text, snap[w].text}
    BY <1>4, LoadedSnap
  <2>2. pc'[w] # "sending"
    BY <1>4 DEF LoadCampaign
  <2> QED
    BY <1>1, <1>2, <2>1, <2>2 DEF TextFine
<1>5. CASE ReadGroups(w)
  BY <1>1, <1>5 DEF ReadGroups, Snapshots, TextFine
<1>6. CASE PlanRound(w) /\ ~Abort(w)
  <2>1. PICK plan \in SUBSET snap[w].groups : snap' = [snap EXCEPT ![w].plan = plan]
    BY <1>6 DEF PlanRound
  <2>2. snap'[w].text = snap[w].text /\ pc'[w] # "sending"
    BY <1>6, <2>1 DEF PlanRound, Snapshots
  <2> QED
    BY <1>1, <2>2 DEF TextFine
<1>7. CASE PickGroup(w)
  <2>1. PICK g \in todo[w], t \in {textKey, snap[w].text} :
          CurrentText(w, t) /\ msg' = [msg EXCEPT ![w] = [group |-> {g}, text |-> t]]
    BY <1>7 DEF PickGroup
  <2>2. t = IF textKey = NoText THEN snap[w].text ELSE textKey
    BY <2>1 DEF CurrentText
  <2>3. t >= snap[w].text /\ t <= Newest
    BY <1>2, <2>2 DEF TextsAgree, Newest, TextFine
  <2>4. msg'[w].text = t /\ snap' = snap
    BY <1>7, <2>1 DEF PickGroup
  <2> QED
    BY <1>1, <1>2, <2>3, <2>4 DEF TextFine
<1>8. CASE StartTask(w) \/ EntryRevoke(w) \/ CheckRevoke(w) \/ RateSlotError(w)
  <2>1. snap' = snap /\ pc'[w] # "sending"
    BY <1>8 DEF StartTask, EntryRevoke, CheckRevoke, RateSlotError
  <2> QED
    BY <1>1, <2>1 DEF TextFine
<1>9. CASE \/ Deliver(w) \/ SendFails(w) \/ MidRevoke(w) \/ ClearRevoke(w)
           \/ (Record(w) \/ FinishSchedule(w)) /\ ~Abort(w)
  <2>1. snap' = snap /\ pc'[w] # "sending"
    BY <1>9 DEF Deliver, SendFails, Outcome, MidRevoke, ClearRevoke, Record, FinishSchedule,
                Reschedule
  <2> QED
    BY <1>1, <2>1 DEF TextFine
<1> QED
  BY <1>3, <1>4, <1>5, <1>6, <1>7, <1>8, <1>9 DEF RoundStep

\* Every step keeps the texts in agreement, when nothing fails.
LEMMA StepTexts ==
  ASSUME Failures = {}, TypeOK, TextsAgree, TextFromDatabase, [Next]_vars
  PROVE  TextsAgree' /\ TextFromDatabase'
<1> USE RoundAssumption
<1>1. /\ \A w \in Workers : TextFine(w)
      /\ text \in Nat /\ textKey \in Nat /\ bot.val \in Nat /\ text <= Newest
      /\ textKey # NoText => textKey = Newest
  BY DEF TextsAgree, TextFromDatabase, TextFine, Newest, TypeOK, SharedTypes, Handlers, Texts
<1>2. \A w \in Workers : snap[w].text \in Nat /\ msg[w].text \in Nat
  BY DEF TypeOK, RoundTypes, Snapshots, Messages, Texts
<1>3. ASSUME \A w \in Workers : TextFine(w)',
             textKey' # NoText => textKey' = IF bot'.op = "text" THEN bot'.val ELSE text',
             bot'.op = "text" => bot'.val > text'
      PROVE  TextsAgree' /\ TextFromDatabase'
  BY <1>3 DEF TextFine, Newest, TextsAgree, TextFromDatabase
<1>4. CASE \E w \in Workers : RoundStep(w) \/ RateSlotError(w) \/ TimeLimit(w) \/ Crash(w)
                               \/ StartTask(w)
  <2> PICK w \in Workers : RoundStep(w) \/ RateSlotError(w) \/ TimeLimit(w) \/ Crash(w)
                            \/ StartTask(w)
    BY <1>4
  <2>1. UNCHANGED <<text, textKey, bot>>
    BY DEF RoundStep, LoadCampaign, ReadGroups, EntryRevoke, PlanRound, CheckRevoke, PickGroup,
           Deliver, SendFails, MidRevoke, Record, FinishSchedule, ClearRevoke, EndTask,
           RateSlotError, TimeLimit, Crash, StartTask, dbVars, redisVars
  <2>2. \A v \in Workers \ {w} : UNCHANGED <<snap[v], pc[v], msg[v]>>
    BY OthersStay DEF TypeOK
  <2>3. \A v \in Workers \ {w} : TextFine(v)'
    BY <1>1, <2>1, <2>2 DEF TextFine, Newest
  <2>4. TextFine(w)'
    BY <1>1, RoundStepText
  <2> QED
    BY <1>3, <2>1, <2>3, <2>4 DEF TextsAgree
\* The handlers move the newest text forward only.
<1>5. ASSUME UNCHANGED <<snap, pc, msg>>, text' \in Nat, text <= text', Newest' \in Nat,
             Newest <= Newest'
      PROVE  \A w \in Workers : TextFine(w)'
  <2> TAKE w \in Workers
  <2>1. TextFine(w) /\ snap[w].text \in Nat /\ msg[w].text \in Nat /\ Newest \in Nat
    BY <1>1, <1>2 DEF Newest
  <2> QED
    BY <1>1, <1>5, <2>1 DEF TextFine
<1>6. CASE UNCHANGED <<snap, pc, msg, text, textKey>> /\ bot'.op # "text" /\ bot.op # "text"
  BY <1>1, <1>3, <1>5, <1>6 DEF TextsAgree, Newest
<1>7. CASE UNCHANGED <<snap, pc, msg, text, bot>> /\ textKey' \in {textKey, NoText}
  BY <1>1, <1>3, <1>5, <1>7 DEF TextsAgree, Newest
<1>8. CASE UNCHANGED <<snap, pc, msg, text>> /\ textKey' = NoText /\ bot'.op # "text"
             /\ bot.op # "text"
  BY <1>1, <1>3, <1>5, <1>8 DEF TextsAgree, Newest
<1>9. CASE BeginText
  <2> DEFINE t == Later(text, textKey) + 1
  <2>1. /\ textKey' = t /\ bot'.op = "text" /\ bot'.val = t /\ bot.op # "text"
        /\ UNCHANGED <<snap, pc, msg, text>>
    BY <1>9 DEF BeginText, Begin, SetText, NoOp, dbVars, roundVars, workVars
  <2>2. t \in Nat /\ t > text
    BY <1>1 DEF Later
  <2> HIDE DEF t
  <2> QED
    BY <1>1, <1>3, <1>5, <2>1, <2>2 DEF Newest
<1>10. CASE BeginDelete \/ SignalDelete
  <2>1. UNCHANGED <<snap, pc, msg, text>> /\ textKey' = NoText
    BY <1>10 DEF BeginDelete, SignalDelete, Begin, SetText, dbVars, roundVars, workVars
  <2>2. bot.op # "text" /\ bot'.op # "text"
    <3>1. CASE BeginDelete
      BY <3>1 DEF BeginDelete, Begin, NoOp
    <3>2. CASE SignalDelete
      BY <3>2 DEF SignalDelete, NoOp
    <3> QED
      BY <1>10, <3>1, <3>2
  <2> QED
    BY <1>8, <2>1, <2>2
<1>11. CASE BeginGroups \/ BeginInterval \/ BeginStop \/ BeginRival \/ BeginStart
  <2>1. UNCHANGED <<snap, pc, msg, text, textKey>>
    BY <1>11 DEF BeginGroups, BeginInterval, BeginStop, BeginRival, BeginStart, Begin, dbVars, redisVars,
                 roundVars, workVars
  <2>2. bot.op # "text" /\ bot'.op # "text"
    <3>1. CASE BeginGroups
      BY <3>1 DEF BeginGroups, Begin, NoOp
    <3>2. CASE BeginInterval
      BY <3>2 DEF BeginInterval, Begin, NoOp
    <3>3. CASE BeginStop \/ BeginRival \/ BeginStart
      BY <3>3 DEF BeginStop, BeginRival, BeginStart, Begin, NoOp
    <3> QED
      BY <1>11, <3>1, <3>2, <3>3
  <2> QED
    BY <1>6, <2>1, <2>2
<1>12. CASE Commit
  <2>1. CASE CommitText
    <3>1. /\ bot.op = "text" /\ text' = bot.val /\ bot'.op = "none"
          /\ UNCHANGED <<snap, pc, msg, textKey>>
      BY <1>12, <2>1 DEF Commit, CommitText, NoOp, redisVars, roundVars, workVars
    <3> QED
      BY <1>1, <1>3, <1>5, <3>1 DEF TextsAgree, Newest
  <2>2. CASE CommitGroups \/ CommitInterval \/ CommitStop \/ CommitStart \/ CommitDelete
    BY <1>6, <1>12, <2>2 DEF Commit, CommitGroups, CommitInterval, CommitStop, CommitStart,
                             CommitDelete, NoOp, redisVars, roundVars, workVars
  <2> QED
    BY <1>12, <2>1, <2>2 DEF Commit
<1>13. CASE Tick
  <2>1. UNCHANGED <<snap, pc, msg, text, textKey>> /\ bot'.op = bot.op /\ bot'.op # "text"
    BY <1>13 DEF Tick, BotWaits, NoOp, TypeOK, SharedTypes, Handlers
  <2> QED
    BY <1>6, <2>1
<1>14. CASE Beat \/ LockExpires \/ ExpireTextKey \/ (\E g \in Groups : DeleteGroup(g))
              \/ UNCHANGED vars
  BY <1>7, <1>14 DEF Beat, LockExpires, ExpireTextKey, DeleteGroup, dbVars, redisVars, roundVars, workVars,
                     vars
<1>15. ~Rollback
  BY DEF Rollback
<1> QED
  BY <1>4, <1>9, <1>10, <1>11, <1>12, <1>13, <1>14, <1>15 DEF Next, UserStep

(***************************************************************************)
(* While Redis and the commits of the bot work, a message is never older   *)
(* than what its round loaded and never newer than what the bot commits    *)
(* (campaign_signals.py:61-64).                                            *)
(***************************************************************************)
THEOREM TextsAreCommitted == ASSUME Failures = {} PROVE Spec => []TextFromDatabase
<1>1. Init => TypeOK /\ BotIsSound /\ TextsAgree /\ TextFromDatabase
  <2> SUFFICES ASSUME Init PROVE TypeOK /\ BotIsSound /\ TextsAgree /\ TextFromDatabase
    OBVIOUS
  <2>1. TypeOK /\ BotIsSound
    BY InitTypes
  <2>2. \A w \in Workers : snap[w].text = 0 /\ pc[w] = "idle"
    BY DEF Init, NoSnap, NoText
  <2>3. text = 1 /\ textKey = NoText /\ bot.op = "none"
    BY DEF Init, NoOp
  <2>4. TextsAgree /\ TextFromDatabase
    BY <2>2, <2>3 DEF TextsAgree, TextFromDatabase
  <2> QED
    BY <2>1, <2>4
<1>2. TypeOK /\ BotIsSound /\ TextsAgree /\ TextFromDatabase /\ [Next]_vars =>
        (TypeOK /\ BotIsSound /\ TextsAgree /\ TextFromDatabase)'
  <2> SUFFICES ASSUME TypeOK, BotIsSound, TextsAgree, TextFromDatabase, [Next]_vars
               PROVE  (TypeOK /\ BotIsSound /\ TextsAgree /\ TextFromDatabase)'
    OBVIOUS
  <2>1. TypeOK' /\ BotIsSound'
    BY StepTypes
  <2>2. TextsAgree' /\ TextFromDatabase'
    BY StepTexts
  <2> QED
    BY <2>1, <2>2
<1> QED
  BY <1>1, <1>2, PTL DEF Spec

-----------------------------------------------------------------------------
(* Who changes what *)

\* A step of a worker.
WorkerStep(w) ==
  RoundStep(w) \/ RateSlotError(w) \/ TimeLimit(w) \/ Crash(w) \/ StartTask(w)

\* A step of the bot, the beat or a key that expires.
OtherStep ==
  \/ Beat \/ LockExpires \/ UserStep \/ SignalDelete \/ Commit \/ Rollback
  \/ ExpireTextKey \/ UNCHANGED vars

\* A step is one of a worker, of the others, or of time.
LEMMA StepSplits ==
  ASSUME [Next]_vars
  PROVE  (\E w \in Workers : WorkerStep(w)) \/ OtherStep \/ Tick
BY DEF Next, WorkerStep, OtherStep

\* Workers write neither the campaign nor the signals of the bot.
LEMMA WorkerFrame ==
  ASSUME NEW w \in Workers, WorkerStep(w)
  PROVE  UNCHANGED <<status, interval, text, groups, rows, textKey, bot, late>>
BY DEF WorkerStep, RoundStep, LoadCampaign, ReadGroups, EntryRevoke, PlanRound, CheckRevoke,
       PickGroup, Deliver, SendFails, MidRevoke, Record, FinishSchedule, ClearRevoke, EndTask,
       RateSlotError, TimeLimit, Crash, StartTask, dbVars, redisVars, histVars

\* Only a reschedule writes the due time, and only the last step of a revoked
\* round the revoke key.
LEMMA WorkerSchedule ==
  ASSUME NEW w \in Workers, WorkerStep(w)
  PROVE  /\ ~FinishSchedule(w) => dueIn' = dueIn
         /\ ~ClearRevoke(w) => revoke' = revoke
BY DEF WorkerStep, RoundStep, LoadCampaign, ReadGroups, EntryRevoke, PlanRound, CheckRevoke,
       PickGroup, Deliver, SendFails, MidRevoke, Record, FinishSchedule, ClearRevoke, EndTask,
       RateSlotError, TimeLimit, Crash, StartTask, dbVars, redisVars

\* The others leave the rounds alone.
LEMMA OtherFrame == ASSUME OtherStep PROVE UNCHANGED workVars
BY DEF OtherStep, Beat, LockExpires, UserStep, BeginText, BeginGroups, BeginInterval, BeginStop,
       BeginRival, BeginStart, BeginDelete, Begin, DeleteGroup, SignalDelete, Commit, Rollback,
       ExpireTextKey, roundVars, vars

\* The handlers up to their commit change no row, and raise the revoke key.
SignalStep ==
  \/ Beat \/ LockExpires \/ SignalDelete \/ Rollback \/ ExpireTextKey \/ UNCHANGED vars
  \/ BeginText \/ BeginGroups \/ BeginInterval \/ BeginStop \/ BeginRival \/ BeginStart \/ BeginDelete

\* What these steps leave as it is, when Redis does not fail.
LEMMA SignalFrame ==
  ASSUME SignalStep, "redis" \notin Failures
  PROVE  /\ UNCHANGED dbVars /\ UNCHANGED histVars
         /\ revoke' = RevokeTTL \/ UNCHANGED <<revoke, since>>
BY DEF SignalStep, Beat, LockExpires, SignalDelete, Rollback, ExpireTextKey, vars, BeginText,
       BeginGroups, BeginInterval, BeginStop, BeginRival, BeginStart, BeginDelete, Begin, SetRevoke,
       redisVars, roundVars

\* What others do besides is a commit or the deletion of a group.
LEMMA OtherSplits ==
  ASSUME OtherStep
  PROVE  SignalStep \/ Commit \/ \E g \in Groups : DeleteGroup(g)
BY DEF OtherStep, SignalStep, UserStep

\* While a round goes on every other worker idles.
LEMMA OneInRound ==
  ASSUME RoundsHoldLock, NEW w \in Workers, InRound(w), NEW v \in Workers \ {w}
  PROVE  pc[v] = "idle"
BY DEF RoundsHoldLock, InRound

-----------------------------------------------------------------------------
(* A signal reaches the round in flight *)

\* The next round is put off by the fast delay or by an interval.
LEMMA StepPutsOff ==
  ASSUME TypeOK, BotIsSound, RoundsHoldLock, ClearingPutsOff, [Next]_vars
  PROVE  ClearingPutsOff'
<1> USE DEF TypeOK
<1>1. CASE \E w \in Workers : WorkerStep(w)
  <2> PICK w \in Workers : WorkerStep(w)
    BY <1>1
  <2>1. ASSUME FinishSchedule(w) PROVE ClearingPutsOff'
    <3>1. InRound(w)
      BY <2>1 DEF FinishSchedule, InRound
    <3>2. \A v \in Workers \ {w} : pc'[v] = "idle"
      BY <3>1, OneInRound, OthersStay DEF WorkerStep
    <3>3. pc'[w] = "clearing" => dueIn' = FastDelay
      BY <2>1 DEF FinishSchedule, Reschedule, Abort, Goto, RoundTypes
    <3> QED
      BY <3>2, <3>3, RoundAssumption DEF ClearingPutsOff
  <2>2. ASSUME ~FinishSchedule(w) PROVE ClearingPutsOff'
    <3>1. dueIn' = dueIn
      BY <2>2, WorkerSchedule
    <3>2. pc'[w] = "clearing" => pc[w] = "clearing"
      <4>1. CASE Abort(w)
        BY <4>1 DEF Abort, Goto, RoundTypes
      <4>2. CASE (PlanRound(w) \/ Record(w)) /\ ~Abort(w)
        BY <4>2 DEF PlanRound, Record, Goto, RoundTypes
      <4>3. CASE ~PlanRound(w) /\ ~Record(w)
        BY <2>2, <4>3
        DEF WorkerStep, RoundStep, LoadCampaign, ReadGroups, EntryRevoke, CheckRevoke, PickGroup,
            Deliver, SendFails, MidRevoke, ClearRevoke, EndTask, RateSlotError, TimeLimit, Crash,
            StartTask, Goto, RoundTypes
      <4> QED
        BY <4>1, <4>2, <4>3
    <3>3. \A v \in Workers \ {w} : pc'[v] = pc[v]
      BY OthersStay DEF WorkerStep
    <3> QED
      BY <3>1, <3>2, <3>3 DEF ClearingPutsOff
  <2> QED
    BY <2>1, <2>2
<1>2. CASE OtherStep
  <2>1. pc' = pc
    BY <1>2, OtherFrame DEF roundVars, workVars
  <2>2. dueIn' = dueIn \/ dueIn' \in Intervals
    <3>1. CASE SignalStep
      BY <3>1 DEF SignalStep, Beat, LockExpires, SignalDelete, Rollback, ExpireTextKey, vars,
                  BeginText, BeginGroups, BeginInterval, BeginStop, BeginRival, BeginStart, BeginDelete,
                  Begin, dbVars
    <3>2. CASE Commit
      BY <3>2 DEF Commit, CommitText, CommitGroups, CommitInterval, CommitStop, CommitStart,
                  CommitDelete, BotIsSound, SharedTypes
    <3>3. CASE \E g \in Groups : DeleteGroup(g)
      BY <3>3 DEF DeleteGroup
    <3> QED
      BY <1>2, <3>1, <3>2, <3>3, OtherSplits
  <2>3. \A i \in Intervals : i > 0
    <3>1. Intervals \subseteq Nat \ {0}
      BY RoundAssumption
    <3> QED
      BY <3>1
  <2> QED
    BY <2>1, <2>2, <2>3 DEF ClearingPutsOff
<1>3. CASE Tick
  BY <1>3 DEF Tick, MayPass, ClearingPutsOff
<1> QED
  BY <1>1, <1>2, <1>3, StepSplits

\* A round that cannot load the campaign does not come to look at the key.
LEMMA NoneLoads ==
  ASSUME RoundTypes, NoneLoaded, dueIn > 0, NEW w \in Workers, WorkerStep(w)
  PROVE  NoneLoaded' /\ UNCHANGED <<dueIn, revoke>>
<1> USE DEF RoundTypes, Goto
<1>1. pc[w] \in {"idle", "locked", "leaving"}
  BY DEF NoneLoaded
<1>2. StartTask(w) \/ LoadCampaign(w) \/ EndTask(w) \/ TimeLimit(w) \/ Crash(w)
  BY <1>1 DEF WorkerStep, RoundStep, ReadGroups, EntryRevoke, PlanRound, CheckRevoke, PickGroup,
              Deliver, SendFails, Outcome, MidRevoke, Record, FinishSchedule, ClearRevoke,
              RateSlotError
<1>3. pc'[w] \in {"idle", "locked", "leaving"}
  BY <1>1, <1>2 DEF StartTask, LoadCampaign, EndTask, TimeLimit, Crash
<1>4. \A v \in Workers \ {w} : pc'[v] = pc[v]
  BY OthersStay DEF WorkerStep
<1>5. UNCHANGED <<dueIn, revoke>>
  BY <1>2 DEF StartTask, LoadCampaign, EndTask, TimeLimit, Crash, dbVars, redisVars
<1> QED
  BY <1>3, <1>4, <1>5 DEF NoneLoaded

\* The round that clears the key is the only one, and has put off the next.
LEMMA ClearLeavesNone ==
  ASSUME RoundTypes, RoundsHoldLock, ClearingPutsOff, NEW w \in Workers, ClearRevoke(w)
  PROVE  dueIn' = dueIn /\ dueIn' > 0 /\ NoneLoaded'
<1>1. pc[w] = "clearing" /\ pc'[w] = "leaving" /\ dueIn' = dueIn
  BY DEF ClearRevoke, Goto, RoundTypes, dbVars
<1>2. \A v \in Workers \ {w} : pc'[v] = "idle"
  BY <1>1, OneInRound, OthersStay DEF InRound, RoundStep
<1> QED
  BY <1>1, <1>2 DEF ClearingPutsOff, NoneLoaded

\* Every step keeps a signal ahead of its commit.
LEMMA StepSignalAhead ==
  ASSUME "redis" \notin Failures, TypeOK, RoundsHoldLock, ClearingPutsOff, SignalAhead,
         [Next]_vars
  PROVE  SignalAhead'
<1> USE DEF TypeOK
<1>1. CASE \E w \in Workers : WorkerStep(w)
  <2> PICK w \in Workers : WorkerStep(w)
    BY <1>1
  <2>1. bot' = bot
    BY WorkerFrame
  <2>2. CASE dueIn > 0 /\ NoneLoaded
    BY <2>2, NoneLoads DEF SignalAhead
  <2>3. CASE ClearRevoke(w)
    BY <2>3, ClearLeavesNone DEF SignalAhead
  <2>4. CASE revoke = RevokeTTL /\ ~ClearRevoke(w)
    BY <2>4, WorkerSchedule DEF SignalAhead
  <2>5. CASE ~Announced
    BY <2>1, <2>5 DEF SignalAhead, Announced
  <2> QED
    BY <2>2, <2>3, <2>4, <2>5 DEF SignalAhead
<1>2. CASE BeginText \/ BeginGroups \/ BeginStop \/ BeginRival \/ BeginDelete \/ SignalDelete
  BY <1>2 DEF BeginText, BeginGroups, BeginStop, BeginRival, BeginDelete, SignalDelete, SetRevoke,
              SignalAhead
<1>3. CASE BeginInterval \/ BeginStart \/ Commit \/ Rollback
  <2>1. ~Announced'
    <3>1. CASE BeginInterval
      BY <3>1 DEF BeginInterval, NoOp, Announced
    <3>2. CASE BeginStart
      BY <3>2 DEF BeginStart, NoOp, Announced
    <3>3. CASE Commit \/ Rollback
      BY <3>3 DEF Commit, Rollback, NoOp, Announced
    <3> QED
      BY <1>3, <3>1, <3>2, <3>3
  <2> QED
    BY <2>1 DEF SignalAhead
<1>4. CASE Beat \/ LockExpires \/ ExpireTextKey \/ (\E g \in Groups : DeleteGroup(g))
             \/ UNCHANGED vars
  BY <1>4 DEF Beat, LockExpires, ExpireTextKey, DeleteGroup, dbVars, redisVars, roundVars, workVars, vars,
              NoneLoaded, Announced, SignalAhead
<1>5. CASE Tick
  <2>1. bot.val \in Nat /\ bot \in Handlers
    BY DEF SharedTypes, Handlers
  <2>2. \/ bot'.op \in {"none", "grace"}
        \/ bot'.op = "rival" /\ bot'.val = bot.val + 1
    BY <1>5, <2>1 DEF Tick, BotWaits, NoOp, Handlers
  <2> QED
    BY <2>1, <2>2 DEF SignalAhead, Announced
<1> QED
  BY <1>1, <1>2, <1>3, <1>4, <1>5 DEF Next, UserStep, WorkerStep

\* A round looks at the key after an iteration at most.
LEMMA CheckIsNear ==
  ASSUME RoundTypes, NEW w \in Workers
  PROVE  TimeToCheck(w) \in 0 .. IterMax
BY RoundAssumption DEF RoundTypes, TimeToCheck

\* A worker does not tell itself, and a message counts as one.
LEMMA SinceOfStep ==
  ASSUME TypeOK, NEW w \in Workers, WorkerStep(w)
  PROVE  since'[w] \in {since[w], NotTold} \/ (Deliver(w) /\ Told(w) /\ since'[w] = since[w] + 1)
<1> USE DEF TypeOK, RoundTypes
<1>1. CASE PlanRound(w) \/ Record(w)
  <2>1. CASE Abort(w)
    BY <2>1 DEF Abort, Close
  <2>2. CASE ~Abort(w)
    BY <1>1, <2>2 DEF PlanRound, Record
  <2> QED
    BY <2>1, <2>2
<1>2. CASE FinishSchedule(w)
  BY <1>2 DEF FinishSchedule, Abort, Close
<1>3. CASE Deliver(w)
  BY <1>3 DEF Deliver
<1>4. CASE ~PlanRound(w) /\ ~Record(w) /\ ~FinishSchedule(w) /\ ~Deliver(w)
  BY <1>4
  DEF WorkerStep, RoundStep, LoadCampaign, ReadGroups, EntryRevoke, CheckRevoke, PickGroup,
      SendFails, MidRevoke, ClearRevoke, EndTask, RateSlotError, TimeLimit, Crash, StartTask, Close
<1> QED
  BY <1>1, <1>2, <1>3, <1>4

\* Only the bot tells a round.
LEMMA ToldStays ==
  ASSUME TypeOK, NEW w \in Workers, WorkerStep(w), Told(w)'
  PROVE  Told(w)
BY SinceOfStep DEF Told

\* The step of a round itself does not make it outdated.
LEMMA RoundStepOutdated ==
  ASSUME "redis" \notin Failures, TypeOK, ToldSendIsLast, NEW w \in Workers, WorkerStep(w),
         Outdated(w) => revoke > TimeToCheck(w), Outdated(w)'
  PROVE  (revoke > TimeToCheck(w))'
<1> USE DEF TypeOK, RoundTypes, Goto
<1>1. UNCHANGED <<status, text, groups, rows, late>>
  BY WorkerFrame
<1>2. pc'[w] \in {"loaded", "read", "planning", "head", "picking", "sending"}
  BY DEF Outdated, MaySend
<1>a. Told(w)' => Told(w)
  BY ToldStays
<1>3. ~ClearRevoke(w) /\ revoke' = revoke
  BY <1>2, WorkerSchedule DEF ClearRevoke
<1>4. ~Abort(w) /\ ~EndTask(w) /\ ~TimeLimit(w) /\ ~Crash(w)
  BY <1>2 DEF Abort, EndTask, TimeLimit, Crash
<1>5. CASE ReadGroups(w) \/ EntryRevoke(w) \/ PlanRound(w) \/ Deliver(w) \/ SendFails(w)
  <2>1. /\ pc[w] \in {"loaded", "read", "planning", "sending"}
        /\ pc'[w] \in {"read", "planning", "head"}
        /\ left'[w] = left[w]
    <3>1. CASE PlanRound(w)
      BY <1>2, <1>4, <3>1 DEF PlanRound
    <3>2. CASE ~PlanRound(w)
      BY <1>2, <1>5, <3>2 DEF ReadGroups, EntryRevoke, Deliver, SendFails, Outcome
    <3> QED
      BY <3>1, <3>2
  <2>2. /\ snap'[w].text = snap[w].text
        /\ ~ReadGroups(w) => pc[w] # "loaded" /\ snap'[w].groups = snap[w].groups
        /\ ReadGroups(w) => snap'[w].groups = groups
    <3>1. CASE ReadGroups(w)
      BY <3>1 DEF ReadGroups, Snapshots
    <3>2. CASE PlanRound(w)
      <4>1. PICK plan \in SUBSET snap[w].groups : snap' = [snap EXCEPT ![w].plan = plan]
        BY <1>4, <3>2 DEF PlanRound
      <4> QED
        BY <3>2, <4>1 DEF PlanRound, ReadGroups, Snapshots
    <3>3. CASE EntryRevoke(w) \/ Deliver(w) \/ SendFails(w)
      BY <3>3 DEF EntryRevoke, Deliver, SendFails, Outcome, ReadGroups
    <3> QED
      BY <1>5, <3>1, <3>2, <3>3
  <2>3. Outdated(w)
    BY <1>1, <1>a, <2>1, <2>2 DEF Outdated, MaySend, SharedTypes
  <2> QED
    BY <1>3, <2>1, <2>3 DEF TimeToCheck
<1>6. CASE LoadCampaign(w)
  <2>1. status = "running" /\ pc'[w] = "loaded" /\ snap'[w].text = text
    <3>1. status = "running" /\ dueIn = 0
      BY <1>2, <1>6 DEF LoadCampaign
    <3> QED
      BY <1>6, <3>1 DEF LoadCampaign, NoSnap
  <2>2. ~Told(w)
    BY <1>6 DEF LoadCampaign, ToldSendIsLast
  <2> QED
    BY <1>1, <1>a, <2>1, <2>2 DEF Outdated, SharedTypes, Texts
<1>7. CASE CheckRevoke(w)
  <2>1. pc[w] = "head" /\ pc'[w] = "picking" /\ revoke = 0 /\ UNCHANGED snap
    BY <1>2, <1>7 DEF CheckRevoke, IsRevoked, SharedTypes
  <2>2. Outdated(w)
    BY <1>1, <1>a, <2>1 DEF Outdated, MaySend
  <2> QED
    BY <2>1, <2>2, CheckIsNear
<1>8. CASE PickGroup(w)
  <2>1. /\ pc[w] = "picking" /\ pc'[w] = "sending" /\ left'[w] = IterMax /\ UNCHANGED snap
    BY <1>8 DEF PickGroup
  <2>2. Outdated(w)
    BY <1>1, <1>a, <2>1 DEF Outdated, MaySend
  <2> QED
    BY <1>3, <2>1, <2>2 DEF TimeToCheck
<1>9. CASE StartTask(w) \/ RateSlotError(w) \/ MidRevoke(w) \/ FinishSchedule(w) \/ Record(w)
  BY <1>2, <1>4, <1>9 DEF StartTask, RateSlotError, MidRevoke, FinishSchedule, Reschedule, Record
<1> QED
  BY <1>3, <1>4, <1>5, <1>6, <1>7, <1>8, <1>9 DEF WorkerStep, RoundStep

\* Every step keeps the revoke key of outdated rounds.
LEMMA StepOutdated ==
  ASSUME "redis" \notin Failures, IterMax < RevokeTTL, TypeOK, RoundsHoldLock, SignalAhead,
         ToldSendIsLast, OutdatedIsRevoked, [Next]_vars
  PROVE  OutdatedIsRevoked'
<1> USE RoundAssumption DEF TypeOK
<1>1. CASE \E w \in Workers : WorkerStep(w)
  <2> PICK w \in Workers : WorkerStep(w)
    BY <1>1
  <2>1. Outdated(w)' => (revoke > TimeToCheck(w))'
    BY RoundStepOutdated DEF OutdatedIsRevoked
  <2>2. ASSUME NEW v \in Workers \ {w}, Outdated(v)' PROVE (revoke > TimeToCheck(v))'
    <3>1. UNCHANGED <<snap[v], pc[v], left[v], since[v]>>
      BY OthersStay DEF WorkerStep
    <3>2. Outdated(v)
      BY <2>2, <3>1, WorkerFrame DEF Outdated, MaySend, Told
    <3>3. ~ClearRevoke(w)
      BY <3>2, OneInRound DEF ClearRevoke, InRound, Outdated, MaySend
    <3> QED
      BY <3>1, <3>2, <3>3, WorkerSchedule DEF OutdatedIsRevoked, TimeToCheck
  <2> QED
    BY <2>1, <2>2 DEF OutdatedIsRevoked
<1>2. ASSUME OtherStep, NEW v \in Workers, Outdated(v)' PROVE (revoke > TimeToCheck(v))'
  <2>1. UNCHANGED <<pc, snap, left>>
    BY <1>2, OtherFrame DEF workVars
  <2>2. TimeToCheck(v)' = TimeToCheck(v) /\ TimeToCheck(v) \in 0 .. IterMax
    BY <2>1, CheckIsNear DEF TimeToCheck
  <2>3. CASE revoke' = RevokeTTL
    BY <2>2, <2>3
  <2>4. CASE Outdated(v) /\ revoke' = revoke
    BY <2>2, <2>4 DEF OutdatedIsRevoked
  <2>5. CASE SignalStep
    <3>1. CASE UNCHANGED <<revoke, since>>
      <4>1. Outdated(v)
        BY <1>2, <2>1, <2>5, <3>1, SignalFrame DEF dbVars, histVars, Outdated, MaySend, Told
      <4> QED
        BY <2>4, <3>1, <4>1
    <3> QED
      BY <2>3, <2>5, <3>1, SignalFrame
  <2>6. CASE Commit
    <3>1. UNCHANGED <<revoke, since>>
      BY <2>6 DEF Commit, redisVars, roundVars
    <3>2. CASE Announced
      <4>1. ~NoneLoaded
        BY <1>2, <2>1 DEF Outdated, MaySend, NoneLoaded
      <4> QED
        BY <2>3, <3>1, <3>2, <4>1 DEF SignalAhead
    <3>4. CASE CommitStop /\ ~Announced
      <4>1. bot.val > 0
        BY <3>4 DEF CommitStop, Announced, SharedTypes, Handlers
      <4>2. late' = TRUE /\ status' = "paused" /\ UNCHANGED <<text, groups, rows>>
        BY <3>4, <4>1, Zenon DEF CommitStop
      <4>3. Outdated(v)
        BY <1>2, <2>1, <3>1, <4>2 DEF Outdated, MaySend, Told
      <4> QED
        BY <2>4, <3>1, <4>3
    <3>3. CASE CommitInterval \/ CommitStart
      <4>1. UNCHANGED <<text, groups, rows, late>> /\ status' \in {status, "running"}
        BY <3>3 DEF CommitInterval, CommitStart, histVars
      <4>2. Outdated(v)
        BY <1>2, <2>1, <3>1, <4>1 DEF Outdated, MaySend, Told
      <4> QED
        BY <2>4, <3>1, <4>2
    <3> QED
      BY <2>6, <3>2, <3>3, <3>4 DEF Commit, CommitText, CommitGroups, CommitDelete, Announced
  <2>7. CASE \E g \in Groups : DeleteGroup(g)
    <3>1. PICK g \in Groups : DeleteGroup(g)
      BY <2>7
    <3>2. UNCHANGED <<status, text, revoke, since, late>>
          /\ groups' = groups \ {g} /\ rows' = rows \ {g}
      BY <3>1 DEF DeleteGroup, redisVars, roundVars, histVars
    <3>3. groups = snap[v].groups \cap rows => groups' = snap[v].groups \cap rows'
      BY <3>2
    <3>4. Outdated(v)
      BY <1>2, <2>1, <3>2, <3>3 DEF Outdated, MaySend, Told
    <3> QED
      BY <2>4, <3>2, <3>4
  <2> QED
    BY <1>2, <2>5, <2>6, <2>7, OtherSplits
<1>3. ASSUME Tick, NEW v \in Workers, Outdated(v)' PROVE (revoke > TimeToCheck(v))'
  <2>1. UNCHANGED <<status, text, groups, rows, pc, snap, since, late>> /\ MayPass(v)
    BY <1>3 DEF Tick
  <2>2. Outdated(v)
    BY <1>3, <2>1 DEF Outdated, MaySend, Told
  <2>3. pc[v] \in {"sending", "head"} /\ left[v] > 0
    BY <2>1, <2>2 DEF MayPass, Outdated, MaySend
  <2>4. revoke > left[v] /\ left[v] \in Nat /\ revoke \in Nat
    BY <2>2, <2>3 DEF OutdatedIsRevoked, TimeToCheck, RoundTypes, SharedTypes
  <2>5. revoke' = revoke - 1 /\ left'[v] = left[v] - 1
    BY <1>3, <2>3, <2>4 DEF Tick, CountDown
  <2> QED
    BY <2>1, <2>3, <2>4, <2>5 DEF TimeToCheck
<1> QED
  BY <1>1, <1>2, <1>3, StepSplits DEF OutdatedIsRevoked

-----------------------------------------------------------------------------
(* The text goes forward *)

\* What one worker's part of TextsForward says.
TextForward(w) ==
  /\ snap[w].text <= text
  /\ pc[w] = "sending" => msg[w].text >= snap[w].text

\* The text of a snapshot is the one in the database when the round loads it.
LEMMA SnapText ==
  ASSUME TypeOK, NEW w \in Workers, WorkerStep(w)
  PROVE  /\ snap'[w].text \in {snap[w].text, text, 0}
         /\ pc[w] \in {"head", "picking", "sending"} /\ pc'[w] \in {"head", "picking", "sending"}
              => snap'[w] = snap[w]
<1> USE DEF TypeOK, RoundTypes, Goto
<1>1. CASE EndTask(w) \/ TimeLimit(w) \/ Crash(w) \/ Abort(w)
  BY <1>1 DEF EndTask, TimeLimit, Crash, Abort, Close, NoSnap, NoText
<1>2. CASE LoadCampaign(w)
  <2>1. pc[w] = "locked"
    BY <1>2 DEF LoadCampaign
  <2> QED
    BY <1>2, <2>1, LoadedSnap
<1>3. CASE ReadGroups(w)
  BY <1>3 DEF ReadGroups, Snapshots
<1>4. CASE PlanRound(w) /\ ~Abort(w)
  <2>1. PICK plan \in SUBSET snap[w].groups : snap' = [snap EXCEPT ![w].plan = plan]
    BY <1>4 DEF PlanRound
  <2> QED
    BY <1>4, <2>1 DEF PlanRound, Snapshots
<1>5. CASE \/ StartTask(w) \/ EntryRevoke(w) \/ CheckRevoke(w) \/ PickGroup(w)
           \/ RateSlotError(w) \/ Deliver(w) \/ SendFails(w) \/ MidRevoke(w) \/ ClearRevoke(w)
           \/ (Record(w) \/ FinishSchedule(w)) /\ ~Abort(w)
  <2>1. snap' = snap
    BY <1>5 DEF StartTask, EntryRevoke, CheckRevoke, PickGroup, RateSlotError, Deliver, SendFails,
                Outcome, MidRevoke, ClearRevoke, Record, FinishSchedule
  <2> QED
    BY <2>1
<1> QED
  BY <1>1, <1>2, <1>3, <1>4, <1>5 DEF WorkerStep, RoundStep

\* Only a pick leads to a send.
LEMMA SendingAfterPick ==
  ASSUME TypeOK, NEW w \in Workers, WorkerStep(w), pc'[w] = "sending"
  PROVE  PickGroup(w)
<1> USE DEF TypeOK, RoundTypes, Goto
<1>1. ~Abort(w)
  BY DEF Abort
<1>2. ~PlanRound(w)
  BY <1>1 DEF PlanRound
<1>3. ~Record(w)
  BY <1>1 DEF Record
<1> QED
  BY <1>1, <1>2, <1>3
  DEF WorkerStep, RoundStep, LoadCampaign, ReadGroups, EntryRevoke, CheckRevoke, Deliver,
      SendFails, MidRevoke, FinishSchedule, Reschedule, ClearRevoke, EndTask, RateSlotError,
      TimeLimit, Crash, StartTask

\* Only a look at the revoke key that finds none leads to a pick.
LEMMA PickingAfterCheck ==
  ASSUME TypeOK, NEW w \in Workers, WorkerStep(w), pc'[w] = "picking"
  PROVE  CheckRevoke(w)
<1> USE DEF TypeOK, RoundTypes, Goto
<1>1. ~Abort(w)
  BY DEF Abort
<1>2. ~PlanRound(w)
  BY <1>1 DEF PlanRound
<1>3. ~Record(w)
  BY <1>1 DEF Record
<1> QED
  BY <1>1, <1>2, <1>3
  DEF WorkerStep, RoundStep, LoadCampaign, ReadGroups, EntryRevoke, PickGroup, Deliver,
      SendFails, MidRevoke, FinishSchedule, Reschedule, ClearRevoke, EndTask, RateSlotError,
      TimeLimit, Crash, StartTask

\* A message has the text of the key or of the snapshot.
LEMMA RoundStepForward ==
  ASSUME "redis" \notin Failures, TypeOK, BotIsSound, TextsForward, NEW w \in Workers,
         WorkerStep(w)
  PROVE  TextForward(w)'
<1> USE DEF TypeOK
<1>1. text' = text
  BY WorkerFrame
<1>2. text \in Nat /\ textKey \in Nat /\ snap[w].text \in Nat /\ bot.val \in Nat
  BY RoundAssumption DEF SharedTypes, RoundTypes, Snapshots, Handlers, Texts
<1>3. snap'[w].text \in Nat /\ snap'[w].text <= text
  BY <1>2, SnapText DEF TextsForward
<1>4. ASSUME pc'[w] = "sending" PROVE msg'[w].text >= snap'[w].text
  <2>1. PickGroup(w)
    BY <1>4, SendingAfterPick
  <2>2. PICK g \in todo[w], t \in {textKey, snap[w].text} :
          CurrentText(w, t) /\ msg' = [msg EXCEPT ![w] = [group |-> {g}, text |-> t]]
    BY <2>1 DEF PickGroup
  <2>3. t = IF textKey = NoText THEN snap[w].text ELSE textKey
    BY <2>2 DEF CurrentText
  <2>4. t >= snap[w].text
    BY <1>2, <2>3 DEF TextsForward
  <2>5. msg'[w].text = t /\ snap' = snap
    BY <2>1, <2>2 DEF PickGroup, RoundTypes
  <2> QED
    BY <2>4, <2>5
<1> QED
  BY <1>1, <1>3, <1>4 DEF TextForward

\* Every step keeps the texts going forward.
LEMMA StepForward ==
  ASSUME "redis" \notin Failures, TypeOK, BotIsSound, TextsForward, [Next]_vars
  PROVE  TextsForward'
<1> USE DEF TypeOK
<1>1. /\ text \in Nat /\ textKey \in Nat /\ bot.val \in Nat
      /\ \A w \in Workers : TextForward(w)
      /\ \A w \in Workers : snap[w].text \in Nat
  BY RoundAssumption DEF SharedTypes, RoundTypes, Snapshots, Handlers, Texts, TextsForward,
                         TextForward
<1>2. CASE \E w \in Workers : WorkerStep(w)
  <2> PICK w \in Workers : WorkerStep(w)
    BY <1>2
  <2>1. UNCHANGED <<text, textKey, bot>>
    BY WorkerFrame
  <2>2. TextForward(w)'
    BY RoundStepForward
  <2>3. \A v \in Workers \ {w} : UNCHANGED <<snap[v], pc[v], msg[v]>>
    BY OthersStay DEF WorkerStep
  <2>4. \A v \in Workers \ {w} : TextForward(v)'
    BY <1>1, <2>1, <2>3 DEF TextForward
  <2> QED
    BY <2>1, <2>2, <2>4 DEF TextsForward, TextForward
\* The text in the database does not go back.
<1>3. ASSUME UNCHANGED <<snap, pc, msg>>, text' \in Nat, text <= text',
             textKey' # NoText => textKey' >= IF bot'.op = "text" THEN bot'.val ELSE text',
             bot'.op = "text" => bot'.val > text'
      PROVE  TextsForward'
  <2>1. \A w \in Workers : TextForward(w)'
    BY <1>1, <1>3 DEF TextForward
  <2> QED
    BY <1>3, <2>1 DEF TextsForward, TextForward
<1>4. CASE UNCHANGED <<snap, pc, msg, text>> /\ textKey' \in {textKey, NoText} /\ bot'.op # "text"
  BY <1>1, <1>3, <1>4 DEF TextsForward
<1>5. CASE UNCHANGED <<snap, pc, msg, text, bot>> /\ textKey' \in {textKey, NoText}
  BY <1>1, <1>3, <1>5 DEF TextsForward
<1>6. CASE BeginText
  <2> DEFINE t == Later(text, textKey) + 1
  <2>1. /\ textKey' = t /\ bot'.op = "text" /\ bot'.val = t
        /\ UNCHANGED <<snap, pc, msg, text>>
    BY <1>6 DEF BeginText, Begin, SetText, NoOp, dbVars, roundVars, workVars
  <2>2. t \in Nat /\ t > text
    BY <1>1 DEF Later
  <2> HIDE DEF t
  <2> QED
    BY <1>1, <1>3, <2>1, <2>2
<1>7. CASE BeginDelete \/ SignalDelete
  <2>1. UNCHANGED <<snap, pc, msg, text>> /\ textKey' = NoText
    BY <1>7 DEF BeginDelete, SignalDelete, Begin, SetText, dbVars, roundVars, workVars
  <2>2. bot'.op # "text"
    <3>1. CASE BeginDelete
      BY <3>1 DEF BeginDelete, NoOp
    <3>2. CASE SignalDelete
      BY <3>2 DEF SignalDelete, NoOp
    <3> QED
      BY <1>7, <3>1, <3>2
  <2> QED
    BY <1>4, <2>1, <2>2
<1>8. CASE BeginGroups \/ BeginInterval \/ BeginStop \/ BeginRival \/ BeginStart \/ Rollback
  <2>1. UNCHANGED <<snap, pc, msg, text, textKey>>
    BY <1>8 DEF BeginGroups, BeginInterval, BeginStop, BeginRival, BeginStart, Rollback, Begin, dbVars,
                redisVars, roundVars, workVars
  <2>2. bot'.op # "text"
    <3>1. CASE BeginGroups
      BY <3>1 DEF BeginGroups, NoOp
    <3>2. CASE BeginInterval
      BY <3>2 DEF BeginInterval, NoOp
    <3>3. CASE BeginStop \/ BeginRival \/ BeginStart \/ Rollback
      BY <3>3 DEF BeginStop, BeginRival, BeginStart, Rollback, NoOp
    <3> QED
      BY <1>8, <3>1, <3>2, <3>3
  <2> QED
    BY <1>4, <2>1, <2>2
<1>9. CASE Commit
  <2>1. bot'.op = "none" /\ UNCHANGED <<snap, pc, msg, textKey>>
    BY <1>9 DEF Commit, NoOp, redisVars, roundVars, workVars
  <2>2. CASE CommitText
    BY <1>1, <1>3, <2>1, <2>2 DEF CommitText, TextsForward
  <2>3. CASE CommitGroups \/ CommitInterval \/ CommitStop \/ CommitStart \/ CommitDelete
    BY <1>4, <2>1, <2>3 DEF CommitGroups, CommitInterval, CommitStop, CommitStart, CommitDelete
  <2> QED
    BY <1>9, <2>2, <2>3 DEF Commit
<1>10. CASE Tick
  <2>1. UNCHANGED <<snap, pc, msg, text, textKey>> /\ bot'.op = bot.op /\ bot'.op # "text"
    BY <1>10 DEF Tick, BotWaits, NoOp, SharedTypes, Handlers
  <2> QED
    BY <1>4, <2>1
<1>11. CASE Beat \/ LockExpires \/ ExpireTextKey \/ (\E g \in Groups : DeleteGroup(g))
              \/ UNCHANGED vars
  BY <1>5, <1>11 DEF Beat, LockExpires, ExpireTextKey, DeleteGroup, dbVars, redisVars, roundVars, workVars,
                     vars
<1> QED
  BY <1>2, <1>6, <1>7, <1>8, <1>9, <1>10, <1>11 DEF Next, UserStep, WorkerStep

\* A stale message leaves a round behind that finds itself revoked.
LEMMA StepStaleSend ==
  ASSUME "redis" \notin Failures, TypeOK, RoundsHoldLock, OutdatedIsRevoked, TextsForward,
         StaleSendIsLast, [Next]_vars
  PROVE  StaleSendIsLast'
<1> USE DEF TypeOK
<1>1. CASE \E w \in Workers : WorkerStep(w)
  <2> PICK w \in Workers : WorkerStep(w)
    BY <1>1
  <2>1. text' = text /\ text \in Nat /\ staleSends \in Nat
    BY WorkerFrame, RoundAssumption DEF SharedTypes, HistoryTypes, Texts
  <2>2. \A v \in Workers \ {w} : UNCHANGED <<pc[v], snap[v]>>
    BY OthersStay DEF WorkerStep
  <2>3. snap[w].text \in Nat /\ msg[w].text \in Nat
    BY DEF RoundTypes, Snapshots, Messages, Texts
  <2>4. CASE Deliver(w)
    <3>1. pc[w] = "sending" /\ pc'[w] = "head"
      BY <2>4 DEF Deliver, Outcome, Goto, RoundTypes
    <3>2. \A v \in Workers \ {w} : pc'[v] = "idle"
      BY <2>2, <3>1, OneInRound DEF InRound
    <3>3. msg[w].text < text => staleSends = 0
      BY <2>1, <2>3, <3>1 DEF TextsForward, StaleSendIsLast
    <3>4. staleSends' <= 1
      BY <2>1, <2>4, <3>3 DEF Deliver, StaleSendIsLast
    <3> QED
      BY <3>1, <3>2, <3>4 DEF StaleSendIsLast
  <2>5. CASE ~Deliver(w)
    <3>1. staleSends' = staleSends
      BY <2>5 DEF WorkerStep, RoundStep, LoadCampaign, ReadGroups, EntryRevoke, PlanRound,
                  CheckRevoke, PickGroup, SendFails, MidRevoke, Record, FinishSchedule,
                  ClearRevoke, EndTask, RateSlotError, TimeLimit, Crash, StartTask, histVars
    <3>2. ASSUME pc'[w] = "picking" PROVE snap'[w].text >= text
      <4>1. CheckRevoke(w)
        BY <3>2, PickingAfterCheck
      <4>2. pc[w] = "head" /\ revoke = 0 /\ snap' = snap
        BY <3>2, <4>1 DEF CheckRevoke, IsRevoked, Goto, RoundTypes, SharedTypes
      <4>3. ~Outdated(w)
        BY <4>2, CheckIsNear DEF OutdatedIsRevoked
      <4> QED
        BY <2>1, <2>3, <4>2, <4>3 DEF Outdated, MaySend
    <3>3. ASSUME pc'[w] = "sending" PROVE pc[w] = "picking" /\ snap' = snap
      BY <3>3, SendingAfterPick DEF PickGroup
    <3> QED
      BY <2>1, <2>2, <3>1, <3>2, <3>3 DEF StaleSendIsLast
  <2> QED
    BY <2>4, <2>5
<1>2. CASE OtherStep
  <2>1. UNCHANGED <<pc, snap>>
    BY <1>2, OtherFrame DEF roundVars, workVars
  <2>2. CASE UNCHANGED <<text, staleSends>>
    BY <2>1, <2>2 DEF StaleSendIsLast
  <2>3. CASE CommitText
    BY <2>3 DEF CommitText, StaleSendIsLast
  <2>4. CASE Commit /\ ~CommitText
    BY <2>2, <2>4 DEF Commit, CommitGroups, CommitInterval, CommitStop, CommitStart, CommitDelete,
                      histVars
  <2>5. CASE SignalStep
    BY <2>2, <2>5, SignalFrame DEF dbVars, histVars
  <2>6. CASE \E g \in Groups : DeleteGroup(g)
    BY <2>2, <2>6 DEF DeleteGroup, histVars
  <2> QED
    BY <1>2, <2>3, <2>4, <2>5, <2>6, OtherSplits
<1>3. CASE Tick
  BY <1>3 DEF Tick, StaleSendIsLast
<1> QED
  BY <1>1, <1>2, <1>3, StepSplits

\* A round that sent a message since the signal finds itself revoked.
LEMMA StepToldSend ==
  ASSUME "redis" \notin Failures, TypeOK, OutdatedIsRevoked, ToldSendIsLast, [Next]_vars
  PROVE  ToldSendIsLast'
<1> USE DEF TypeOK, NotTold
<1>1. \A w \in Workers : since[w] \in {NotTold} \cup Nat
  BY DEF RoundTypes
<1>2. CASE \E w \in Workers : WorkerStep(w)
  <2> PICK w \in Workers : WorkerStep(w)
    BY <1>2
  <2>1. \A v \in Workers \ {w} : UNCHANGED <<pc[v], since[v]>>
    BY OthersStay DEF WorkerStep
  <2>2. since'[w] <= 1
    <3>1. CASE Deliver(w)
      <4>1. since[w] <= 0
        BY <3>1 DEF Deliver, Outcome, ToldSendIsLast
      <4> QED
        BY <1>1, <3>1, <4>1, SinceOfStep DEF ToldSendIsLast
    <3> QED
      BY <1>1, <3>1, SinceOfStep DEF ToldSendIsLast
  <2>3. ASSUME pc'[w] = "picking" PROVE since'[w] <= 0
    <3>1. CheckRevoke(w)
      BY <2>3, PickingAfterCheck
    <3>2. pc[w] = "head" /\ revoke = 0 /\ since' = since
      BY <2>3, <3>1 DEF CheckRevoke, IsRevoked, Goto, RoundTypes, SharedTypes
    <3>3. ~Outdated(w)
      BY <3>2, CheckIsNear DEF OutdatedIsRevoked
    <3> QED
      BY <3>2, <3>3 DEF Outdated, MaySend, Told
  <2>4. ASSUME pc'[w] = "sending" PROVE since'[w] <= 0
    BY <2>4, SendingAfterPick DEF PickGroup, ToldSendIsLast
  <2>5. ASSUME pc'[w] \in {"idle", "locked"} PROVE ~Told(w)'
    <3>1. CASE StartTask(w)
      BY <3>1 DEF StartTask, ToldSendIsLast, Told
    <3>2. CASE EndTask(w) \/ Crash(w)
      BY <3>2 DEF EndTask, Crash, Close, RoundTypes, Told
    <3>3. CASE ~StartTask(w) /\ ~EndTask(w) /\ ~Crash(w)
      <4> USE DEF Goto, RoundTypes
      <4>1. ~Abort(w)
        BY <2>5 DEF Abort
      <4>2. ~PlanRound(w) /\ ~Record(w)
        <5>1. ~PlanRound(w)
          BY <2>5, <4>1 DEF PlanRound
        <5>2. ASSUME Record(w) PROVE FALSE
          BY <2>5, <4>1, <5>2 DEF Record
        <5> QED
          BY <5>1, <5>2
      <4> QED
        BY <2>5, <3>3, <4>1, <4>2
        DEF WorkerStep, RoundStep, LoadCampaign, ReadGroups, EntryRevoke, CheckRevoke, PickGroup,
            Deliver, SendFails, MidRevoke, FinishSchedule, Reschedule, ClearRevoke, RateSlotError,
            TimeLimit
    <3> QED
      BY <3>1, <3>2, <3>3
  <2> QED
    BY <2>1, <2>2, <2>3, <2>4, <2>5 DEF ToldSendIsLast, Told
<1>3. CASE OtherStep
  <2>1. pc' = pc
    BY <1>3, OtherFrame DEF workVars
  <2>2. UNCHANGED since \/ Tell
    BY <1>3
    DEF OtherStep, Beat, LockExpires, UserStep, BeginText, BeginGroups, BeginInterval, BeginStop,
        BeginRival, BeginStart, BeginDelete, DeleteGroup, SignalDelete, Commit, Rollback,
        ExpireTextKey, SetRevoke, roundVars, vars
  <2>3. \A w \in Workers : since'[w] = since[w] \/ (since'[w] = 0 /\ MaySend(w))
    BY <2>2 DEF Tell
  <2> QED
    BY <1>1, <2>1, <2>3 DEF ToldSendIsLast, Told, MaySend
<1>4. CASE Tick
  BY <1>4 DEF Tick, ToldSendIsLast, Told
<1> QED
  BY <1>2, <1>3, <1>4, StepSplits

-----------------------------------------------------------------------------
\* In the beginning nothing is signalled and no round is running.
LEMMA InitSignals == Init => SignalInv
<1> SUFFICES ASSUME Init PROVE SignalInv
  OBVIOUS
<1>1. TypeOK /\ BotIsSound /\ RoundsHoldLock
  BY InitTypes, InitRounds
<1>2. \A w \in Workers : pc[w] = "idle" /\ snap[w].text = 0
  BY DEF Init, NoSnap, NoText
<1>3. bot.op = "none" /\ text = 1 /\ textKey = NoText /\ staleSends = 0
      /\ \A w \in Workers : since[w] = NotTold
  BY DEF Init, NoOp
<1>4. ClearingPutsOff /\ OutdatedIsRevoked
  BY <1>2 DEF ClearingPutsOff, OutdatedIsRevoked, Outdated, MaySend
<1>5. SignalAhead
  BY <1>3 DEF SignalAhead, Announced
<1>6. TextsForward /\ StaleSendIsLast
  BY <1>2, <1>3 DEF TextsForward, StaleSendIsLast
<1>7. ToldSendIsLast
  BY <1>2, <1>3 DEF ToldSendIsLast, Told, NotTold
<1> QED
  BY <1>1, <1>4, <1>5, <1>6, <1>7 DEF SignalInv

\* Every step keeps SignalInv.
LEMMA StepSignals ==
  ASSUME "redis" \notin Failures, IterMax < RevokeTTL, SignalInv, [Next]_vars
  PROVE  SignalInv'
<1> USE DEF SignalInv
<1>1. TypeOK' /\ BotIsSound' /\ RoundsHoldLock'
  BY StepTypes, StepLock
<1>2. ClearingPutsOff'
  BY StepPutsOff, RoundAssumption
<1>3. SignalAhead' /\ OutdatedIsRevoked'
  BY StepSignalAhead, StepOutdated
<1>4. TextsForward'
  BY StepForward
<1>5. StaleSendIsLast' /\ ToldSendIsLast'
  BY StepStaleSend, StepToldSend
<1> QED
  BY <1>1, <1>2, <1>3, <1>4, <1>5

(***************************************************************************)
(* A signal outlives the iteration it interrupts and puts an end to        *)
(* outdated texts, with commits that fail, or come late, or not at all     *)
(* (campaign_signals.py:21-29, campaign.py:843-848).                       *)
(***************************************************************************)
THEOREM SignalsArrive ==
  ASSUME "redis" \notin Failures, IterMax < RevokeTTL
  PROVE  Spec => []SignalInv
<1>1. SignalInv /\ [Next]_vars => SignalInv'
  BY StepSignals
<1> QED
  BY <1>1, InitSignals, PTL DEF Spec

(***************************************************************************)
(* A round whose campaign was stopped, deleted or regrouped finds itself   *)
(* revoked when it looks: commits may fail, earlier rounds clear the key   *)
(* and the key expires, as long as an iteration is shorter than the key's  *)
(* TTL.  Of a pause that was committed some time after its signal only the *)
(* rounds that it found in flight are told, see RoundsAreTold              *)
(* (campaign_signals.py:24-29, sender.py:332-337).                         *)
(***************************************************************************)
THEOREM StaleRoundsEnd ==
  ASSUME "redis" \notin Failures, IterMax < RevokeTTL
  PROVE  Spec => []StaleRoundIsRevoked
<1>1. SignalInv => StaleRoundIsRevoked
  <2> SUFFICES ASSUME SignalInv, NEW w \in Workers, pc[w] = "head", Stale(w)
               PROVE  revoke > 0
    BY DEF StaleRoundIsRevoked
  <2>1. Outdated(w)
    BY DEF Stale, Outdated, MaySend
  <2>2. revoke > TimeToCheck(w) /\ TimeToCheck(w) \in Nat
    BY <2>1, CheckIsNear, RoundAssumption DEF SignalInv, OutdatedIsRevoked, TypeOK
  <2> QED
    BY <2>2 DEF SignalInv, TypeOK, SharedTypes
<1> QED
  BY <1>1, SignalsArrive, PTL

(***************************************************************************)
(* From the bot's signal on, a round in flight sends one message at most,  *)
(* however long the bot then takes to commit, and whether or not it does   *)
(* (campaign_signals.py:24-29, sender.py:327-340, campaign.py:843-848).    *)
(***************************************************************************)
THEOREM RoundsAreTold ==
  ASSUME "redis" \notin Failures, IterMax < RevokeTTL
  PROVE  Spec => []OneSendAfterSignal
<1>1. SignalInv => OneSendAfterSignal
  BY DEF SignalInv, ToldSendIsLast, OneSendAfterSignal
<1> QED
  BY <1>1, SignalsArrive, PTL

(***************************************************************************)
(* After an edit of the text one message at most goes out with an older    *)
(* text, deletions of the campaign's text key included, because the round  *)
(* finds itself revoked (campaign_signals.py:21-29).                       *)
(***************************************************************************)
THEOREM OneStaleSend ==
  ASSUME "redis" \notin Failures, IterMax < RevokeTTL
  PROVE  Spec => []AtMostOneStaleSend
<1>1. SignalInv => AtMostOneStaleSend
  BY DEF SignalInv, StaleSendIsLast, AtMostOneStaleSend
<1> QED
  BY <1>1, SignalsArrive, PTL

-----------------------------------------------------------------------------
(* The text key alone *)

AtRest == {"idle", "locked", "leaving"}

\* A round works with the text it loaded to its end.
LEMMA SnapStays ==
  ASSUME TypeOK, NEW w \in Workers, WorkerStep(w), pc'[w] \notin AtRest
  PROVE  snap'[w].text = text \/ (pc[w] \notin AtRest /\ snap'[w].text = snap[w].text)
<1> USE DEF TypeOK, RoundTypes, Goto, AtRest
<1>1. ~Abort(w) /\ ~EndTask(w) /\ ~TimeLimit(w) /\ ~Crash(w) /\ ~StartTask(w)
  <2>1. ~StartTask(w)
    BY DEF StartTask
  <2> QED
    BY <2>1 DEF Abort, EndTask, TimeLimit, Crash
<1>2. CASE LoadCampaign(w)
  BY <1>2, LoadedSnap
<1>3. CASE ReadGroups(w)
  <2>1. pc[w] = "loaded"
    BY <1>3 DEF ReadGroups
  <2> QED
    BY <1>3, <2>1, GroupsOnly
<1>4. CASE PlanRound(w)
  <2>1. PICK plan \in SUBSET snap[w].groups : snap' = [snap EXCEPT ![w].plan = plan]
    BY <1>1, <1>4 DEF PlanRound
  <2> QED
    BY <1>4, <2>1 DEF PlanRound, Snapshots
<1>5. CASE \/ EntryRevoke(w) \/ CheckRevoke(w) \/ PickGroup(w) \/ RateSlotError(w) \/ Deliver(w)
           \/ SendFails(w) \/ MidRevoke(w) \/ ClearRevoke(w) \/ Record(w) \/ FinishSchedule(w)
  <2>1. snap' = snap
    BY <1>1, <1>5 DEF EntryRevoke, CheckRevoke, PickGroup, RateSlotError, Deliver, SendFails,
                      Outcome, MidRevoke, ClearRevoke, Record, FinishSchedule
  <2>2. pc[w] \notin AtRest
    BY <1>5 DEF EntryRevoke, CheckRevoke, PickGroup, RateSlotError, Deliver, SendFails,
                Outcome, MidRevoke, ClearRevoke, Record, FinishSchedule
  <2> QED
    BY <2>1, <2>2
<1> QED
  BY <1>1, <1>2, <1>3, <1>4, <1>5 DEF WorkerStep, RoundStep

\* Without deletions every step keeps the text key until no round needs it.
LEMMA StepTextKey ==
  ASSUME "redis" \notin Failures, "delete" \notin Ops, TypeOK, BotIsSound, TextKeyStays,
         [Next]_vars
  PROVE  TextKeyStays'
<1> USE DEF TypeOK
<1>1. /\ text \in Nat /\ textKey \in Nat
      /\ \A w \in Workers : snap[w].text \in Nat
  BY RoundAssumption DEF SharedTypes, RoundTypes, Snapshots, Texts
<1>2. CASE \E w \in Workers : WorkerStep(w)
  <2> PICK w \in Workers : WorkerStep(w)
    BY <1>2
  <2>1. UNCHANGED <<text, textKey, bot>>
    BY WorkerFrame
  <2>2. textKey = NoText /\ pc'[w] \notin AtRest => snap'[w].text >= text
    BY <1>1, SnapStays DEF TextKeyStays, AtRest
  <2>3. \A v \in Workers \ {w} : UNCHANGED <<snap[v], pc[v]>>
    BY OthersStay DEF WorkerStep
  <2> QED
    BY <2>1, <2>2, <2>3 DEF TextKeyStays, AtRest
<1>3. CASE UNCHANGED <<snap, pc, text, textKey>> /\ bot'.op \notin {"grace", "text"}
  BY <1>3 DEF TextKeyStays
<1>4. CASE UNCHANGED <<snap, pc, text, textKey, bot>>
  BY <1>4 DEF TextKeyStays
<1>5. CASE BeginText
  <2> DEFINE t == Later(text, textKey) + 1
  <2>1. textKey' = t /\ bot'.op = "text"
    BY <1>5 DEF BeginText, SetText, NoOp
  <2>2. t # NoText
    BY <1>1 DEF Later, NoText
  <2> HIDE DEF t
  <2> QED
    BY <2>1, <2>2 DEF TextKeyStays
<1>6. CASE BeginGroups \/ BeginInterval \/ BeginStop \/ BeginRival \/ BeginStart \/ Rollback
  <2>1. UNCHANGED <<snap, pc, text, textKey>>
    BY <1>6 DEF BeginGroups, BeginInterval, BeginStop, BeginRival, BeginStart, Rollback, Begin, dbVars,
                redisVars, roundVars, workVars
  <2>2. bot'.op \notin {"grace", "text"}
    <3>1. CASE BeginGroups
      BY <3>1 DEF BeginGroups, NoOp
    <3>2. CASE BeginInterval
      BY <3>2 DEF BeginInterval, NoOp
    <3>3. CASE BeginStop \/ BeginRival \/ BeginStart \/ Rollback
      BY <3>3 DEF BeginStop, BeginRival, BeginStart, Rollback, NoOp
    <3> QED
      BY <1>6, <3>1, <3>2, <3>3
  <2> QED
    BY <1>3, <2>1, <2>2
<1>7. ~BeginDelete /\ ~SignalDelete
  BY DEF BeginDelete, Begin, SignalDelete, TextKeyStays
<1>8. CASE Commit
  <2>1. bot'.op = "none" /\ UNCHANGED <<snap, pc, textKey>>
    BY <1>8 DEF Commit, NoOp, redisVars, roundVars, workVars
  <2>2. CASE CommitText
    BY <2>1, <2>2 DEF CommitText, TextKeyStays
  <2>3. CASE CommitGroups \/ CommitInterval \/ CommitStop \/ CommitStart \/ CommitDelete
    BY <1>3, <2>1, <2>3 DEF CommitGroups, CommitInterval, CommitStop, CommitStart, CommitDelete
  <2> QED
    BY <1>8, <2>2, <2>3 DEF Commit
<1>9. CASE ExpireTextKey
  <2>1. bot'.op = "none" /\ UNCHANGED <<snap, pc, text>>
    BY <1>9 DEF ExpireTextKey, NoOp, dbVars, roundVars, workVars
  <2>2. \A w \in Workers : pc[w] \notin AtRest => snap[w].text = text
    BY <1>9 DEF ExpireTextKey, InRound, AtRest
  <2> QED
    BY <1>1, <2>1, <2>2 DEF TextKeyStays, AtRest
<1>10. CASE Tick
  <2>1. UNCHANGED <<snap, pc, text, textKey>> /\ bot'.op = bot.op
    BY <1>10 DEF Tick, BotWaits, SharedTypes, Handlers
  <2> QED
    BY <2>1 DEF TextKeyStays
<1>11. CASE Beat \/ LockExpires \/ (\E g \in Groups : DeleteGroup(g)) \/ UNCHANGED vars
  BY <1>4, <1>11 DEF Beat, LockExpires, DeleteGroup, dbVars, redisVars, roundVars, workVars, vars
<1> QED
  BY <1>2, <1>5, <1>6, <1>7, <1>8, <1>9, <1>10, <1>11 DEF Next, UserStep, WorkerStep

\* What is picked has the text of the last commit, or of the one in progress.
LEMMA PickIsCurrent ==
  ASSUME "redis" \notin Failures, TypeOK, BotIsSound, TextsForward, TextKeyStays,
         NEW w \in Workers, PickGroup(w)
  PROVE  msg'[w].text >= text
<1> USE DEF TypeOK
<1>1. text \in Nat /\ textKey \in Nat /\ snap[w].text \in Nat /\ bot.val \in Nat
  BY RoundAssumption DEF SharedTypes, RoundTypes, Snapshots, Handlers, Texts
<1>2. PICK g \in todo[w], t \in {textKey, snap[w].text} :
        CurrentText(w, t) /\ msg' = [msg EXCEPT ![w] = [group |-> {g}, text |-> t]]
  BY DEF PickGroup
<1>3. t = IF textKey = NoText THEN snap[w].text ELSE textKey
  BY <1>2 DEF CurrentText
<1>4. t >= text
  BY <1>1, <1>3 DEF PickGroup, TextsForward, TextKeyStays
<1> QED
  BY <1>2, <1>4 DEF RoundTypes

\* A stale message was on its way, and no other one gets on its way.
LEMMA StepPicked ==
  ASSUME "redis" \notin Failures, TypeOK, BotIsSound, RoundsHoldLock, TextsForward,
         TextKeyStays, StaleSendIsPicked, [Next]_vars
  PROVE  StaleSendIsPicked'
<1> USE DEF TypeOK
<1>1. CASE \E w \in Workers : WorkerStep(w)
  <2> PICK w \in Workers : WorkerStep(w)
    BY <1>1
  <2>1. text' = text /\ text \in Nat /\ staleSends \in Nat /\ msg[w].text \in Nat
    BY WorkerFrame, RoundAssumption DEF SharedTypes, RoundTypes, HistoryTypes, Messages, Texts
  <2>2. \A v \in Workers \ {w} : UNCHANGED <<pc[v], msg[v]>>
    BY OthersStay DEF WorkerStep
  <2>3. CASE Deliver(w)
    <3>1. pc[w] = "sending" /\ pc'[w] = "head"
      BY <2>3 DEF Deliver, Outcome, Goto, RoundTypes
    <3>2. \A v \in Workers \ {w} : pc'[v] = "idle"
      BY <2>2, <3>1, OneInRound DEF InRound
    <3>3. msg[w].text < text => staleSends = 0
      BY <2>1, <3>1 DEF StaleSendIsPicked
    <3>4. staleSends' <= 1
      BY <2>1, <2>3, <3>3 DEF Deliver, StaleSendIsPicked
    <3> QED
      BY <3>1, <3>2, <3>4 DEF StaleSendIsPicked
  <2>4. CASE ~Deliver(w)
    <3>1. staleSends' = staleSends
      BY <2>4 DEF WorkerStep, RoundStep, LoadCampaign, ReadGroups, EntryRevoke, PlanRound,
                  CheckRevoke, PickGroup, SendFails, MidRevoke, Record, FinishSchedule,
                  ClearRevoke, EndTask, RateSlotError, TimeLimit, Crash, StartTask, histVars
    <3>2. pc'[w] = "sending" => msg'[w].text >= text
      BY SendingAfterPick, PickIsCurrent
    <3> QED
      BY <2>1, <2>2, <3>1, <3>2 DEF StaleSendIsPicked
  <2> QED
    BY <2>3, <2>4
<1>2. CASE OtherStep
  <2>1. UNCHANGED <<pc, msg>>
    BY <1>2, OtherFrame DEF roundVars, workVars
  <2>2. CASE UNCHANGED <<text, staleSends>>
    BY <2>1, <2>2 DEF StaleSendIsPicked
  <2>3. CASE CommitText
    BY <2>3 DEF CommitText, StaleSendIsPicked
  <2>4. CASE Commit /\ ~CommitText
    BY <2>2, <2>4 DEF Commit, CommitGroups, CommitInterval, CommitStop, CommitStart, CommitDelete,
                      histVars
  <2>5. CASE SignalStep
    BY <2>2, <2>5, SignalFrame DEF dbVars, histVars
  <2>6. CASE \E g \in Groups : DeleteGroup(g)
    BY <2>2, <2>6 DEF DeleteGroup, histVars
  <2> QED
    BY <1>2, <2>3, <2>4, <2>5, <2>6, OtherSplits
<1>3. CASE Tick
  BY <1>3 DEF Tick, StaleSendIsPicked
<1> QED
  BY <1>1, <1>2, <1>3, StepSplits

\* In the beginning no text was edited.
LEMMA InitText == Init => TextInv
<1> SUFFICES ASSUME Init PROVE TextInv
  OBVIOUS
<1>1. SignalInv
  BY InitSignals
<1>2. /\ \A w \in Workers : pc[w] = "idle"
      /\ bot.op = "none" /\ staleSends = 0
  BY DEF Init, NoOp
<1> QED
  BY <1>1, <1>2 DEF SignalInv, TextInv, TextKeyStays, StaleSendIsPicked

(***************************************************************************)
(* While nobody deletes campaigns, the text key alone sees to it that only *)
(* the message on its way goes out with an older text, however long that   *)
(* takes: also when the revoke key is gone by then                         *)
(* (campaign_signals.py:21-23, sender.py:342-346).                         *)
(***************************************************************************)
THEOREM TextKeySuffices ==
  ASSUME "redis" \notin Failures, "delete" \notin Ops
  PROVE  Spec => []AtMostOneStaleSend
<1>1. TextInv /\ [Next]_vars => TextInv'
  <2> SUFFICES ASSUME TextInv, [Next]_vars PROVE TextInv'
    OBVIOUS
  <2> USE DEF TextInv
  <2>1. TypeOK' /\ BotIsSound' /\ RoundsHoldLock'
    BY StepTypes, StepLock
  <2>2. TextsForward' /\ TextKeyStays' /\ StaleSendIsPicked'
    BY StepForward, StepTextKey, StepPicked
  <2> QED
    BY <2>1, <2>2
<1>2. TextInv => AtMostOneStaleSend
  BY DEF TextInv, StaleSendIsPicked, AtMostOneStaleSend
<1> QED
  BY <1>1, <1>2, InitText, PTL DEF Spec

-----------------------------------------------------------------------------
(* One send loop *)

\* A closed session has no loop.
LEMMA CloseTidy ==
  ASSUME RoundTypes, NEW w \in Workers, Close(w)
  PROVE  outs'[w] = {} /\ todo'[w] = {} /\ msg'[w].group = {}
BY DEF Close, NoMsg, RoundTypes

\* The step of a round keeps its loop tidy.
LEMMA RoundStepTidy ==
  ASSUME TypeOK, LoopIsTidy, NEW w \in Workers, WorkerStep(w)
  PROVE  /\ pc'[w] = "sending" <=> msg'[w].group # {}
         /\ pc'[w] \notin Looping => outs'[w] = {}
<1> USE DEF TypeOK, RoundTypes, Goto, Looping
<1>0. /\ pc[w] = "sending" <=> msg[w].group # {}
      /\ pc[w] \notin Looping => outs[w] = {}
  BY DEF LoopIsTidy
<1>1. CASE EndTask(w) \/ TimeLimit(w) \/ Crash(w) \/ Abort(w)
  BY <1>1, CloseTidy DEF EndTask, TimeLimit, Crash, Abort
<1>2. CASE StartTask(w) \/ LoadCampaign(w) \/ ReadGroups(w) \/ EntryRevoke(w)
  BY <1>0, <1>2 DEF StartTask, LoadCampaign, ReadGroups, EntryRevoke
<1>3. CASE PlanRound(w) /\ ~Abort(w)
  BY <1>0, <1>3 DEF PlanRound
<1>4. CASE CheckRevoke(w) \/ MidRevoke(w) \/ ClearRevoke(w)
  BY <1>0, <1>4 DEF CheckRevoke, MidRevoke, ClearRevoke
<1>5. CASE PickGroup(w)
  <2>1. pc'[w] = "sending" /\ \E g \in todo[w], t \in {textKey, snap[w].text} :
                                msg' = [msg EXCEPT ![w] = [group |-> {g}, text |-> t]]
    BY <1>5 DEF PickGroup
  <2> QED
    BY <2>1
<1>6. CASE RateSlotError(w) \/ Deliver(w) \/ SendFails(w)
  <2>1. msg' = [msg EXCEPT ![w] = NoMsg] /\ pc'[w] \in {"head", "gathered"}
    BY <1>6 DEF RateSlotError, Deliver, SendFails, Outcome
  <2> QED
    BY <2>1 DEF NoMsg
<1>7. CASE Record(w) /\ ~Abort(w)
  BY <1>0, <1>7 DEF Record
<1>8. CASE FinishSchedule(w) /\ ~Abort(w)
  <2>1. /\ pc[w] \in {"recording", "finishing"} /\ outs[w] = {}
        /\ pc'[w] \in {"clearing", "leaving"} /\ UNCHANGED <<msg, outs>>
    BY <1>0, <1>8 DEF FinishSchedule, Reschedule
  <2> QED
    BY <1>0, <2>1
<1> QED
  BY <1>1, <1>2, <1>3, <1>4, <1>5, <1>6, <1>7, <1>8 DEF WorkerStep, RoundStep

\* Every step keeps the loops tidy.
LEMMA StepTidy == ASSUME TypeOK, LoopIsTidy, [Next]_vars PROVE LoopIsTidy'
<1>1. CASE \E w \in Workers : WorkerStep(w)
  <2> PICK w \in Workers : WorkerStep(w)
    BY <1>1
  <2>1. \A v \in Workers \ {w} : pc'[v] = pc[v] /\ msg'[v] = msg[v] /\ outs'[v] = outs[v]
    BY OthersStay DEF WorkerStep, TypeOK
  <2>2. /\ pc'[w] = "sending" <=> msg'[w].group # {}
        /\ pc'[w] \notin Looping => outs'[w] = {}
    BY RoundStepTidy
  <2> QED
    BY <2>1, <2>2 DEF LoopIsTidy
<1>2. CASE OtherStep \/ Tick
  BY <1>2, OtherFrame DEF Tick, roundVars, workVars, LoopIsTidy
<1> QED
  BY <1>1, <1>2, StepSplits

\* What a step may do to a loop, without its senders
LoopMoves(l, m) ==
  \/ l = Sends!Closed /\ \E S \in SUBSET Groups : m = Sends!Open(S, {}, {})
  \/ /\ l.open /\ l.cur = {}
     /\ \/ \E g \in l.todo : m = Sends!Open(l.todo \ {g}, {g}, l.done)
        \/ m = Sends!Open({}, {}, l.done)
  \/ /\ l.open /\ l.cur # {}
     /\ \E ahead \in {l.todo, {}} : m = Sends!Open(ahead, {}, l.done \cup l.cur)
  \/ /\ l.open /\ l.cur = {} /\ l.todo = {}
     /\ \E S \in SUBSET l.done : S # {} /\ m = Sends!Open({}, {}, l.done \ S)
  \/ l.open /\ m \in {Sends!Open({}, {}, {}), Sends!Closed}

\* They are the steps of a send loop.
LEMMA MovesAreSteps ==
  ASSUME NEW l, NEW m, RoundLoop = l, RoundLoop' = m, LoopMoves(l, m)
  PROVE  Sends!Next
<1> DEFINE loops == [s \in {"campaign"} |-> RoundLoop]
<1>1. loops["campaign"] = l /\ Sends!Becomes("campaign", m)
  BY DEF Sends!Becomes
<1> QED
  BY <1>1 DEF LoopMoves, Sends!Next, Sends!Plan, Sends!Take, Sends!Outcome, Sends!Stop,
              Sends!Record, Sends!Drop, Sends!Through, Sends!Between

\* The loop of a worker at a label, with groups left, current and tried
LoopAt(label, t, c, d) ==
  [open |-> label \in Looping \cup {"finishing"},
   todo |-> IF label \in {"head", "picking", "sending"} THEN t ELSE {},
   cur  |-> c,
   done |-> d]

\* What a worker does to the loop follows from its label, before and after a step.
LEMMA LoopOfIsAt ==
  ASSUME NEW w \in Workers
  PROVE  /\ LoopOf(w) = LoopAt(pc[w], todo[w], msg[w].group, outs[w])
         /\ LoopOf(w)' = LoopAt(pc'[w], todo'[w], msg'[w].group, outs'[w])
BY DEF LoopOf, LoopAt

\* It is open from the plan to the last record.
LEMMA LoopsByLabel ==
  ASSUME NEW label, NEW t, NEW c, NEW d
  PROVE  /\ label \in {"head", "picking", "sending"} => LoopAt(label, t, c, d) = Sends!Open(t, c, d)
         /\ label \in {"gathered", "recording", "finishing"} =>
              LoopAt(label, t, c, d) = Sends!Open({}, c, d)
         /\ label \notin Looping \cup {"finishing"} =>
              LoopAt(label, t, {}, {}) = Sends!Closed
<1>1. /\ label \in {"head", "picking", "sending", "gathered", "recording", "finishing"} =>
           (label \in Looping \cup {"finishing"}) = TRUE
      /\ label \notin Looping \cup {"finishing"} =>
           /\ (label \in Looping \cup {"finishing"}) = FALSE
           /\ label \notin {"head", "picking", "sending"}
      /\ label \in {"gathered", "recording", "finishing"} =>
           label \notin {"head", "picking", "sending"}
  BY DEF Looping
<1> QED
  BY <1>1 DEF LoopAt, Sends!Open, Sends!Closed

\* What an open loop is made of
LEMMA OpenParts ==
  ASSUME NEW t, NEW c, NEW d
  PROVE  /\ Sends!Open(t, c, d).open /\ Sends!Open(t, c, d).todo = t
         /\ Sends!Open(t, c, d).cur = c /\ Sends!Open(t, c, d).done = d
BY DEF Sends!Open

\* A worker that has nothing of a loop
LEMMA LoopIsClosed ==
  ASSUME TypeOK, LoopIsTidy, NEW w \in Workers, pc[w] \notin Looping \cup {"finishing"}
  PROVE  LoopOf(w) = Sends!Closed
<1>1. msg[w].group = {} /\ outs[w] = {}
  BY DEF LoopIsTidy, Looping
<1> QED
  BY <1>1, LoopOfIsAt, LoopsByLabel

\* The session of a worker that ends drops its loop.
LEMMA CloseDrops ==
  ASSUME TypeOK, LoopIsTidy, NEW w \in Workers,
         EndTask(w) \/ TimeLimit(w) \/ Crash(w) \/ Abort(w)
  PROVE  LoopMoves(LoopOf(w), LoopOf(w)') \/ LoopOf(w)' = LoopOf(w)
<1>1. outs'[w] = {} /\ msg'[w].group = {} /\ pc'[w] \notin Looping \cup {"finishing"}
  BY CloseTidy DEF EndTask, TimeLimit, Crash, Abort, TypeOK, RoundTypes, Goto, Looping
<1>2. LoopOf(w)' = Sends!Closed
  BY <1>1, LoopOfIsAt, LoopsByLabel
<1>3. CASE pc[w] \in Looping \cup {"finishing"}
  <2>1. LoopOf(w).open
    BY <1>3 DEF LoopOf
  <2> QED
    BY <1>2, <2>1 DEF LoopMoves
<1>4. CASE pc[w] \notin Looping \cup {"finishing"}
  BY <1>2, <1>4, LoopIsClosed
<1> QED
  BY <1>3, <1>4

\* A step of a worker is one of a send loop, or none.
LEMMA WorkerLoops ==
  ASSUME TypeOK, LoopIsTidy, NEW w \in Workers, WorkerStep(w)
  PROVE  LoopMoves(LoopOf(w), LoopOf(w)') \/ LoopOf(w)' = LoopOf(w)
<1> DEFINE l == LoopOf(w)
           m == LoopOf(w)'
<1>0. /\ l = LoopAt(pc[w], todo[w], msg[w].group, outs[w])
      /\ m = LoopAt(pc'[w], todo'[w], msg'[w].group, outs'[w])
      /\ pc[w] # "sending" => msg[w].group = {}
      /\ pc[w] \notin Looping => outs[w] = {}
  BY LoopOfIsAt DEF LoopIsTidy
<1> HIDE DEF l, m
<1>1. CASE EndTask(w) \/ TimeLimit(w) \/ Crash(w) \/ Abort(w)
  BY <1>1, CloseDrops
<1>2. CASE StartTask(w) \/ LoadCampaign(w) \/ ReadGroups(w) \/ EntryRevoke(w) \/ ClearRevoke(w)
  <2>1. /\ pc[w] \notin Looping \cup {"finishing"} /\ pc'[w] \notin Looping \cup {"finishing"}
        /\ UNCHANGED <<todo, msg, outs>>
    BY <1>2 DEF StartTask, LoadCampaign, ReadGroups, EntryRevoke, ClearRevoke, Looping,
                TypeOK, RoundTypes, Goto
  <2>2. msg[w].group = {} /\ outs[w] = {}
    BY <1>0, <2>1 DEF Looping
  <2>3. l = Sends!Closed /\ m = Sends!Closed
    BY <1>0, <2>1, <2>2, LoopsByLabel
  <2> QED
    BY <2>3 DEF l, m
<1>3. CASE PlanRound(w) /\ ~Abort(w)
  <2>1. PICK plan \in SUBSET Groups :
          /\ todo' = [todo EXCEPT ![w] = plan] /\ UNCHANGED <<msg, outs>>
          /\ pc[w] = "planning" /\ pc'[w] = IF plan = {} THEN "finishing" ELSE "head"
    <3>1. snap[w].groups \subseteq Groups
      BY DEF Snapshots, TypeOK, RoundTypes
    <3> QED
      BY <1>3, <3>1 DEF PlanRound, TypeOK, RoundTypes, Goto
  <2>2. msg[w].group = {} /\ outs[w] = {} /\ todo'[w] = plan
    BY <1>0, <2>1 DEF Looping, TypeOK, RoundTypes
  <2>3. l = Sends!Closed
    BY <1>0, <2>1, <2>2, LoopsByLabel DEF Looping
  <2>4. m = Sends!Open(plan, {}, {})
    BY <1>0, <2>1, <2>2, LoopsByLabel
  <2>5. LoopMoves(l, m)
    BY <2>3, <2>4 DEF LoopMoves
  <2> QED
    BY <2>5 DEF l, m
<1>4. CASE CheckRevoke(w)
  <2>1. pc[w] = "head" /\ pc'[w] \in {"gathered", "picking"} /\ UNCHANGED <<todo, msg, outs>>
    BY <1>4 DEF CheckRevoke, TypeOK, RoundTypes, Goto
  <2>2. msg[w].group = {}
    BY <1>0, <2>1
  <2>3. l = Sends!Open(todo[w], {}, outs[w])
    BY <1>0, <2>1, <2>2, LoopsByLabel
  <2>4. m = l \/ m = Sends!Open({}, {}, outs[w])
    BY <1>0, <2>1, <2>2, <2>3, LoopsByLabel
  <2>5. LoopMoves(l, m) \/ m = l
    BY <2>3, <2>4, OpenParts DEF LoopMoves
  <2> QED
    BY <2>5 DEF l, m
<1>5. CASE PickGroup(w)
  <2>1. PICK g \in todo[w] :
          /\ todo'[w] = todo[w] \ {g} /\ msg'[w].group = {g} /\ outs' = outs
          /\ pc[w] = "picking" /\ pc'[w] = "sending"
    BY <1>5 DEF PickGroup, TypeOK, RoundTypes, Goto
  <2>2. msg[w].group = {}
    BY <1>0, <2>1
  <2>3. l = Sends!Open(todo[w], {}, outs[w]) /\ m = Sends!Open(todo[w] \ {g}, {g}, outs[w])
    BY <1>0, <2>1, <2>2, LoopsByLabel
  <2>4. l.open /\ l.todo = todo[w] /\ l.cur = {} /\ l.done = outs[w]
    BY <2>3, OpenParts
  <2>5. LoopMoves(l, m)
    BY <2>1, <2>3, <2>4 DEF LoopMoves
  <2> QED
    BY <2>5 DEF l, m
<1>6. CASE RateSlotError(w)
  <2>1. /\ pc[w] = "sending" /\ pc'[w] = "gathered"
        /\ outs'[w] = {} /\ msg'[w].group = {}
    BY <1>6 DEF RateSlotError, NoMsg, TypeOK, RoundTypes, Goto
  <2>2. l.open /\ m = Sends!Open({}, {}, {})
    BY <1>0, <2>1, LoopsByLabel, OpenParts
  <2>3. LoopMoves(l, m)
    BY <2>2 DEF LoopMoves
  <2> QED
    BY <2>3 DEF l, m
<1>7. CASE Deliver(w) \/ SendFails(w)
  <2>1. /\ pc[w] = "sending" /\ pc'[w] \in {"head", "gathered"}
        /\ outs'[w] = outs[w] \cup msg[w].group /\ msg'[w].group = {} /\ todo' = todo
    BY <1>7 DEF Deliver, SendFails, Outcome, NoMsg, TypeOK, RoundTypes, Goto
  <2>2. msg[w].group # {}
    BY <2>1 DEF LoopIsTidy
  <2>3. l = Sends!Open(todo[w], msg[w].group, outs[w])
    BY <1>0, <2>1, LoopsByLabel
  <2>4. PICK ahead \in {todo[w], {}} : m = Sends!Open(ahead, {}, outs[w] \cup msg[w].group)
    BY <1>0, <2>1, LoopsByLabel
  <2>5. l.open /\ l.todo = todo[w] /\ l.cur = msg[w].group /\ l.done = outs[w]
    BY <2>3, OpenParts
  <2>6. LoopMoves(l, m)
    BY <2>2, <2>4, <2>5 DEF LoopMoves
  <2> QED
    BY <2>6 DEF l, m
<1>8. CASE MidRevoke(w)
  <2>1. pc[w] = "gathered" /\ pc'[w] = "recording" /\ UNCHANGED <<todo, msg, outs>>
    BY <1>8 DEF MidRevoke, TypeOK, RoundTypes, Goto
  <2>2. m = l
    BY <1>0, <2>1, LoopsByLabel
  <2> QED
    BY <2>2 DEF l, m
<1>9. CASE Record(w) /\ ~Abort(w)
  <2>1. PICK g \in outs[w] :
          /\ pc[w] = "recording" /\ UNCHANGED <<pc, todo, msg>> /\ outs'[w] = outs[w] \ {g}
    BY <1>9 DEF Record, TypeOK, RoundTypes
  <2>2. msg[w].group = {}
    BY <1>0, <2>1
  <2>3. l = Sends!Open({}, {}, outs[w]) /\ m = Sends!Open({}, {}, outs[w] \ {g})
    BY <1>0, <2>1, <2>2, LoopsByLabel
  <2>4. l.open /\ l.todo = {} /\ l.cur = {} /\ l.done = outs[w]
    BY <2>3, OpenParts
  <2>5. {g} \in SUBSET l.done /\ {g} # {} /\ m = Sends!Open({}, {}, l.done \ {g})
    BY <2>1, <2>3, <2>4
  <2>6. LoopMoves(l, m)
    BY <2>4, <2>5 DEF LoopMoves
  <2> QED
    BY <2>6 DEF l, m
<1>10. CASE FinishSchedule(w) /\ ~Abort(w)
  <2>1. /\ pc[w] \in {"recording", "finishing"} /\ outs[w] = {}
        /\ pc'[w] \in {"clearing", "leaving"} /\ UNCHANGED <<todo, msg, outs>>
    BY <1>0, <1>10 DEF FinishSchedule, Reschedule, Looping, TypeOK, RoundTypes, Goto
  <2>2. msg[w].group = {}
    BY <1>0, <2>1
  <2>3. l = Sends!Open({}, {}, {})
    BY <1>0, <2>1, <2>2, LoopsByLabel
  <2>4. m = Sends!Closed
    BY <1>0, <2>1, <2>2, LoopsByLabel DEF Looping
  <2>5. LoopMoves(l, m)
    BY <2>3, <2>4, OpenParts DEF LoopMoves
  <2> QED
    BY <2>5 DEF l, m
<1> QED
  BY <1>1, <1>2, <1>3, <1>4, <1>5, <1>6, <1>7, <1>8, <1>9, <1>10 DEF WorkerStep, RoundStep

\* The loops of all workers are that of the only one in a round.
LEMMA AloneInLoop ==
  ASSUME NEW L, NEW w \in Workers, NEW label, NEW t, NEW c, NEW d,
         L[w] = LoopAt(label, t, c, d), \A v \in Workers \ {w} : L[v] = Sends!Closed
  PROVE  [open |-> \E v \in Workers : L[v].open,
          todo |-> UNION {L[v].todo : v \in Workers},
          cur  |-> UNION {L[v].cur : v \in Workers},
          done |-> UNION {L[v].done : v \in Workers}] = L[w]
<1>1. \A v \in Workers \ {w} :
        /\ ~L[v].open /\ L[v].todo = {} /\ L[v].cur = {} /\ L[v].done = {}
  BY DEF Sends!Closed
<1>2. (\E v \in Workers : L[v].open) = L[w].open
  <2>1. (\E v \in Workers : L[v].open) <=> L[w].open
    BY <1>1
  <2>2. L[w].open = (label \in Looping \cup {"finishing"})
    BY DEF LoopAt
  <2>3. CASE L[w].open = TRUE
    BY <2>1, <2>3
  <2>4. CASE L[w].open = FALSE
    BY <2>1, <2>4
  <2>5. L[w].open = TRUE \/ L[w].open = FALSE
    BY <2>2
  <2> QED
    BY <2>3, <2>4, <2>5
<1>3. /\ UNION {L[v].todo : v \in Workers} = L[w].todo
      /\ UNION {L[v].cur : v \in Workers} = L[w].cur
      /\ UNION {L[v].done : v \in Workers} = L[w].done
  BY <1>1
<1> QED
  BY <1>2, <1>3 DEF LoopAt

\* The loop of the campaign is that of the worker in a round, before and after
\* its step.
LEMMA RoundLoopIs ==
  ASSUME TypeOK, LoopIsTidy, RoundsHoldLock, NEW w \in Workers, WorkerStep(w), InRound(w)
  PROVE  RoundLoop = LoopOf(w) /\ RoundLoop' = LoopOf(w)'
<1>1. \A v \in Workers \ {w} : LoopOf(v) = Sends!Closed
  BY OneInRound, LoopIsClosed DEF Looping
<1>2. \A v \in Workers \ {w} : LoopOf(v)' = LoopOf(v)
  BY OthersStay DEF LoopOf, WorkerStep, TypeOK
<1> DEFINE L == [v \in Workers |-> LoopOf(v)]
           M == [v \in Workers |-> LoopOf(v)']
<1>3. /\ L[w] = LoopAt(pc[w], todo[w], msg[w].group, outs[w])
      /\ M[w] = LoopAt(pc'[w], todo'[w], msg'[w].group, outs'[w])
      /\ \A v \in Workers \ {w} : L[v] = Sends!Closed /\ M[v] = Sends!Closed
  BY <1>1, <1>2, LoopOfIsAt
<1>4. /\ RoundLoop = [open |-> \E v \in Workers : L[v].open,
                      todo |-> UNION {L[v].todo : v \in Workers},
                      cur  |-> UNION {L[v].cur : v \in Workers},
                      done |-> UNION {L[v].done : v \in Workers}]
      /\ RoundLoop' = [open |-> \E v \in Workers : M[v].open,
                       todo |-> UNION {M[v].todo : v \in Workers},
                       cur  |-> UNION {M[v].cur : v \in Workers},
                       done |-> UNION {M[v].done : v \in Workers}]
  BY DEF RoundLoop
<1> HIDE DEF L, M
<1>5. RoundLoop = L[w] /\ RoundLoop' = M[w]
  BY <1>3, <1>4, AloneInLoop
<1> QED
  BY <1>5 DEF L, M

\* Where no worker's loop changes, that of the campaign does not.
LEMMA SameLoop ==
  ASSUME \A w \in Workers : LoopOf(w)' = LoopOf(w)
  PROVE  UNCHANGED [s \in {"campaign"} |-> RoundLoop]
BY DEF RoundLoop

\* A task that begins has no loop yet.
LEMMA StartOpensNone ==
  ASSUME TypeOK, LoopIsTidy, NEW w \in Workers, StartTask(w)
  PROVE  LoopOf(w)' = LoopOf(w)
<1>1. pc[w] = "idle" /\ pc'[w] \in {"idle", "locked"} /\ UNCHANGED <<todo, msg, outs>>
  BY DEF StartTask, Goto, TypeOK, RoundTypes
<1>2. /\ pc[w] \notin Looping \cup {"finishing"} /\ pc'[w] \notin Looping \cup {"finishing"}
      /\ msg[w].group = {} /\ outs[w] = {} /\ msg'[w].group = {} /\ outs'[w] = {}
  BY <1>1 DEF Looping, LoopIsTidy
<1>3. LoopOf(w) = Sends!Closed /\ LoopOf(w)' = Sends!Closed
  BY <1>2, LoopOfIsAt, LoopsByLabel
<1> QED
  BY <1>3

\* A step that changes the loop is one of a worker in a round.
LEMMA StepLoops ==
  ASSUME TypeOK, LoopIsTidy, RoundsHoldLock, [Next]_vars
  PROVE  Sends!Next \/ UNCHANGED [s \in {"campaign"} |-> RoundLoop]
<1>1. CASE \E w \in Workers : WorkerStep(w)
  <2> PICK w \in Workers : WorkerStep(w)
    BY <1>1
  <2>1. \A v \in Workers \ {w} : LoopOf(v)' = LoopOf(v)
    BY OthersStay DEF LoopOf, WorkerStep, TypeOK
  <2>2. CASE LoopOf(w)' = LoopOf(w)
    BY <2>1, <2>2, SameLoop
  <2>3. CASE LoopOf(w)' # LoopOf(w)
    <3>1. LoopMoves(LoopOf(w), LoopOf(w)')
      BY <2>3, WorkerLoops
    <3>2. InRound(w)
      <4>1. ~StartTask(w)
        BY <2>3, StartOpensNone
      <4> QED
        BY <4>1 DEF WorkerStep, RoundStep, LoadCampaign, ReadGroups, EntryRevoke, PlanRound,
                    CheckRevoke, PickGroup, Deliver, SendFails, Outcome, MidRevoke, Record,
                    FinishSchedule, ClearRevoke, EndTask, RateSlotError, TimeLimit, Crash, InRound
    <3>3. RoundLoop = LoopOf(w) /\ RoundLoop' = LoopOf(w)'
      BY <3>2, RoundLoopIs
    <3> QED
      BY <3>1, <3>3, MovesAreSteps
  <2> QED
    BY <2>2, <2>3
<1>2. CASE OtherStep \/ Tick
  <2>1. UNCHANGED <<pc, todo, msg, outs>>
    BY <1>2, OtherFrame DEF Tick, roundVars, workVars
  <2>2. \A w \in Workers : LoopOf(w)' = LoopOf(w)
    BY <2>1 DEF LoopOf
  <2> QED
    BY <2>2, SameLoop
<1> QED
  BY <1>1, <1>2, StepSplits

\* In the beginning there is no loop.
LEMMA InitLoop == Init => LoopIsTidy /\ Sends!Init
<1> SUFFICES ASSUME Init PROVE LoopIsTidy /\ Sends!Init
  OBVIOUS
<1>1. \A w \in Workers : pc[w] = "idle" /\ msg[w].group = {} /\ outs[w] = {}
  BY DEF Init, NoMsg
<1>2. LoopIsTidy
  BY <1>1 DEF LoopIsTidy
<1>3. \A w \in Workers : LoopOf(w) = Sends!Closed
  <2> TAKE w \in Workers
  <2>1. pc[w] \notin Looping \cup {"finishing"} /\ msg[w].group = {} /\ outs[w] = {}
    BY <1>1 DEF Looping
  <2> QED
    BY <2>1, LoopOfIsAt, LoopsByLabel
<1>4. \A w \in Workers : /\ ~LoopOf(w).open /\ LoopOf(w).todo = {}
                         /\ LoopOf(w).cur = {} /\ LoopOf(w).done = {}
  BY <1>3 DEF Sends!Closed
<1>5. (\E w \in Workers : LoopOf(w).open) = FALSE
  BY <1>4
<1>6. RoundLoop = Sends!Closed
  BY <1>4, <1>5 DEF RoundLoop, Sends!Closed
<1> QED
  BY <1>2, <1>6 DEF Sends!Init

(***************************************************************************)
(* However many workers, copies of the task, aborts and crashes there are, *)
(* the campaign has one send loop, which plans, takes, tries and records   *)
(* like a single process (sender.py:327-506, 596-761, 772-795).            *)
(***************************************************************************)
THEOREM RoundsAreOneLoop == Spec => OneSendLoop
<1>1. Init => LoopIsTidy /\ Sends!Init
  BY InitLoop
<1>2. IInv /\ LoopIsTidy /\ [Next]_vars
        => LoopIsTidy' /\ [Sends!Next]_([s \in {"campaign"} |-> RoundLoop])
  BY StepTidy, StepLoops DEF IInv
<1> QED
  BY <1>1, <1>2, Invariant, PTL DEF Spec, OneSendLoop, Sends!Spec
=============================================================================
