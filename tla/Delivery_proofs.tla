---------------------------- MODULE Delivery_proofs ----------------------------
(***************************************************************************)
(* Proofs about the delivery of a round, for any processes, groups, limits *)
(* and numbers of retries.  A round learns of the account and its groups   *)
(* only when it writes back, so the invariant follows what was tried from  *)
(* the queue over the outcomes to the blocklist and the status.            *)
(***************************************************************************)
EXTENDS Delivery, FiniteSetTheorems, TLAPS

USE DeliveryAssumption

\* What is counted among the outcomes.
LEMMA SuccessesAreCounted ==
  ASSUME NEW p \in Procs, NEW S \in SUBSET Groups
  PROVE  Successes(p, S) \in Nat
  <1>1. {g \in S : out[p][g] \in {"success", "flooded"}} \in SUBSET Groups
    OBVIOUS
  <1>2. IsFiniteSet({g \in S : out[p][g] \in {"success", "flooded"}})
    BY <1>1, FS_Subset
  <1> QED BY <1>2, FS_CardinalityType DEF Successes

\* Whether the outcomes of all groups, or of those of a round that has none, say
\* that the account is barred.
LEMMA BarsAre ==
  ASSUME NEW p \in Procs
  PROVE  /\ Bars(p, Groups) = {} <=> \A g \in Groups : out[p][g] \notin {"banned", "reauth"}
         /\ out[p] = Nothing => Bars(p, Groups) = {}
         /\ Bars(p, Groups)' = {} <=> \A g \in Groups : out'[p][g] \notin {"banned", "reauth"}
         /\ out'[p] = Nothing => Bars(p, Groups)' = {}
  BY DEF Bars, Nothing

LEMMA InitInvariant == Init => IInv
  <1> SUFFICES ASSUME Init PROVE IInv
    OBVIOUS
  <1> USE DEF Init, Nothing
  <1>1. TypeOK
    BY DEF TypeOK, Phases, Results
  <1>2. RetriesCounted
    BY DEF RetriesCounted
  <1>3. RoundOrdered
    BY DEF RoundOrdered
  <1>4. RefusalsLearnt
    BY DEF RefusalsLearnt, ToSend
  <1>5. RefusedOnce /\ BarredOnce
    BY DEF RefusedOnce, BarredOnce
  <1>6. BarLearnt
    BY BarsAre DEF BarLearnt, Working
  <1>7. WarmUpLoaded /\ WarmUpCounted
    BY DEF WarmUpLoaded, WarmUpCounted
  <1> QED BY <1>1, <1>2, <1>3, <1>4, <1>5, <1>6, <1>7 DEF IInv

-----------------------------------------------------------------------------
(* The send *)

\* The send goes on: only retries and copies have changed.
LEMMA StaysStep ==
  ASSUME IInv, NEW p \in Procs, Sending(p), TypeOK', RetriesCounted',
         UNCHANGED <<pc, out, tries, vain>>
  PROVE  IInv'
  <1> USE DEF IInv, Sending, row, telegram
  <1>1. RoundOrdered'
    BY DEF RoundOrdered
  <1>2. RefusalsLearnt' /\ RefusedOnce'
    BY DEF RefusalsLearnt, RefusedOnce, ToSend
  <1>3. BarLearnt' /\ BarredOnce'
    BY DEF BarLearnt, BarredOnce, Working, Bars
  <1>4. WarmUpLoaded' /\ WarmUpCounted'
    BY DEF WarmUpLoaded, WarmUpCounted
  <1> QED BY <1>1, <1>2, <1>3, <1>4

\* The send is over.  Only a refusal is a try of a refusing group, and only a
\* send from a barred account says so, and ends the worker.
LEMMA OverStep ==
  ASSUME IInv, NEW p \in Procs, Sending(p), TypeOK', RetriesCounted',
         NEW r \in Results, NEW next \in {"take", "back"}, Outcome(p, r, next),
         \/ UNCHANGED tries
         \/ r = "blocked" /\ tries' = [tries EXCEPT ![p][cur[p]] = @ + 1],
         \/ UNCHANGED vain /\ r \notin {"banned", "reauth"}
         \/ /\ vain' = [vain EXCEPT ![p] = @ + 1]
            /\ next = "back" /\ r \in {"banned", "reauth"}
  PROVE  IInv'
  <1> DEFINE c == cur[p]
  <1>1. /\ pc[p] = "send"
        /\ UNCHANGED <<status, waits, warm, invalid, blocked, queue, cur, loaded, written, pool,
                       drops, logged, forgotten, overlapped>>
    BY DEF Sending, row
  <1>2. TypeOK
    BY DEF IInv
  <1>3. c \in Groups \ queue[p] /\ queue[p] \in SUBSET Groups
    BY <1>1, <1>2 DEF IInv, RoundOrdered, TypeOK
  <1>4. /\ pc'[p] = next /\ \A q \in Procs \ {p} : pc'[q] = pc[q]
        /\ \A q \in Procs \ {p} : out'[q] = out[q]
        /\ out'[p][c] = r /\ \A g \in Groups \ {c} : out'[p][g] = out[p][g]
    BY <1>2, <1>3 DEF TypeOK, Outcome
  <1>5. /\ \A q \in Procs \ {p}, g \in Groups : tries'[q][g] = tries[q][g]
        /\ \A g \in Groups \ {c} : tries'[p][g] = tries[p][g]
        /\ tries'[p][c] = tries[p][c] \/ (r = "blocked" /\ tries'[p][c] = tries[p][c] + 1)
    BY <1>2, <1>3 DEF TypeOK
  <1>6. \A q \in Procs \ {p} : vain'[q] = vain[q]
    BY <1>2 DEF TypeOK
  <1>7. \/ vain'[p] = vain[p] /\ r \notin {"banned", "reauth"}
        \/ next = "back" /\ vain'[p] = vain[p] + 1 /\ r \in {"banned", "reauth"}
    BY <1>2 DEF TypeOK
  <1>8. /\ \A g \in Groups : g \in queue[p] \/ g = c => tries[p][g] <= drops[p]
        /\ \A g \in Groups : g \notin blocked /\ out[p][g] # "blocked" => tries[p][g] <= drops[p]
    BY <1>1, <1>3 DEF IInv, RefusalsLearnt, ToSend
  <1>9. vain[p] <= drops[p] /\ \A g \in Groups : out[p][g] \notin {"banned", "reauth"}
    BY <1>1, BarsAre DEF IInv, BarLearnt, Working
  <1> HIDE DEF c
  <1>10. RoundOrdered'
    <2>1. \A q \in Procs \ {p} :
            /\ pc'[q] = "idle" => out'[q] = Nothing /\ queue'[q] = {}
            /\ pc'[q] = "send" => cur'[q] \in Groups \ queue'[q]
            /\ pc'[q] # "back" => written'[q] = 0
      BY <1>1, <1>4 DEF IInv, RoundOrdered
    <2>2. written'[p] = 0
      BY <1>1 DEF IInv, RoundOrdered
    <2> QED BY <1>4, <2>1, <2>2 DEF RoundOrdered
  <1>11. RefusalsLearnt'
    <2> SUFFICES ASSUME NEW q \in Procs, NEW g \in Groups
                 PROVE  /\ g \in ToSend(q)' => tries'[q][g] <= drops'[q]
                        /\ g \notin blocked' /\ out'[q][g] # "blocked" => tries'[q][g] <= drops'[q]
      BY DEF RefusalsLearnt
    <2>1. CASE q = p
      <3>1. ToSend(p)' = queue[p]
        BY <1>1, <1>4 DEF ToSend
      <3>2. g \in queue[p] => g # c
        BY <1>3
      <3> QED BY <1>1, <1>4, <1>5, <1>8, <2>1, <3>1, <3>2
    <2>2. CASE q # p
      <3>1. ToSend(q)' = ToSend(q)
        BY <1>1, <1>4, <2>2 DEF ToSend
      <3> QED BY <1>1, <1>4, <1>5, <2>2, <3>1 DEF IInv, RefusalsLearnt
    <2> QED BY <2>1, <2>2
  <1>12. RefusedOnce'
    <2> SUFFICES ASSUME NEW q \in Procs, NEW g \in Groups
                 PROVE  tries'[q][g] <= 1 + drops'[q]
      BY DEF RefusedOnce
    <2>1. tries[q][g] <= 1 + drops[q] /\ tries[q][g] \in Nat /\ drops[q] \in Nat
      BY <1>2 DEF IInv, RefusedOnce, TypeOK
    <2>2. CASE q = p /\ g = c
      BY <1>1, <1>5, <1>8, <2>1, <2>2
    <2>3. CASE ~(q = p /\ g = c)
      BY <1>1, <1>5, <2>1, <2>3
    <2> QED BY <2>2, <2>3
  <1>13. BarLearnt'
    <2> SUFFICES ASSUME NEW q \in Procs
                 PROVE  /\ Working(q)' => vain'[q] <= drops'[q] /\ Bars(q, Groups)' = {}
                        /\ vain'[q] > drops'[q] /\ Bars(q, Groups)' = {}
                             => status' # "active" /\ ~pool'[q]
      BY DEF BarLearnt
    <2>1. CASE q = p
      <3>1. next = "back" => ~Working(p)'
        BY <1>4 DEF Working
      <3>2. Bars(p, Groups)' = {} <=> r \notin {"banned", "reauth"}
        BY <1>3, <1>4, <1>9, BarsAre
      <3>3. vain[p] \in Nat /\ drops[p] \in Nat
        BY <1>2 DEF TypeOK
      <3> QED BY <1>1, <1>7, <1>9, <2>1, <3>1, <3>2, <3>3
    <2>2. CASE q # p
      <3>1. Working(q)' = Working(q) /\ Bars(q, Groups)' = Bars(q, Groups)
        BY <1>4, <2>2 DEF Working, Bars
      <3> QED BY <1>1, <1>6, <2>2, <3>1 DEF IInv, BarLearnt
    <2> QED BY <2>1, <2>2
  <1>14. BarredOnce'
    <2> SUFFICES ASSUME NEW q \in Procs PROVE vain'[q] <= 1 + drops'[q]
      BY DEF BarredOnce
    <2>1. vain[q] <= 1 + drops[q] /\ vain[q] \in Nat /\ drops[q] \in Nat
      BY <1>2 DEF IInv, BarredOnce, TypeOK
    <2> QED BY <1>1, <1>6, <1>7, <1>9, <2>1
  <1>15. \A q \in Procs : pc'[q] = "idle" <=> pc[q] = "idle"
    BY <1>1, <1>4
  <1>16. WarmUpLoaded' /\ WarmUpCounted'
    BY <1>1, <1>15 DEF IInv, WarmUpLoaded, WarmUpCounted
  <1> QED BY <1>10, <1>11, <1>12, <1>13, <1>14, <1>16 DEF IInv

\* What a try finds.
LEMMA TryFrame ==
  ASSUME IInv, NEW p \in Procs, Sending(p)
  PROVE  TypeOK /\ RetriesCounted /\ pc[p] = "send" /\ cur[p] \in Groups
  BY DEF IInv, RoundOrdered, Sending

\* The counters of a send that is over are gone; its copies stay.
LEMMA OutcomeCounts ==
  ASSUME IInv, NEW p \in Procs, Sending(p),
         NEW r \in Results, NEW next \in {"take", "back"}, Outcome(p, r, next),
         \A q \in Procs \ {p} : copies'[q] = copies[q],
         copies'[p] <= 1 + GenericRetries
  PROVE  /\ pc' \in [Procs -> Phases] /\ out' \in [Procs -> [Groups -> Results]]
         /\ slow' \in [Procs -> Nat] /\ flood' \in [Procs -> Nat] /\ generic' \in [Procs -> Nat]
         /\ RetriesCounted'
  <1>1. TypeOK /\ RetriesCounted /\ cur[p] \in Groups
    BY TryFrame
  <1>2. pc' \in [Procs -> Phases] /\ out' \in [Procs -> [Groups -> Results]]
    BY <1>1 DEF Outcome, TypeOK, Phases
  <1>3. slow' \in [Procs -> Nat] /\ flood' \in [Procs -> Nat] /\ generic' \in [Procs -> Nat]
    BY <1>1 DEF Outcome, Returns, TypeOK
  <1>4. /\ pc'[p] = next /\ slow'[p] = 0 /\ flood'[p] = 0 /\ generic'[p] = 0
        /\ \A q \in Procs \ {p} : /\ pc'[q] = pc[q] /\ slow'[q] = slow[q]
                                 /\ flood'[q] = flood[q] /\ generic'[q] = generic[q]
    BY <1>1 DEF Outcome, Returns, TypeOK
  <1>5. SlowRetries \in Nat /\ FloodRetries \in Nat /\ GenericRetries \in Nat
    OBVIOUS
  <1>6. RetriesCounted'
    BY <1>1, <1>4, <1>5 DEF RetriesCounted
  <1> QED BY <1>2, <1>3, <1>6

\* except Exception: either one more of its retries, or the end.
LEMMA GenericErrorStep ==
  ASSUME IInv, NEW p \in Procs, Sending(p), NEW r \in {"fail", "invalid"},
         GenericError(p, r), UNCHANGED <<tries, vain>>,
         copies' = copies \/ copies' = [copies EXCEPT ![p] = @ + 1]
  PROVE  IInv'
  <1> USE DEF Sending, row, telegram
  <1>1. TypeOK /\ RetriesCounted /\ pc[p] = "send" /\ cur[p] \in Groups
    BY TryFrame
  <1>2. /\ copies' \in [Procs -> Nat]
        /\ \A q \in Procs \ {p} : copies'[q] = copies[q]
        /\ copies'[p] = copies[p] \/ copies'[p] = copies[p] + 1
    <2>1. copies \in [Procs -> Nat]
      BY <1>1 DEF TypeOK
    <2>2. CASE UNCHANGED copies
      BY <2>1, <2>2
    <2>3. CASE copies' = [copies EXCEPT ![p] = @ + 1]
      <3>1. copies[p] + 1 \in Nat
        BY <2>1
      <3> QED BY <2>1, <2>3, <3>1
    <2> QED BY <2>2, <2>3
  <1>3. copies[p] <= generic[p] /\ generic[p] <= GenericRetries
        /\ generic[p] \in Nat /\ copies[p] \in Nat
    BY <1>1 DEF RetriesCounted, TypeOK
  <1>4. CASE generic[p] >= GenericRetries
    <2>1. Outcome(p, r, "take") /\ r \in Results
      BY <1>4 DEF GenericError, Results
    <2>2. copies'[p] <= 1 + GenericRetries
      BY <1>2, <1>3
    <2>3. /\ pc' \in [Procs -> Phases] /\ out' \in [Procs -> [Groups -> Results]]
          /\ slow' \in [Procs -> Nat] /\ flood' \in [Procs -> Nat]
          /\ generic' \in [Procs -> Nat] /\ RetriesCounted'
      BY <1>2, <2>1, <2>2, OutcomeCounts
    <2>4. TypeOK'
      BY <1>1, <1>2, <2>3 DEF TypeOK
    <2> QED BY <2>1, <2>3, <2>4, OverStep
  <1>5. CASE generic[p] < GenericRetries
    <2>1. UNCHANGED <<out, pc, slow, flood>> /\ generic' = [generic EXCEPT ![p] = @ + 1]
      BY <1>3, <1>5 DEF GenericError, Stays
    <2>2. /\ generic' \in [Procs -> Nat] /\ generic'[p] = generic[p] + 1
          /\ \A q \in Procs \ {p} : generic'[q] = generic[q]
      BY <1>1, <2>1 DEF TypeOK
    <2>3. TypeOK'
      BY <1>1, <1>2, <2>1, <2>2 DEF TypeOK
    <2>4. RetriesCounted'
      BY <1>1, <1>2, <1>3, <1>5, <2>1, <2>2 DEF RetriesCounted
    <2> QED BY <2>1, <2>3, <2>4, StaysStep
  <1> QED BY <1>3, <1>4, <1>5

\* One try of the send.
LEMMA SendStep ==
  ASSUME IInv, NEW p \in Procs, Send(p)
  PROVE  IInv'
  \* A send that ends without one more copy
  <1>1. ASSUME Sending(p), UNCHANGED copies, NEW r \in Results, NEW next \in {"take", "back"},
               Outcome(p, r, next)
        PROVE  /\ RetriesCounted'
               /\ (/\ tries' \in [Procs -> [Groups -> Nat]]
                   /\ vain' \in [Procs -> Nat]) => TypeOK'
    <2>1. TypeOK /\ RetriesCounted
      BY <1>1, TryFrame
    <2>2. copies[p] <= 1 + GenericRetries
      BY <2>1 DEF RetriesCounted
    <2>3. /\ pc' \in [Procs -> Phases] /\ out' \in [Procs -> [Groups -> Results]]
          /\ slow' \in [Procs -> Nat] /\ flood' \in [Procs -> Nat]
          /\ generic' \in [Procs -> Nat] /\ RetriesCounted'
      BY <1>1, <2>2, OutcomeCounts
    <2> QED BY <1>1, <2>1, <2>3 DEF TypeOK, Sending, row, telegram
  <1>2. CASE Delivers(p)
    <2> DEFINE r == IF flood[p] > 0 THEN "flooded" ELSE "success"
    <2>0. r \in Results /\ r \notin {"blocked", "banned", "reauth"}
      BY DEF Results
    <2>1. Sending(p) /\ Outcome(p, r, "take") /\ copies' = [copies EXCEPT ![p] = @ + 1]
          /\ UNCHANGED <<tries, vain>>
      BY <1>2 DEF Delivers
    <2> HIDE DEF r
    <2>2. TypeOK /\ RetriesCounted /\ pc[p] = "send"
      BY <2>1, TryFrame
    <2>3. /\ copies' \in [Procs -> Nat] /\ copies'[p] = copies[p] + 1
          /\ \A q \in Procs \ {p} : copies'[q] = copies[q]
      BY <2>1, <2>2 DEF TypeOK
    <2>4. copies[p] <= generic[p] /\ generic[p] <= GenericRetries
          /\ generic[p] \in Nat /\ copies[p] \in Nat
      BY <2>2 DEF RetriesCounted, TypeOK
    <2>5. copies'[p] <= 1 + GenericRetries
      BY <2>3, <2>4
    <2>6. /\ pc' \in [Procs -> Phases] /\ out' \in [Procs -> [Groups -> Results]]
          /\ slow' \in [Procs -> Nat] /\ flood' \in [Procs -> Nat]
          /\ generic' \in [Procs -> Nat] /\ RetriesCounted'
      BY <2>0, <2>1, <2>3, <2>5, OutcomeCounts
    <2>7. TypeOK'
      BY <2>1, <2>2, <2>3, <2>6 DEF TypeOK, Sending, row, telegram
    <2> QED BY <2>0, <2>1, <2>6, <2>7, OverStep
  <1>3. CASE AnswerLost(p)
    BY <1>3, GenericErrorStep DEF AnswerLost
  <1>4. CASE SendError(p)
    <2>1. (IF cur[p] \in dead THEN "invalid" ELSE "fail") \in {"fail", "invalid"}
      OBVIOUS
    <2> QED BY <1>4, <2>1, GenericErrorStep DEF SendError
  <1>5. CASE LookupFails(p)
    <2> DEFINE r == IF cur[p] \in dead THEN "invalid" ELSE "fail"
    <2>1. r \in Results /\ r \notin {"banned", "reauth"}
      BY DEF Results
    <2>2. Sending(p) /\ Outcome(p, r, "take") /\ UNCHANGED <<copies, tries, vain>>
      BY <1>5 DEF LookupFails
    <2> HIDE DEF r
    <2>3. TypeOK' /\ RetriesCounted'
      BY <1>1, <2>1, <2>2, TryFrame DEF TypeOK
    <2> QED BY <2>1, <2>2, <2>3, OverStep
  <1>6. CASE SlowMode(p)
    <2>1. Sending(p) /\ UNCHANGED <<copies, tries, vain>>
      BY <1>6 DEF SlowMode
    <2>2. TypeOK /\ RetriesCounted
      BY <2>1, TryFrame
    <2>3. CASE Outcome(p, "fail", "take")
      <3>1. TypeOK' /\ RetriesCounted'
        BY <1>1, <2>1, <2>2, <2>3 DEF TypeOK, Results
      <3> QED BY <2>1, <2>3, <3>1, OverStep DEF Results
    <2>4. CASE UNCHANGED <<out, pc, flood, generic>> /\ slow' = [slow EXCEPT ![p] = @ + 1]
               /\ slow[p] < SlowRetries
      <3>1. /\ slow' \in [Procs -> Nat] /\ slow'[p] = slow[p] + 1 /\ slow[p] \in Nat
            /\ \A q \in Procs \ {p} : slow'[q] = slow[q]
        BY <2>2, <2>4 DEF TypeOK
      <3>2. TypeOK'
        BY <2>1, <2>2, <2>4, <3>1 DEF TypeOK, Sending, row, telegram
      <3>3. RetriesCounted'
        BY <2>1, <2>2, <2>4, <3>1 DEF RetriesCounted
      <3> QED BY <2>1, <2>4, <3>2, <3>3, StaysStep
    <2>5. slow[p] \in Nat /\ SlowRetries \in Nat
      BY <2>2 DEF TypeOK
    <2> QED BY <1>6, <2>3, <2>4, <2>5 DEF SlowMode, Stays
  <1>7. CASE FloodWait(p)
    <2>1. Sending(p) /\ UNCHANGED <<copies, tries, vain>>
      BY <1>7 DEF FloodWait
    <2>2. TypeOK /\ RetriesCounted
      BY <2>1, TryFrame
    <2>3. CASE Outcome(p, "flood", "back")
      <3>1. TypeOK' /\ RetriesCounted'
        BY <1>1, <2>1, <2>2, <2>3 DEF TypeOK, Results
      <3> QED BY <2>1, <2>3, <3>1, OverStep DEF Results
    <2>4. CASE UNCHANGED <<out, pc, slow, generic>> /\ flood[p] < FloodRetries
               /\ flood' = [flood EXCEPT ![p] = @ + 1]
      <3>1. /\ flood' \in [Procs -> Nat] /\ flood'[p] = flood[p] + 1 /\ flood[p] \in Nat
            /\ \A q \in Procs \ {p} : flood'[q] = flood[q]
        BY <2>2, <2>4 DEF TypeOK
      <3>2. TypeOK'
        BY <2>1, <2>2, <2>4, <3>1 DEF TypeOK, Sending, row, telegram
      <3>3. RetriesCounted'
        BY <2>1, <2>2, <2>4, <3>1 DEF RetriesCounted
      <3> QED BY <2>1, <2>4, <3>2, <3>3, StaysStep
    <2> QED BY <1>7, <2>3, <2>4 DEF FloodWait, Stays
  <1>8. CASE Refused(p)
    <2>1. Sending(p) /\ Outcome(p, "blocked", "take") /\ UNCHANGED <<copies, vain>>
          /\ tries' = [tries EXCEPT ![p][cur[p]] = @ + 1]
      BY <1>8 DEF Refused
    <2>2. TypeOK /\ cur[p] \in Groups
      BY <2>1, TryFrame
    <2>3. tries' \in [Procs -> [Groups -> Nat]]
      BY <2>1, <2>2 DEF TypeOK
    <2>4. TypeOK' /\ RetriesCounted'
      BY <1>1, <2>1, <2>2, <2>3 DEF TypeOK, Results
    <2> QED BY <2>1, <2>4, OverStep DEF Results
  <1>9. CASE AccountBarred(p)
    <2>1. Sending(p) /\ Outcome(p, barred, "back") /\ UNCHANGED <<copies, tries>>
          /\ vain' = [vain EXCEPT ![p] = @ + 1] /\ barred # "no"
      BY <1>9 DEF AccountBarred
    <2>2. TypeOK
      BY <2>1, TryFrame
    <2>3. barred \in {"banned", "reauth"} /\ barred \in Results
      BY <2>1, <2>2 DEF TypeOK, Results
    <2>4. PICK b \in {"banned", "reauth"} : barred = b
      BY <2>3
    <2>5. Outcome(p, b, "back") /\ b \in Results
      BY <2>1, <2>3, <2>4
    <2>6. vain' \in [Procs -> Nat] /\ tries' \in [Procs -> [Groups -> Nat]]
      BY <2>1, <2>2 DEF TypeOK
    <2>7. TypeOK' /\ RetriesCounted'
      BY <1>1, <2>1, <2>5, <2>6
    <2> QED BY <2>1, <2>5, <2>7, OverStep
  <1>10. CASE RefusedByText(p)
    <2>1. Sending(p) /\ UNCHANGED <<copies, vain>>
      BY <1>10 DEF RefusedByText
    <2>2. TypeOK /\ RetriesCounted /\ cur[p] \in Groups
      BY <2>1, TryFrame
    <2>3. CASE Outcome(p, "blocked", "take") /\ tries' = [tries EXCEPT ![p][cur[p]] = @ + 1]
      <3>1. tries' \in [Procs -> [Groups -> Nat]]
        BY <2>2, <2>3 DEF TypeOK
      <3>2. TypeOK' /\ RetriesCounted'
        BY <1>1, <2>1, <2>2, <2>3, <3>1 DEF TypeOK, Results
      <3> QED BY <2>1, <2>3, <3>2, OverStep DEF Results
    <2>4. CASE UNCHANGED <<out, pc, slow, flood, tries>> /\ generic[p] < GenericRetries
               /\ generic' = [generic EXCEPT ![p] = @ + 1]
      <3>1. /\ generic' \in [Procs -> Nat] /\ generic'[p] = generic[p] + 1 /\ generic[p] \in Nat
            /\ \A q \in Procs \ {p} : generic'[q] = generic[q]
        BY <2>2, <2>4 DEF TypeOK
      <3>2. TypeOK'
        BY <2>1, <2>2, <2>4, <3>1 DEF TypeOK, Sending, row, telegram
      <3>3. copies[p] \in Nat /\ GenericRetries \in Nat
        BY <2>2 DEF TypeOK
      <3>4. RetriesCounted'
        BY <2>1, <2>2, <2>4, <3>1, <3>3 DEF RetriesCounted
      <3> QED BY <2>1, <2>4, <3>2, <3>4, StaysStep
    <2> QED BY <1>10, <2>3, <2>4 DEF RefusedByText, Stays
  <1> QED BY <1>2, <1>3, <1>4, <1>5, <1>6, <1>7, <1>8, <1>9, <1>10 DEF Send

-----------------------------------------------------------------------------
(* The round *)

\* A step of the worker outside of a send: it stays in its round, and all it
\* may do to the outcomes is to fail what is left.
LEMMA WorkerStep ==
  ASSUME IInv, NEW p \in Procs, pc[p] \in {"connect", "take"}, TypeOK',
         NEW next \in {"take", "send", "back"}, pc' = [pc EXCEPT ![p] = next],
         UNCHANGED <<row, telegram, loaded, written, begun, drops, history>>,
         \A q \in Procs \ {p} :
           /\ queue'[q] = queue[q] /\ cur'[q] = cur[q] /\ out'[q] = out[q]
           /\ pool'[q] = pool[q],
         queue'[p] \subseteq queue[p],
         \A g \in Groups : \/ out'[p][g] = out[p][g]
                           \/ g \in queue[p] /\ (next = "back" \/ out'[p][g] = "fail"),
         next = "send" => cur'[p] \in queue[p] \ queue'[p],
         RetriesCounted'
  PROVE  IInv'
  <1> USE DEF row, telegram, history
  <1>1. TypeOK
    BY DEF IInv
  <1>2. pc'[p] = next /\ \A q \in Procs \ {p} : pc'[q] = pc[q]
    BY <1>1 DEF TypeOK
  <1>3. queue[p] \in SUBSET Groups
    BY <1>1 DEF TypeOK
  <1>4. RoundOrdered'
    <2>1. \A q \in Procs \ {p} :
            /\ pc'[q] = "idle" => out'[q] = Nothing /\ queue'[q] = {}
            /\ pc'[q] = "send" => cur'[q] \in Groups \ queue'[q]
            /\ pc'[q] # "back" => written'[q] = 0
      BY <1>2 DEF IInv, RoundOrdered
    <2>2. written'[p] = 0
      BY DEF IInv, RoundOrdered
    <2> QED BY <1>2, <1>3, <2>1, <2>2 DEF RoundOrdered
  <1>5. RefusalsLearnt'
    <2> SUFFICES ASSUME NEW q \in Procs, NEW g \in Groups
                 PROVE  /\ g \in ToSend(q)' => tries[q][g] <= drops[q]
                        /\ g \notin blocked /\ out'[q][g] # "blocked" => tries[q][g] <= drops[q]
      BY DEF RefusalsLearnt
    <2>1. /\ g \in ToSend(q) => tries[q][g] <= drops[q]
          /\ g \notin blocked /\ out[q][g] # "blocked" => tries[q][g] <= drops[q]
      BY DEF IInv, RefusalsLearnt
    <2>2. CASE q = p
      <3>1. ToSend(p)' \subseteq queue[p] /\ queue[p] \subseteq ToSend(p)
        BY <1>2 DEF ToSend
      <3> QED BY <2>1, <2>2, <3>1
    <2>3. CASE q # p
      <3>1. ToSend(q)' = ToSend(q)
        BY <1>2, <2>3 DEF ToSend
      <3> QED BY <2>1, <2>3, <3>1
    <2> QED BY <2>2, <2>3
  <1>6. RefusedOnce' /\ BarredOnce'
    BY DEF IInv, RefusedOnce, BarredOnce
  <1>7. BarLearnt'
    <2> SUFFICES ASSUME NEW q \in Procs
                 PROVE  /\ Working(q)' => vain[q] <= drops[q] /\ Bars(q, Groups)' = {}
                        /\ vain[q] > drops[q] /\ Bars(q, Groups)' = {}
                             => status # "active" /\ ~pool'[q]
      BY DEF BarLearnt
    <2>1. CASE q = p
      <3>1. /\ vain[p] <= drops[p] /\ vain[p] \in Nat /\ drops[p] \in Nat
            /\ \A g \in Groups : out[p][g] \notin {"banned", "reauth"}
        BY <1>1, BarsAre DEF IInv, BarLearnt, Working, TypeOK
      <3>2. Working(p)' => next # "back"
        BY <1>2 DEF Working
      <3>3. next # "back" => Bars(p, Groups)' = {}
        BY <3>1, BarsAre
      <3> QED BY <2>1, <3>1, <3>2, <3>3
    <2>2. CASE q # p
      <3>1. Working(q)' = Working(q) /\ Bars(q, Groups)' = Bars(q, Groups)
        BY <1>2, <2>2 DEF Working, Bars
      <3> QED BY <2>2, <3>1 DEF IInv, BarLearnt
    <2> QED BY <2>1, <2>2
  <1>8. \A q \in Procs : pc'[q] = "idle" <=> pc[q] = "idle"
    BY <1>2
  <1>9. WarmUpLoaded' /\ WarmUpCounted'
    BY <1>8 DEF IInv, WarmUpLoaded, WarmUpCounted
  <1> QED BY <1>4, <1>5, <1>6, <1>7, <1>9 DEF IInv

\* The worker fails what is left of its queue.
LEMMA FailAllTyped ==
  ASSUME TypeOK, NEW p \in Procs, NEW r \in Results, FailAll(p, r)
  PROVE  /\ out' \in [Procs -> [Groups -> Results]] /\ queue' \in [Procs -> SUBSET Groups]
         /\ \A q \in Procs \ {p} : queue'[q] = queue[q] /\ out'[q] = out[q]
         /\ queue'[p] = {}
         /\ \A g \in Groups : out'[p][g] = out[p][g] \/ g \in queue[p]
  <1> DEFINE f == [g \in Groups |-> IF g \in queue[p] THEN r ELSE out[p][g]]
  <1>1. out \in [Procs -> [Groups -> Results]] /\ queue \in [Procs -> SUBSET Groups]
    BY DEF TypeOK
  <1>2. out' = [out EXCEPT ![p] = f] /\ queue' = [queue EXCEPT ![p] = {}]
    BY DEF FailAll
  <1>3. f \in [Groups -> Results]
    BY <1>1 DEF Results
  <1>4. \A g \in Groups : f[g] = out[p][g] \/ g \in queue[p]
    OBVIOUS
  <1> HIDE DEF f
  <1> QED BY <1>1, <1>2, <1>3, <1>4

\* Steps that leave the retries alone, and start no send.
LEMMA RetriesKept ==
  ASSUME IInv, UNCHANGED retries, \A q \in Procs : pc'[q] = "send" => pc[q] = "send"
  PROVE  RetriesCounted'
  BY DEF IInv, RetriesCounted, retries

LEMMA ConnectStep == ASSUME IInv, NEW p \in Procs, Connect(p) PROVE IInv'
  <1> USE DEF row, telegram, retries, history
  <1>1. /\ pc[p] = "connect" /\ pc' = [pc EXCEPT ![p] = "take"]
        /\ pool' = [pool EXCEPT ![p] = Pooling]
        /\ UNCHANGED <<row, telegram, queue, cur, out, loaded, written, retries, begun, drops,
                       history>>
    BY DEF Connect
  <1>2. TypeOK
    BY DEF IInv
  <1>3. TypeOK'
    BY <1>1, <1>2 DEF TypeOK, Phases
  <1>4. \A q \in Procs \ {p} : pc'[q] = pc[q] /\ pool'[q] = pool[q]
    BY <1>1, <1>2 DEF TypeOK
  <1>5. pc'[p] = "take"
    BY <1>1, <1>2 DEF TypeOK
  <1>6. RetriesCounted'
    BY <1>1, <1>4, <1>5, RetriesKept
  <1> QED BY <1>1, <1>3, <1>4, <1>6, WorkerStep

LEMMA BuildFailsStep == ASSUME IInv, NEW p \in Procs, BuildFails(p) PROVE IInv'
  <1> USE DEF row, telegram, retries, history
  <1>1. /\ pc[p] = "connect" /\ FailAll(p, "fail") /\ pc' = [pc EXCEPT ![p] = "back"]
        /\ pool' = [pool EXCEPT ![p] = FALSE]
        /\ UNCHANGED <<row, telegram, cur, loaded, written, retries, begun, drops, history>>
    BY DEF BuildFails
  <1>2. TypeOK
    BY DEF IInv
  <1>3. /\ out' \in [Procs -> [Groups -> Results]] /\ queue' \in [Procs -> SUBSET Groups]
        /\ \A q \in Procs \ {p} : queue'[q] = queue[q] /\ out'[q] = out[q]
        /\ queue'[p] = {}
        /\ \A g \in Groups : out'[p][g] = out[p][g] \/ g \in queue[p]
    BY <1>1, <1>2, FailAllTyped DEF Results
  <1>4. TypeOK'
    BY <1>1, <1>2, <1>3 DEF TypeOK, Phases
  <1>5. pc'[p] = "back" /\ \A q \in Procs \ {p} : pc'[q] = pc[q] /\ pool'[q] = pool[q]
    BY <1>1, <1>2 DEF TypeOK
  <1>6. RetriesCounted'
    BY <1>1, <1>5, RetriesKept
  <1> QED BY <1>1, <1>3, <1>4, <1>5, <1>6, WorkerStep

LEMMA UnauthorizedStep == ASSUME IInv, NEW p \in Procs, Unauthorized(p) PROVE IInv'
  <1> USE DEF row, telegram, retries, history
  <1>1. /\ pc[p] = "connect" /\ FailAll(p, "reauth") /\ pc' = [pc EXCEPT ![p] = "back"]
        /\ pool' = [pool EXCEPT ![p] = FALSE]
        /\ UNCHANGED <<row, telegram, cur, loaded, written, retries, begun, drops, history>>
    BY DEF Unauthorized
  <1>2. TypeOK
    BY DEF IInv
  <1>3. /\ out' \in [Procs -> [Groups -> Results]] /\ queue' \in [Procs -> SUBSET Groups]
        /\ \A q \in Procs \ {p} : queue'[q] = queue[q] /\ out'[q] = out[q]
        /\ queue'[p] = {}
        /\ \A g \in Groups : out'[p][g] = out[p][g] \/ g \in queue[p]
    BY <1>1, <1>2, FailAllTyped DEF Results
  <1>4. TypeOK'
    BY <1>1, <1>2, <1>3 DEF TypeOK, Phases
  <1>5. pc'[p] = "back" /\ \A q \in Procs \ {p} : pc'[q] = pc[q] /\ pool'[q] = pool[q]
    BY <1>1, <1>2 DEF TypeOK
  <1>6. RetriesCounted'
    BY <1>1, <1>5, RetriesKept
  <1> QED BY <1>1, <1>3, <1>4, <1>5, <1>6, WorkerStep

\* The local variables of a send start at zero.
LEMMA FreshCounts ==
  ASSUME IInv, NEW p \in Procs, Fresh(p),
         \A q \in Procs \ {p} : pc'[q] = "send" => pc[q] = "send"
  PROVE  /\ RetriesCounted' /\ slow' \in [Procs -> Nat] /\ flood' \in [Procs -> Nat]
         /\ generic' \in [Procs -> Nat] /\ copies' \in [Procs -> Nat]
  <1>1. TypeOK /\ RetriesCounted
    BY DEF IInv
  <1>2. /\ slow' \in [Procs -> Nat] /\ flood' \in [Procs -> Nat]
        /\ generic' \in [Procs -> Nat] /\ copies' \in [Procs -> Nat]
    BY <1>1 DEF TypeOK, Fresh, Returns
  <1>3. /\ slow'[p] = 0 /\ flood'[p] = 0 /\ generic'[p] = 0 /\ copies'[p] = 0
        /\ \A q \in Procs \ {p} : slow'[q] = slow[q] /\ flood'[q] = flood[q]
                                  /\ generic'[q] = generic[q] /\ copies'[q] = copies[q]
    BY <1>1 DEF TypeOK, Fresh, Returns
  <1>4. SlowRetries \in Nat /\ FloodRetries \in Nat /\ GenericRetries \in Nat
    OBVIOUS
  <1>5. RetriesCounted'
    BY <1>1, <1>3, <1>4 DEF RetriesCounted
  <1> QED BY <1>2, <1>5

LEMMA TakeStep == ASSUME IInv, NEW p \in Procs, Take(p) PROVE IInv'
  <1> USE DEF row, telegram, history
  <1>1. /\ pc[p] = "take" /\ pc' = [pc EXCEPT ![p] = "send"] /\ Fresh(p)
        /\ UNCHANGED <<row, telegram, out, loaded, written, pool, begun, drops, history>>
    BY DEF Take
  <1>2. TypeOK
    BY DEF IInv
  <1>3. PICK g \in queue[p] : /\ cur' = [cur EXCEPT ![p] = g]
                              /\ queue' = [queue EXCEPT ![p] = @ \ {g}]
    BY DEF Take
  <1>4. g \in Groups /\ queue[p] \subseteq Groups
    BY <1>2, <1>3 DEF TypeOK
  <1>5. /\ cur' \in [Procs -> Groups \cup {NoGroup}] /\ queue' \in [Procs -> SUBSET Groups]
        /\ cur'[p] = g /\ queue'[p] = queue[p] \ {g}
        /\ \A q \in Procs \ {p} : queue'[q] = queue[q] /\ cur'[q] = cur[q] /\ pc'[q] = pc[q]
    BY <1>1, <1>2, <1>3, <1>4 DEF TypeOK
  <1>6. /\ RetriesCounted' /\ slow' \in [Procs -> Nat] /\ flood' \in [Procs -> Nat]
        /\ generic' \in [Procs -> Nat] /\ copies' \in [Procs -> Nat]
    BY <1>1, <1>5, FreshCounts
  <1>7. TypeOK'
    BY <1>1, <1>2, <1>5, <1>6 DEF TypeOK, Phases
  <1>8. cur'[p] \in queue[p] \ queue'[p] /\ queue'[p] \subseteq queue[p]
    BY <1>3, <1>5
  <1> QED BY <1>1, <1>5, <1>6, <1>7, <1>8, WorkerStep

LEMMA WorkerEndsStep == ASSUME IInv, NEW p \in Procs, WorkerEnds(p) PROVE IInv'
  <1> USE DEF row, telegram, retries, history
  <1>1. /\ pc[p] = "take" /\ pc' = [pc EXCEPT ![p] = "back"]
        /\ UNCHANGED <<row, telegram, queue, cur, out, loaded, written, retries, pool, begun,
                       drops, history>>
    BY DEF WorkerEnds
  <1>2. TypeOK
    BY DEF IInv
  <1>3. TypeOK'
    BY <1>1, <1>2 DEF TypeOK, Phases
  <1>4. pc'[p] = "back" /\ \A q \in Procs \ {p} : pc'[q] = pc[q]
    BY <1>1, <1>2 DEF TypeOK
  <1>5. RetriesCounted'
    BY <1>1, <1>4, RetriesKept
  <1> QED BY <1>1, <1>3, <1>5, WorkerStep

\* What a process kept for its round is gone, and nobody else notices.
LEMMA OverTyped ==
  ASSUME IInv, NEW p \in Procs, Over(p)
  PROVE  /\ pc' \in [Procs -> Phases] /\ queue' \in [Procs -> SUBSET Groups]
         /\ cur' \in [Procs -> Groups \cup {NoGroup}] /\ out' \in [Procs -> [Groups -> Results]]
         /\ loaded' \in [Procs -> Nat] /\ written' \in [Procs -> Nat]
         /\ slow' \in [Procs -> Nat] /\ flood' \in [Procs -> Nat]
         /\ generic' \in [Procs -> Nat] /\ copies' \in [Procs -> Nat]
         /\ RetriesCounted' /\ RoundOrdered'
         /\ pc'[p] = "idle" /\ queue'[p] = {} /\ out'[p] = Nothing
         /\ loaded'[p] = 0 /\ written'[p] = 0
         /\ \A q \in Procs \ {p} :
              /\ pc'[q] = pc[q] /\ queue'[q] = queue[q] /\ cur'[q] = cur[q] /\ out'[q] = out[q]
              /\ loaded'[q] = loaded[q] /\ written'[q] = written[q]
  <1>1. TypeOK
    BY DEF IInv
  <1>2. Nothing \in [Groups -> Results]
    BY DEF Nothing, Results
  <1>3. /\ pc' = [pc EXCEPT ![p] = "idle"]
        /\ queue' = [queue EXCEPT ![p] = {}] /\ cur' = [cur EXCEPT ![p] = NoGroup]
        /\ out' = [out EXCEPT ![p] = Nothing]
        /\ loaded' = [loaded EXCEPT ![p] = 0] /\ written' = [written EXCEPT ![p] = 0]
        /\ Fresh(p)
    BY DEF Over
  <1> HIDE DEF Nothing
  <1>4. /\ pc' \in [Procs -> Phases] /\ queue' \in [Procs -> SUBSET Groups]
        /\ cur' \in [Procs -> Groups \cup {NoGroup}] /\ out' \in [Procs -> [Groups -> Results]]
        /\ loaded' \in [Procs -> Nat] /\ written' \in [Procs -> Nat]
    BY <1>1, <1>2, <1>3 DEF TypeOK, Phases
  <1>5. /\ pc'[p] = "idle" /\ queue'[p] = {} /\ out'[p] = Nothing
        /\ loaded'[p] = 0 /\ written'[p] = 0
        /\ \A q \in Procs \ {p} :
             /\ pc'[q] = pc[q] /\ queue'[q] = queue[q] /\ cur'[q] = cur[q] /\ out'[q] = out[q]
             /\ loaded'[q] = loaded[q] /\ written'[q] = written[q]
    BY <1>1, <1>3 DEF TypeOK
  <1>6. /\ RetriesCounted' /\ slow' \in [Procs -> Nat] /\ flood' \in [Procs -> Nat]
        /\ generic' \in [Procs -> Nat] /\ copies' \in [Procs -> Nat]
    BY <1>3, <1>5, FreshCounts
  <1>7. RoundOrdered'
    <2>1. \A q \in Procs \ {p} :
            /\ pc'[q] = "idle" => out'[q] = Nothing /\ queue'[q] = {}
            /\ pc'[q] = "send" => cur'[q] \in Groups \ queue'[q]
            /\ pc'[q] # "back" => written'[q] = 0
      BY <1>5 DEF IInv, RoundOrdered
    <2> QED BY <1>5, <2>1 DEF RoundOrdered
  <1> QED BY <1>4, <1>5, <1>6, <1>7

\* What becomes of the rows of the account and its groups.
LEMMA Recorded ==
  ASSUME TypeOK, NEW p \in Procs, NEW S \in SUBSET Groups, Record(p, S)
  PROVE  /\ invalid' \in SUBSET Groups /\ blocked' \in SUBSET Groups /\ blocked \subseteq blocked'
         /\ \A g \in S : out[p][g] = "blocked" => g \in blocked'
         /\ status' \in {"active", "banned", "reauth"}
         /\ status' = "active" =>
              status = "active" /\ \A g \in S : out[p][g] \notin {"banned", "reauth"}
         /\ waits' \in BOOLEAN
         /\ logged' = logged + Successes(p, S) /\ Successes(p, S) \in Nat
  <1>1. invalid' \in SUBSET Groups /\ blocked' \in SUBSET Groups /\ blocked \subseteq blocked'
    BY DEF Record, Found, TypeOK
  <1>2. \A g \in S : out[p][g] = "blocked" => g \in blocked'
    BY DEF Record, Found
  <1>3. status' \in IF Bars(p, S) = {} THEN {status} ELSE Bars(p, S)
    BY DEF Record
  <1>4. Bars(p, S) \subseteq {"banned", "reauth"}
    BY DEF Bars
  <1>5. Bars(p, S) = {} => \A g \in S : out[p][g] \notin {"banned", "reauth"}
    BY DEF Bars
  <1>6. status \in {"active", "banned", "reauth"} /\ waits \in BOOLEAN
    BY DEF TypeOK
  <1>7. waits' \in BOOLEAN /\ logged' = logged + Successes(p, S)
    BY <1>6 DEF Record
  <1> QED BY <1>1, <1>2, <1>3, <1>4, <1>5, <1>6, <1>7, SuccessesAreCounted

\* The refusals that are recorded are in the blocklist, the others still to record.
LEMMA RefusalsRecorded ==
  ASSUME IInv, NEW p \in Procs, ~Working(p), ~Working(p)', queue'[p] \subseteq queue[p],
         NEW S \in SUBSET Groups, blocked \subseteq blocked', \A g \in S : out[p][g] = "blocked" => g \in blocked',
         \A g \in Groups \ S : out'[p][g] = out[p][g],
         \A q \in Procs \ {p} : /\ pc'[q] = pc[q] /\ queue'[q] = queue[q] /\ cur'[q] = cur[q]
                                /\ out'[q] = out[q],
         UNCHANGED <<drops, tries>>
  PROVE  RefusalsLearnt' /\ RefusedOnce'
  <1>1. RefusalsLearnt'
    <2> SUFFICES ASSUME NEW q \in Procs, NEW g \in Groups
                 PROVE  /\ g \in ToSend(q)' => tries[q][g] <= drops[q]
                        /\ g \notin blocked' /\ out'[q][g] # "blocked" => tries[q][g] <= drops[q]
      BY DEF RefusalsLearnt
    <2>1. /\ g \in ToSend(q) => tries[q][g] <= drops[q]
          /\ g \notin blocked /\ out[q][g] # "blocked" => tries[q][g] <= drops[q]
      BY DEF IInv, RefusalsLearnt
    <2>2. CASE q = p
      <3>1. g \in ToSend(p)' => g \in ToSend(p)
        BY DEF ToSend, Working
      <3> QED BY <2>1, <2>2, <3>1
    <2>3. CASE q # p
      <3>1. ToSend(q)' = ToSend(q) /\ out'[q] = out[q]
        BY <2>3 DEF ToSend
      <3> QED BY <2>1, <2>3, <3>1
    <2> QED BY <2>2, <2>3
  <1>2. RefusedOnce'
    BY DEF IInv, RefusedOnce
  <1> QED BY <1>1, <1>2

\* A bar that is recorded is in the status, and the client is gone.
LEMMA BarsRecorded ==
  ASSUME IInv, NEW p \in Procs, ~Working(p), ~Working(p)', NEW S \in SUBSET Groups,
         status' = "active" =>
           status = "active" /\ \A g \in S : out[p][g] \notin {"banned", "reauth"},
         pool'[p] => pool[p] /\ \A g \in S : out[p][g] \notin {"banned", "reauth"},
         \A g \in Groups \ S : out'[p][g] = out[p][g],
         \A q \in Procs \ {p} : pc'[q] = pc[q] /\ out'[q] = out[q] /\ pool'[q] = pool[q],
         UNCHANGED <<drops, vain>>
  PROVE  BarLearnt' /\ BarredOnce'
  <1>1. BarLearnt'
    <2> SUFFICES ASSUME NEW q \in Procs
                 PROVE  /\ Working(q)' => vain[q] <= drops[q] /\ Bars(q, Groups)' = {}
                        /\ vain[q] > drops[q] /\ Bars(q, Groups)' = {}
                             => status' # "active" /\ ~pool'[q]
      BY DEF BarLearnt
    <2>1. /\ Working(q) => vain[q] <= drops[q] /\ Bars(q, Groups) = {}
          /\ vain[q] > drops[q] /\ Bars(q, Groups) = {} => status # "active" /\ ~pool[q]
      BY DEF IInv, BarLearnt
    <2>2. CASE q = p
      <3>1. CASE \E g \in S : out[p][g] \in {"banned", "reauth"}
        BY <2>2, <3>1
      <3>2. CASE \A g \in S : out[p][g] \notin {"banned", "reauth"}
        <4>1. Bars(p, Groups)' = {} => Bars(p, Groups) = {}
          BY <3>2, BarsAre
        <4> QED BY <2>1, <2>2, <4>1
      <3> QED BY <3>1, <3>2
    <2>3. CASE q # p
      <3>1. Working(q)' = Working(q) /\ Bars(q, Groups)' = Bars(q, Groups)
        BY <2>3 DEF Working, Bars
      <3> QED BY <2>1, <2>3, <3>1
    <2> QED BY <2>2, <2>3
  <1>2. BarredOnce'
    BY DEF IInv, BarredOnce
  <1> QED BY <1>1, <1>2

LEMMA WriteBatchStep == ASSUME IInv, NEW p \in Procs, WriteBatch(p) PROVE IInv'
  <1>1. /\ pc[p] = "back"
        /\ UNCHANGED <<warm, barred, refusing, dead, pc, queue, cur, loaded, slow, flood, generic,
                       copies, begun, drops, forgotten, overlapped, tries, vain>>
    BY DEF WriteBatch, telegram, retries
  <1>2. PICK S \in SUBSET Tried(p) :
          /\ Record(p, S)
          /\ out' = [out EXCEPT ![p] = [g \in Groups |-> IF g \in S THEN "none" ELSE @[g]]]
          /\ written' = [written EXCEPT ![p] = @ + Successes(p, S)]
          /\ pool' = [pool EXCEPT ![p] = @ /\ ~Invalidates(p, S)]
    BY DEF WriteBatch
  <1>3. TypeOK
    BY DEF IInv
  <1>4. S \in SUBSET Groups
    BY <1>2 DEF Tried
  <1> DEFINE n == Successes(p, S)
             f == [g \in Groups |-> IF g \in S THEN "none" ELSE out[p][g]]
  <1>5. /\ invalid' \in SUBSET Groups /\ blocked' \in SUBSET Groups /\ blocked \subseteq blocked'
        /\ \A g \in S : out[p][g] = "blocked" => g \in blocked'
        /\ status' \in {"active", "banned", "reauth"}
        /\ status' = "active" =>
             status = "active" /\ \A g \in S : out[p][g] \notin {"banned", "reauth"}
        /\ waits' \in BOOLEAN /\ logged' = logged + n /\ n \in Nat
    BY <1>2, <1>3, <1>4, Recorded
  <1>6. f \in [Groups -> Results] /\ \A g \in Groups \ S : f[g] = out[p][g]
    BY <1>3 DEF TypeOK, Results
  <1>7. out' = [out EXCEPT ![p] = f] /\ written' = [written EXCEPT ![p] = @ + n]
    BY <1>2
  <1> HIDE DEF n, f
  <1>8. /\ out' \in [Procs -> [Groups -> Results]] /\ written' \in [Procs -> Nat]
        /\ \A g \in Groups \ S : out'[p][g] = out[p][g]
        /\ written'[p] = written[p] + n /\ written[p] \in Nat
        /\ \A q \in Procs \ {p} : out'[q] = out[q] /\ written'[q] = written[q]
    BY <1>3, <1>5, <1>6, <1>7 DEF TypeOK
  <1>9. /\ pool' \in [Procs -> BOOLEAN] /\ \A q \in Procs \ {p} : pool'[q] = pool[q]
        /\ pool'[p] => pool[p] /\ \A g \in S : out[p][g] \notin {"banned", "reauth"}
    <2> DEFINE kept == pool[p] /\ ~Invalidates(p, S)
    <2>1. pool \in [Procs -> BOOLEAN] /\ pool' = [pool EXCEPT ![p] = kept]
      BY <1>2, <1>3 DEF TypeOK
    <2>2. kept => pool[p] /\ \A g \in S : out[p][g] \notin {"banned", "reauth"}
      BY DEF Invalidates, Bars
    <2>3. kept \in BOOLEAN
      OBVIOUS
    <2> HIDE DEF kept
    <2> QED BY <2>1, <2>2, <2>3
  <1>10. logged \in Nat /\ logged' \in Nat
    BY <1>3, <1>5 DEF TypeOK
  <1>11. TypeOK'
    BY <1>1, <1>3, <1>5, <1>8, <1>9, <1>10 DEF TypeOK
  <1>12. RetriesCounted'
    BY <1>1 DEF IInv, RetriesCounted
  <1>13. RoundOrdered'
    BY <1>1, <1>8 DEF IInv, RoundOrdered
  <1>14. ~Working(p) /\ ~Working(p)'
    BY <1>1 DEF Working
  <1>15. RefusalsLearnt' /\ RefusedOnce'
    <2>1. queue'[p] \subseteq queue[p] /\ UNCHANGED <<drops, tries>>
      BY <1>1
    <2>2. \A q \in Procs \ {p} : /\ pc'[q] = pc[q] /\ queue'[q] = queue[q] /\ cur'[q] = cur[q]
                                 /\ out'[q] = out[q]
      BY <1>1, <1>8
    <2> QED BY <1>4, <1>5, <1>8, <1>14, <2>1, <2>2, RefusalsRecorded
  <1>16. BarLearnt' /\ BarredOnce'
    BY <1>1, <1>4, <1>5, <1>8, <1>9, <1>14, BarsRecorded
  <1>17. WarmUpLoaded'
    <2>1. ASSUME NEW q \in Procs PROVE loaded'[q] + written'[q] <= logged'
      <3>1. /\ loaded[q] + written[q] <= logged /\ loaded[q] \in Nat /\ written[q] \in Nat
            /\ loaded'[q] = loaded[q]
        BY <1>1, <1>3 DEF IInv, WarmUpLoaded, TypeOK
      <3> QED BY <1>5, <1>8, <1>10, <3>1
    <2>2. ASSUME ~overlapped, NEW q \in Procs, pc[q] # "idle"
          PROVE  loaded'[q] = warm' /\ logged' = warm' + forgotten' + written'[q]
      <3>1. q = p /\ loaded[q] = warm /\ logged = warm + forgotten + written[q]
        BY <1>1, <2>2 DEF IInv, WarmUpLoaded
      <3>2. warm \in Nat /\ forgotten \in Nat
        BY <1>3 DEF TypeOK
      <3> QED BY <1>1, <1>5, <1>8, <1>10, <3>1, <3>2
    <2> QED BY <1>1, <2>1, <2>2 DEF IInv, WarmUpLoaded
  <1>18. WarmUpCounted'
    <2>1. warm' <= logged'
      BY <1>1, <1>3, <1>5 DEF IInv, WarmUpCounted, TypeOK
    <2> QED BY <1>1, <2>1 DEF WarmUpCounted
  <1> QED BY <1>11, <1>12, <1>13, <1>15, <1>16, <1>17, <1>18 DEF IInv

LEMMA WriteBackStep == ASSUME IInv, NEW p \in Procs, WriteBack(p) PROVE IInv'
  <1> DEFINE n == Successes(p, Groups)
             m == Mine(p)
  <1>1. /\ pc[p] = "back" /\ Over(p) /\ Record(p, Groups)
        /\ warm' = IF m > 0 THEN loaded[p] + m ELSE warm
        /\ UNCHANGED <<barred, refusing, dead, begun, drops, forgotten, overlapped, tries, vain>>
    BY DEF WriteBack, Warmed, telegram
  <1>2. TypeOK
    BY DEF IInv
  <1>3. /\ invalid' \in SUBSET Groups /\ blocked' \in SUBSET Groups /\ blocked \subseteq blocked'
        /\ \A g \in Groups : out[p][g] = "blocked" => g \in blocked'
        /\ status' \in {"active", "banned", "reauth"}
        /\ status' = "active" =>
             status = "active" /\ \A g \in Groups : out[p][g] \notin {"banned", "reauth"}
        /\ waits' \in BOOLEAN /\ logged' = logged + n /\ n \in Nat
    BY <1>1, <1>2, Recorded
  <1>4. m = written[p] + n /\ written[p] \in Nat /\ m \in Nat
    BY <1>2, <1>3 DEF Mine, TypeOK
  <1> HIDE DEF n, m
  <1>5. /\ pc' \in [Procs -> Phases] /\ queue' \in [Procs -> SUBSET Groups]
        /\ cur' \in [Procs -> Groups \cup {NoGroup}] /\ out' \in [Procs -> [Groups -> Results]]
        /\ loaded' \in [Procs -> Nat] /\ written' \in [Procs -> Nat]
        /\ slow' \in [Procs -> Nat] /\ flood' \in [Procs -> Nat]
        /\ generic' \in [Procs -> Nat] /\ copies' \in [Procs -> Nat]
        /\ RetriesCounted' /\ RoundOrdered'
        /\ pc'[p] = "idle" /\ queue'[p] = {} /\ out'[p] = Nothing
        /\ loaded'[p] = 0 /\ written'[p] = 0
        /\ \A q \in Procs \ {p} :
             /\ pc'[q] = pc[q] /\ queue'[q] = queue[q] /\ cur'[q] = cur[q] /\ out'[q] = out[q]
             /\ loaded'[q] = loaded[q] /\ written'[q] = written[q]
    BY <1>1, OverTyped
  <1>6. /\ loaded[p] \in Nat /\ warm \in Nat /\ logged \in Nat /\ forgotten \in Nat
        /\ loaded[p] + written[p] <= logged /\ warm <= logged
    BY <1>2 DEF TypeOK, IInv, WarmUpLoaded, WarmUpCounted
  <1>7. warm' \in Nat /\ logged' \in Nat /\ warm' <= logged' /\ logged <= logged'
    BY <1>1, <1>3, <1>4, <1>6
  <1>8. /\ pool' \in [Procs -> BOOLEAN] /\ \A q \in Procs \ {p} : pool'[q] = pool[q]
        /\ pool'[p] => pool[p] /\ \A g \in Groups : out[p][g] \notin {"banned", "reauth"}
    <2>1. PICK saved \in BOOLEAN :
            pool' = [pool EXCEPT ![p] = @ /\ ~saved /\ ~Invalidates(p, Groups)]
      BY DEF WriteBack
    <2> DEFINE kept == pool[p] /\ ~saved /\ ~Invalidates(p, Groups)
    <2>2. pool \in [Procs -> BOOLEAN] /\ pool' = [pool EXCEPT ![p] = kept]
      BY <1>2, <2>1 DEF TypeOK
    <2>3. kept => pool[p] /\ \A g \in Groups : out[p][g] \notin {"banned", "reauth"}
      BY DEF Invalidates, Bars
    <2>4. kept \in BOOLEAN
      OBVIOUS
    <2> HIDE DEF kept
    <2> QED BY <2>2, <2>3, <2>4
  <1>9. TypeOK'
    BY <1>1, <1>2, <1>3, <1>5, <1>7, <1>8 DEF TypeOK
  <1>10. ~Working(p) /\ ~Working(p)'
    BY <1>1, <1>5 DEF Working
  <1>11. RefusalsLearnt' /\ RefusedOnce'
    <2>1. queue'[p] \subseteq queue[p] /\ UNCHANGED <<drops, tries>>
      BY <1>1, <1>5
    <2>2. Groups \in SUBSET Groups /\ \A g \in Groups \ Groups : out'[p][g] = out[p][g]
      OBVIOUS
    <2>3. \A q \in Procs \ {p} : /\ pc'[q] = pc[q] /\ queue'[q] = queue[q] /\ cur'[q] = cur[q]
                                 /\ out'[q] = out[q]
      BY <1>5
    <2> QED BY <1>3, <1>10, <2>1, <2>2, <2>3, RefusalsRecorded
  <1>12. BarLearnt' /\ BarredOnce'
    <2>1. Groups \in SUBSET Groups /\ \A g \in Groups \ Groups : out'[p][g] = out[p][g]
      OBVIOUS
    <2>2. \A q \in Procs \ {p} : pc'[q] = pc[q] /\ out'[q] = out[q] /\ pool'[q] = pool[q]
      BY <1>5, <1>8
    <2>3. UNCHANGED <<drops, vain>>
      BY <1>1
    <2> QED BY <1>3, <1>8, <1>10, <2>1, <2>2, <2>3, BarsRecorded
  <1>13. ~overlapped => /\ \A q \in Procs \ {p} : pc[q] = "idle"
                        /\ loaded[p] = warm /\ logged = warm + forgotten + written[p]
    BY <1>1 DEF IInv, WarmUpLoaded
  <1>14. WarmUpLoaded'
    <2>1. ASSUME NEW q \in Procs PROVE loaded'[q] + written'[q] <= logged'
      <3>1. loaded[q] + written[q] <= logged /\ loaded[q] \in Nat /\ written[q] \in Nat
        BY <1>2 DEF IInv, WarmUpLoaded, TypeOK
      <3> QED BY <1>5, <1>6, <1>7, <3>1
    <2>2. ~overlapped' => \A q \in Procs : pc'[q] = "idle"
      BY <1>1, <1>5, <1>13
    <2> QED BY <2>1, <2>2 DEF WarmUpLoaded
  <1>15. WarmUpCounted'
    <2>1. ~overlapped => logged' = warm' + forgotten'
      BY <1>1, <1>3, <1>4, <1>6, <1>13
    <2> QED BY <1>1, <1>7, <2>1 DEF WarmUpCounted
  <1> QED BY <1>5, <1>9, <1>11, <1>12, <1>14, <1>15 DEF IInv

LEMMA DroppedStep == ASSUME IInv, NEW p \in Procs, Dropped(p) PROVE IInv'
  <1>1. /\ pc[p] # "idle" /\ Over(p) /\ drops' = [drops EXCEPT ![p] = @ + 1]
        /\ \E kept \in {FALSE, pool[p]} : pool' = [pool EXCEPT ![p] = kept]
        /\ forgotten' = forgotten + written[p]
        /\ UNCHANGED <<status, waits, warm, invalid, blocked, barred, refusing, dead, begun,
                       logged, overlapped, tries, vain>>
    BY DEF Dropped, row, telegram
  <1>2. TypeOK
    BY DEF IInv
  <1>3. /\ pc' \in [Procs -> Phases] /\ queue' \in [Procs -> SUBSET Groups]
        /\ cur' \in [Procs -> Groups \cup {NoGroup}] /\ out' \in [Procs -> [Groups -> Results]]
        /\ loaded' \in [Procs -> Nat] /\ written' \in [Procs -> Nat]
        /\ slow' \in [Procs -> Nat] /\ flood' \in [Procs -> Nat]
        /\ generic' \in [Procs -> Nat] /\ copies' \in [Procs -> Nat]
        /\ RetriesCounted' /\ RoundOrdered'
        /\ pc'[p] = "idle" /\ queue'[p] = {} /\ out'[p] = Nothing
        /\ loaded'[p] = 0 /\ written'[p] = 0
        /\ \A q \in Procs \ {p} :
             /\ pc'[q] = pc[q] /\ queue'[q] = queue[q] /\ cur'[q] = cur[q] /\ out'[q] = out[q]
             /\ loaded'[q] = loaded[q] /\ written'[q] = written[q]
    BY <1>1, OverTyped
  <1>4. /\ drops' \in [Procs -> Nat] /\ drops[p] \in Nat /\ drops'[p] = drops[p] + 1
        /\ \A q \in Procs \ {p} : drops'[q] = drops[q]
    BY <1>1, <1>2 DEF TypeOK
  <1>5. pool' \in [Procs -> BOOLEAN] /\ \A q \in Procs \ {p} : pool'[q] = pool[q]
    <2>1. PICK kept \in {FALSE, pool[p]} : pool' = [pool EXCEPT ![p] = kept]
      BY <1>1
    <2>2. pool \in [Procs -> BOOLEAN] /\ kept \in BOOLEAN
      BY <1>2 DEF TypeOK
    <2> QED
      BY <2>1, <2>2
  <1>6. forgotten \in Nat /\ written[p] \in Nat /\ forgotten' \in Nat /\ warm \in Nat
    BY <1>1, <1>2 DEF TypeOK
  <1>7. TypeOK'
    <2>1. /\ status' \in {"active", "banned", "reauth"} /\ waits' \in BOOLEAN /\ warm' \in Nat
          /\ invalid' \subseteq Groups /\ blocked' \subseteq Groups
          /\ barred' \in {"no", "banned", "reauth"}
          /\ refusing' \subseteq Groups /\ dead' \subseteq Groups
          /\ begun' \in Nat /\ logged' \in Nat /\ overlapped' \in BOOLEAN
          /\ tries' \in [Procs -> [Groups -> Nat]] /\ vain' \in [Procs -> Nat]
      BY <1>1, <1>2 DEF TypeOK
    <2> QED
      BY <1>3, <1>4, <1>5, <1>6, <2>1 DEF TypeOK
  <1>8. /\ \A g \in Groups : tries[p][g] <= 1 + drops[p] /\ tries[p][g] \in Nat
        /\ vain[p] <= 1 + drops[p] /\ vain[p] \in Nat
    BY <1>2 DEF IInv, RefusedOnce, BarredOnce, TypeOK
  <1>9. (\A g \in Groups : tries'[p][g] <= drops'[p]) /\ vain'[p] <= drops'[p]
        /\ ~(vain'[p] > drops'[p])
    BY <1>1, <1>4, <1>8
  <1>10. RefusalsLearnt'
    <2> SUFFICES ASSUME NEW q \in Procs, NEW g \in Groups
                 PROVE  /\ g \in ToSend(q)' => tries'[q][g] <= drops'[q]
                        /\ g \notin blocked' /\ out'[q][g] # "blocked" => tries'[q][g] <= drops'[q]
      BY DEF RefusalsLearnt
    <2>1. CASE q = p
      BY <1>9, <2>1
    <2>2. CASE q # p
      <3>1. ToSend(q)' = ToSend(q)
        BY <1>3, <2>2 DEF ToSend
      <3> QED BY <1>1, <1>3, <1>4, <2>2, <3>1 DEF IInv, RefusalsLearnt
    <2> QED BY <2>1, <2>2
  <1>11. RefusedOnce' /\ BarredOnce'
    <2>1. \A q \in Procs \ {p} :
            /\ \A g \in Groups : tries'[q][g] <= 1 + drops'[q]
            /\ vain'[q] <= 1 + drops'[q]
      BY <1>1, <1>4 DEF IInv, RefusedOnce, BarredOnce
    <2>2. (\A g \in Groups : tries'[p][g] <= 1 + drops'[p]) /\ vain'[p] <= 1 + drops'[p]
      BY <1>1, <1>4, <1>8, <1>9
    <2> QED BY <2>1, <2>2 DEF RefusedOnce, BarredOnce
  <1>12. BarLearnt'
    <2>1. ASSUME NEW q \in Procs \ {p}
          PROVE  Working(q)' = Working(q) /\ Bars(q, Groups)' = Bars(q, Groups)
      BY <1>3 DEF Working, Bars
    <2>2. ASSUME NEW q \in Procs \ {p}
          PROVE  /\ Working(q)' => vain'[q] <= drops'[q] /\ Bars(q, Groups)' = {}
                 /\ vain'[q] > drops'[q] /\ Bars(q, Groups)' = {}
                      => status' # "active" /\ ~pool'[q]
      BY <1>1, <1>4, <1>5, <2>1 DEF IInv, BarLearnt
    <2>3. Bars(p, Groups)' = {}
      BY <1>3, BarsAre
    <2> QED BY <1>9, <2>2, <2>3 DEF BarLearnt
  <1>13. ~overlapped => /\ \A q \in Procs \ {p} : pc[q] = "idle"
                        /\ logged = warm + forgotten + written[p]
    BY <1>1 DEF IInv, WarmUpLoaded
  <1>14. WarmUpLoaded'
    <2>1. ASSUME NEW q \in Procs PROVE loaded'[q] + written'[q] <= logged'
      <3>1. loaded[q] + written[q] <= logged /\ loaded[q] \in Nat /\ written[q] \in Nat
            /\ logged \in Nat /\ logged' = logged
        BY <1>1, <1>2 DEF IInv, WarmUpLoaded, TypeOK
      <3> QED BY <1>3, <3>1
    <2>2. ~overlapped' => \A q \in Procs : pc'[q] = "idle"
      BY <1>1, <1>3, <1>13
    <2> QED BY <2>1, <2>2 DEF WarmUpLoaded
  <1>15. WarmUpCounted'
    <2>1. ~overlapped => logged' = warm' + forgotten'
      BY <1>1, <1>6, <1>13
    <2> QED BY <1>1, <2>1 DEF IInv, WarmUpCounted
  <1> QED BY <1>3, <1>7, <1>10, <1>11, <1>12, <1>14, <1>15 DEF IInv

LEMMA BeginStep == ASSUME IInv, NEW p \in Procs, Begin(p) PROVE IInv'
  <1>1. /\ pc[p] = "idle" /\ status = "active"
        /\ pc' = [pc EXCEPT ![p] = "connect"] /\ loaded' = [loaded EXCEPT ![p] = warm]
        /\ begun' = begun + 1
        /\ overlapped' = (overlapped \/ \E q \in Procs : pc[q] # "idle")
        /\ UNCHANGED <<status, waits, warm, invalid, blocked, barred, refusing, dead, cur, out,
                       written, slow, flood, generic, copies, pool, drops, logged, forgotten,
                       tries, vain>>
    BY DEF Begin, row, telegram, retries
  <1>2. PICK S \in Plans : queue' = [queue EXCEPT ![p] = S]
    BY DEF Begin
  <1>3. S \in SUBSET Groups /\ \A g \in S : g \notin blocked
    BY <1>2 DEF Plans
  <1>4. TypeOK
    BY DEF IInv
  <1>5. /\ pc' \in [Procs -> Phases] /\ pc'[p] = "connect"
        /\ queue' \in [Procs -> SUBSET Groups] /\ queue'[p] = S
        /\ loaded' \in [Procs -> Nat] /\ loaded'[p] = warm
        /\ \A q \in Procs \ {p} :
             pc'[q] = pc[q] /\ queue'[q] = queue[q] /\ loaded'[q] = loaded[q]
    BY <1>1, <1>2, <1>3, <1>4 DEF TypeOK, Phases
  <1>6. TypeOK'
    BY <1>1, <1>4, <1>5 DEF TypeOK
  <1>7. out[p] = Nothing /\ written[p] = 0 /\ Bars(p, Groups) = {}
    BY <1>1, BarsAre DEF IInv, RoundOrdered
  <1>8. RetriesCounted'
    BY <1>1, <1>5 DEF IInv, RetriesCounted
  <1>9. RoundOrdered'
    BY <1>1, <1>5, <1>7 DEF IInv, RoundOrdered
  <1>10. RefusalsLearnt'
    <2> SUFFICES ASSUME NEW q \in Procs, NEW g \in Groups
                 PROVE  /\ g \in ToSend(q)' => tries[q][g] <= drops[q]
                        /\ g \notin blocked /\ out[q][g] # "blocked" => tries[q][g] <= drops[q]
      BY <1>1 DEF RefusalsLearnt
    <2>1. /\ g \in ToSend(q) => tries[q][g] <= drops[q]
          /\ g \notin blocked /\ out[q][g] # "blocked" => tries[q][g] <= drops[q]
      BY DEF IInv, RefusalsLearnt
    <2>2. CASE q = p
      <3>1. ToSend(p)' = S
        BY <1>5 DEF ToSend
      <3>2. out[p][g] # "blocked"
        BY <1>7 DEF Nothing
      <3> QED BY <1>3, <2>1, <2>2, <3>1, <3>2
    <2>3. CASE q # p
      <3>1. ToSend(q)' = ToSend(q)
        BY <1>1, <1>5, <2>3 DEF ToSend
      <3> QED BY <2>1, <3>1
    <2> QED BY <2>2, <2>3
  <1>11. RefusedOnce' /\ BarredOnce'
    BY <1>1 DEF IInv, RefusedOnce, BarredOnce
  <1>12. BarLearnt'
    <2>0. vain[p] \in Nat /\ drops[p] \in Nat
      BY <1>4 DEF TypeOK
    <2>1. vain[p] <= drops[p] /\ ~(vain[p] > drops[p])
      BY <1>1, <1>7, <2>0 DEF IInv, BarLearnt
    <2>2. \A q \in Procs \ {p} : Working(q)' = Working(q)
      BY <1>5 DEF Working
    <2>3. \A q \in Procs : Bars(q, Groups)' = Bars(q, Groups)
      BY <1>1 DEF Bars
    <2> QED BY <1>1, <1>7, <2>1, <2>2, <2>3 DEF IInv, BarLearnt
  <1>13. warm <= logged /\ warm \in Nat /\ logged \in Nat
    BY <1>4 DEF IInv, WarmUpCounted, TypeOK
  <1>14. ~overlapped' => /\ \A q \in Procs : pc[q] = "idle"
                         /\ logged = warm + forgotten
    BY <1>1 DEF IInv, WarmUpCounted
  <1>15. WarmUpLoaded'
    <2>1. \A q \in Procs : loaded'[q] + written'[q] <= logged'
      BY <1>1, <1>5, <1>7, <1>13 DEF IInv, WarmUpLoaded
    <2>2. ~overlapped' => \A q \in Procs \ {p} : pc'[q] = "idle"
      BY <1>5, <1>14
    <2>3. ~overlapped' => loaded'[p] = warm' /\ logged' = warm' + forgotten' + written'[p]
      BY <1>1, <1>4, <1>5, <1>7, <1>13, <1>14 DEF TypeOK
    <2> QED BY <2>1, <2>2, <2>3 DEF WarmUpLoaded
  <1>16. WarmUpCounted'
    BY <1>1, <1>14 DEF IInv, WarmUpCounted
  <1> QED BY <1>6, <1>8, <1>9, <1>10, <1>11, <1>12, <1>15, <1>16 DEF IInv

\* Telegram, time, and no step at all.
LEMMA TelegramStep ==
  ASSUME IInv, TypeOK',
         UNCHANGED <<status, warm, invalid, blocked, round, retries, pool, drops, history>>
  PROVE  IInv'
  <1> USE DEF IInv, round, retries, history
  <1>1. RetriesCounted' /\ RoundOrdered'
    BY DEF RetriesCounted, RoundOrdered
  <1>2. RefusalsLearnt' /\ RefusedOnce'
    BY DEF RefusalsLearnt, RefusedOnce, ToSend
  <1>3. BarLearnt' /\ BarredOnce'
    BY DEF BarLearnt, BarredOnce, Working, Bars
  <1>4. WarmUpLoaded' /\ WarmUpCounted'
    BY DEF WarmUpLoaded, WarmUpCounted
  <1> QED BY <1>1, <1>2, <1>3, <1>4

LEMMA StepInvariant == IInv /\ [Next]_vars => IInv'
  <1> SUFFICES ASSUME IInv, [Next]_vars PROVE IInv'
    OBVIOUS
  <1>1. TypeOK
    BY DEF IInv
  <1>2. ASSUME NEW p \in Procs, RoundStep(p) PROVE IInv'
    BY <1>2, ConnectStep, BuildFailsStep, UnauthorizedStep, TakeStep, WorkerEndsStep, SendStep,
       WriteBatchStep, WriteBackStep DEF RoundStep
  <1>3. ASSUME NEW p \in Procs, Begin(p) \/ Dropped(p) PROVE IInv'
    BY <1>3, BeginStep, DroppedStep
  <1>4. CASE Bar \/ FloodEnds \/ (\E g \in Fickle : Refuse(g) \/ Die(g)) \/ UNCHANGED vars
    <2>1. UNCHANGED <<status, warm, invalid, blocked, round, retries, pool, begun, drops,
                      history>>
      BY <1>4 DEF Bar, FloodEnds, Refuse, Die, vars, row
    <2>2. /\ waits' \in BOOLEAN /\ barred' \in {"no", "banned", "reauth"}
          /\ refusing' \subseteq Groups /\ dead' \subseteq Groups
      BY <1>1, <1>4 DEF Bar, FloodEnds, Refuse, Die, vars, row, telegram, TypeOK
    <2>3. TypeOK'
      BY <1>1, <2>1, <2>2 DEF TypeOK, round, retries, history
    <2> QED BY <2>1, <2>3, TelegramStep
  <1> QED BY <1>2, <1>3, <1>4 DEF Next

\* However rounds of an account overlap, fail or are lost, what was tried is
\* still to be written, or kept out of every later plan.
THEOREM DeliveryInvariant == Spec => []IInv
  BY InitInvariant, StepInvariant, PTL DEF Spec

\* One send delivers a message at most once more than it is tried again
\* (telegram_helpers.py:285-290).
THEOREM CopiesAreBounded == Spec => []CopiesBounded
  <1>1. IInv => CopiesBounded
    BY DEF IInv, RetriesCounted, CopiesBounded
  <1> QED BY <1>1, DeliveryInvariant, PTL

\* A process tries a group that refuses the account once, but for rounds whose
\* outcomes were lost (sender.py:464-478).
THEOREM RefusalsAreHeeded == Spec => []RefusedOnce
  <1>1. IInv => RefusedOnce
    BY DEF IInv
  <1> QED BY <1>1, DeliveryInvariant, PTL

\* A process notices once that the account is banned or logged out, but for
\* rounds whose outcomes were lost (sender.py:438-463).
THEOREM BansAreHeeded == Spec => []BarredOnce
  <1>1. IInv => BarredOnce
    BY DEF IInv
  <1> QED BY <1>1, DeliveryInvariant, PTL

\* The warm-up counter never runs ahead of the messages logged.  What it lacks
\* while no rounds of the account have overlapped are the batches of rounds that
\* were lost (sender.py:46-60, 687-689, 761).
THEOREM WarmUpIsCounted == Spec => []WarmUpCounted
  <1>1. IInv => WarmUpCounted
    BY DEF IInv
  <1> QED BY <1>1, DeliveryInvariant, PTL

\* The client of a barred account is gone with the round that found it out, but
\* for rounds whose outcomes were lost (sender.py:508-518, 690-714).
THEOREM BarredClientsGo == Spec => []BarredClientGone
  <1>1. IInv => BarredClientGone
    BY BarsAre DEF IInv, BarLearnt, RoundOrdered, BarredClientGone
  <1> QED BY <1>1, DeliveryInvariant, PTL

-----------------------------------------------------------------------------
(* The end of a round *)

\* The groups that are left, and the steps that they may take.
LEMMA Products == ASSUME NEW m \in Nat, NEW n \in Nat
                  PROVE  m * n \in Nat /\ (m - 1) * n = m * n - n
  OBVIOUS

\* A product with a number that is not zero
LEMMA AtLeastOnce == ASSUME NEW m \in Nat, NEW n \in Nat, 1 <= n
                     PROVE  m <= m * n
  OBVIOUS

\* What a phase leaves, with natural numbers.
LEMMA StepsAre ==
  ASSUME NEW m \in Nat, NEW r \in Nat, NEW t \in Nat
  PROVE  /\ StepsFrom("connect", m, r, t) = 3 + m + t /\ StepsFrom("take", m, r, t) = 2 + m + t
         /\ StepsFrom("send", m, r, t) = 4 + m + r + t /\ StepsFrom("back", m, r, t) = 1 + t
         /\ StepsFrom("idle", m, r, t) = 0
  BY DEF StepsFrom

\* What a round has left are natural numbers.
LEMMA LeftIsNat ==
  ASSUME IInv, NEW p \in Procs
  PROVE  /\ Cardinality(queue[p]) \in Nat /\ PerGroup \in Nat
         /\ Cardinality(queue[p]) * PerGroup \in Nat /\ RetriesLeft(p) \in Nat
  <1>1. queue[p] \in SUBSET Groups
    BY DEF IInv, TypeOK
  <1>2. Cardinality(queue[p]) \in Nat
    BY <1>1, FS_Subset, FS_CardinalityType
  <1>3. SlowRetries \in Nat /\ FloodRetries \in Nat /\ GenericRetries \in Nat
    OBVIOUS
  <1>4. PerGroup \in Nat
    BY <1>3 DEF PerGroup
  <1>5. /\ slow[p] \in Nat /\ flood[p] \in Nat /\ generic[p] \in Nat
        /\ slow[p] <= SlowRetries /\ flood[p] <= FloodRetries /\ generic[p] <= GenericRetries
    BY DEF IInv, TypeOK, RetriesCounted
  <1>6. RetriesLeft(p) \in Nat
    BY <1>3, <1>5 DEF RetriesLeft
  <1> QED BY <1>2, <1>4, <1>6, Products

\* Steps of other processes, of Telegram and of time.
LEMMA OthersKeepRound ==
  ASSUME IInv, NEW p \in Procs, NEW q \in Procs \ {p},
         Begin(q) \/ RoundStep(q) \/ Dropped(q)
  PROVE  Round(p)' = Round(p)
  <1>1. TypeOK
    BY DEF IInv
  <1> USE <1>1 DEF TypeOK, Round, retries, Over, Fresh, Returns
  <1>2. CASE Begin(q)
    BY <1>2 DEF Begin
  <1>3. CASE Dropped(q)
    BY <1>3 DEF Dropped
  <1>4. CASE WriteBack(q) \/ WriteBatch(q)
    BY <1>4 DEF WriteBack, WriteBatch
  <1>5. CASE Connect(q)
    BY <1>5 DEF Connect
  <1>6. CASE BuildFails(q)
    BY <1>6 DEF BuildFails, FailAll
  <1>7. CASE Unauthorized(q)
    BY <1>7 DEF Unauthorized, FailAll
  <1>8. CASE Take(q)
    BY <1>8 DEF Take
  <1>9. CASE WorkerEnds(q)
    BY <1>9 DEF WorkerEnds
  <1>10. CASE Send(q)
    <2> USE DEF Sending, Outcome, Stays, GenericError
    <2>1. CASE Delivers(q) \/ AnswerLost(q)
      BY <2>1 DEF Delivers, AnswerLost
    <2>2. CASE SendError(q) \/ LookupFails(q)
      BY <2>2 DEF SendError, LookupFails
    <2>3. CASE SlowMode(q) \/ FloodWait(q)
      BY <2>3 DEF SlowMode, FloodWait
    <2>4. CASE Refused(q) \/ RefusedByText(q) \/ AccountBarred(q)
      BY <2>4 DEF Refused, RefusedByText, AccountBarred
    <2> QED BY <1>10, <2>1, <2>2, <2>3, <2>4 DEF Send
  <1> QED BY <1>2, <1>3, <1>4, <1>5, <1>6, <1>7, <1>8, <1>9, <1>10, Zenon DEF RoundStep

\* Fewer retries are left after one of them.
LEMMA RetryTaken ==
  ASSUME IInv, NEW p \in Procs,
         \/ UNCHANGED <<flood, generic>> /\ slow' = [slow EXCEPT ![p] = @ + 1]
            /\ slow[p] < SlowRetries
         \/ UNCHANGED <<slow, generic>> /\ flood' = [flood EXCEPT ![p] = @ + 1]
            /\ flood[p] < FloodRetries
         \/ UNCHANGED <<slow, flood>> /\ generic' = [generic EXCEPT ![p] = @ + 1]
            /\ generic[p] < GenericRetries
  PROVE  RetriesLeft(p)' \in Nat /\ RetriesLeft(p)' < RetriesLeft(p)
  <1>1. /\ SlowRetries \in Nat /\ FloodRetries \in Nat /\ GenericRetries \in Nat
        /\ slow[p] \in Nat /\ flood[p] \in Nat /\ generic[p] \in Nat
        /\ slow[p] <= SlowRetries /\ flood[p] <= FloodRetries /\ generic[p] <= GenericRetries
    BY DEF IInv, TypeOK, RetriesCounted
  <1>2. \/ slow'[p] = slow[p] + 1 /\ slow[p] < SlowRetries
           /\ flood'[p] = flood[p] /\ generic'[p] = generic[p]
        \/ flood'[p] = flood[p] + 1 /\ flood[p] < FloodRetries
           /\ slow'[p] = slow[p] /\ generic'[p] = generic[p]
        \/ generic'[p] = generic[p] + 1 /\ generic[p] < GenericRetries
           /\ slow'[p] = slow[p] /\ flood'[p] = flood[p]
    BY DEF IInv, TypeOK
  <1> QED BY <1>1, <1>2 DEF RetriesLeft

\* A try ends the send, uses up one of its retries, or changes nothing.
LEMMA TryEnds ==
  ASSUME IInv, NEW p \in Procs, Send(p), Round(p)' # Round(p)
  PROVE  /\ pc[p] = "send" /\ queue'[p] = queue[p]
         /\ Tried(p)' \subseteq Tried(p) \cup {cur[p]}
         /\ \/ pc'[p] \in {"take", "back"}
            \/ /\ pc'[p] = "send" /\ out' = out
               /\ RetriesLeft(p)' \in Nat /\ RetriesLeft(p)' < RetriesLeft(p)
  <1>1. /\ pc \in [Procs -> Phases] /\ out \in [Procs -> [Groups -> Results]]
        /\ slow[p] \in Nat /\ flood[p] \in Nat /\ generic[p] \in Nat
    BY DEF IInv, TypeOK
  <1>2. pc[p] = "send" /\ queue' = queue
    BY DEF Send, Delivers, AnswerLost, SendError, LookupFails, SlowMode, FloodWait, Refused,
           RefusedByText, AccountBarred, Sending
  <1> DEFINE Ended == /\ pc'[p] \in {"take", "back"}
                      /\ Tried(p)' \subseteq Tried(p) \cup {cur[p]}
             Again == /\ pc' = pc /\ out' = out
                      /\ RetriesLeft(p)' \in Nat /\ RetriesLeft(p)' < RetriesLeft(p)
  <1>3. ASSUME NEW r, NEW next \in {"take", "back"}, Outcome(p, r, next)
        PROVE  Ended
    BY <1>1, <1>3 DEF Outcome, Tried
  <1>4. ASSUME NEW r, GenericError(p, r)
        PROVE  Ended \/ Again
    <2>1. CASE generic[p] >= GenericRetries
      BY <1>3, <1>4, <2>1 DEF GenericError
    <2>2. CASE generic[p] < GenericRetries
      <3>1. UNCHANGED <<out, pc, slow, flood>> /\ generic' = [generic EXCEPT ![p] = @ + 1]
        BY <1>1, <1>4, <2>2 DEF GenericError, Stays
      <3> QED BY <1>4, <2>2, <3>1, RetryTaken
    <2>3. GenericRetries \in Nat
      OBVIOUS
    <2> QED BY <1>1, <2>1, <2>2, <2>3
  <1>5. Again => Tried(p)' \subseteq Tried(p)
    BY DEF Tried
  <1>6. SUFFICES Ended \/ Again
    BY <1>2, <1>5
  <1> HIDE DEF Ended, Again
  <1>7. CASE Delivers(p)
    BY <1>3, <1>7 DEF Delivers
  <1>8. CASE AnswerLost(p)
    BY <1>4, <1>8 DEF AnswerLost
  <1>9. CASE SendError(p)
    BY <1>4, <1>9 DEF SendError
  <1>10. CASE LookupFails(p)
    BY <1>3, <1>10 DEF LookupFails
  <1>11. CASE SlowMode(p)
    <2>1. CASE Outcome(p, "fail", "take")
      BY <1>3, <2>1
    <2>2. CASE UNCHANGED <<out, pc, flood, generic>> /\ slow' = [slow EXCEPT ![p] = @ + 1]
               /\ slow[p] < SlowRetries
      BY <2>2, RetryTaken DEF Again
    <2>3. SlowRetries \in Nat
      OBVIOUS
    <2> QED BY <1>1, <1>11, <2>1, <2>2, <2>3 DEF SlowMode, Stays
  <1>12. CASE FloodWait(p)
    <2>1. CASE Outcome(p, "flood", "back")
      BY <1>3, <2>1
    <2>2. CASE UNCHANGED <<out, pc, slow, generic>> /\ flood' = [flood EXCEPT ![p] = @ + 1]
               /\ flood[p] < FloodRetries
      BY <2>2, RetryTaken DEF Again
    <2> QED BY <1>12, <2>1, <2>2 DEF FloodWait, Stays
  <1>13. CASE Refused(p)
    BY <1>3, <1>13 DEF Refused
  <1>14. CASE RefusedByText(p)
    <2>1. CASE Outcome(p, "blocked", "take")
      BY <1>3, <2>1
    <2>2. CASE UNCHANGED <<out, pc, slow, flood>> /\ generic' = [generic EXCEPT ![p] = @ + 1]
               /\ generic[p] < GenericRetries
      BY <2>2, RetryTaken DEF Again
    <2> QED BY <1>14, <2>1, <2>2 DEF RefusedByText, Stays
  <1>15. CASE AccountBarred(p)
    BY <1>3, <1>15 DEF AccountBarred
  <1> QED BY <1>7, <1>8, <1>9, <1>10, <1>11, <1>12, <1>13, <1>14, <1>15 DEF Send

\* How many outcomes a process may have to write.
LEMMA TriedAre ==
  ASSUME IInv, IInv', NEW p \in Procs
  PROVE  /\ IsFiniteSet(Tried(p)) /\ Cardinality(Tried(p)) \in Nat
         /\ IsFiniteSet(Tried(p)') /\ Cardinality(Tried(p)') \in Nat
         /\ \A T \in SUBSET Groups :
              Tried(p)' \subseteq Tried(p) \cup T =>
                Cardinality(Tried(p)') <= Cardinality(Tried(p)) + Cardinality(T)
  <1>1. Tried(p) \in SUBSET Groups /\ Tried(p)' \in SUBSET Groups
    BY DEF Tried
  <1>2. IsFiniteSet(Tried(p)) /\ IsFiniteSet(Tried(p)')
    BY <1>1, FS_Subset
  <1>3. Cardinality(Tried(p)) \in Nat /\ Cardinality(Tried(p)') \in Nat
    BY <1>2, FS_CardinalityType
  <1>4. ASSUME NEW T \in SUBSET Groups, Tried(p)' \subseteq Tried(p) \cup T
        PROVE  Cardinality(Tried(p)') <= Cardinality(Tried(p)) + Cardinality(T)
    <2>1. IsFiniteSet(T)
      BY FS_Subset
    <2>2. /\ IsFiniteSet(Tried(p) \cup T) /\ Cardinality(T) \in Nat
          /\ Cardinality(Tried(p) \cup T)
               = Cardinality(Tried(p)) + Cardinality(T) - Cardinality(Tried(p) \cap T)
      BY <1>2, <2>1, FS_Union, FS_CardinalityType
    <2>3. Cardinality(Tried(p)') <= Cardinality(Tried(p) \cup T)
      BY <1>4, <2>2, FS_Subset
    <2>4. IsFiniteSet(Tried(p) \cap T)
      BY <1>2, FS_Intersection
    <2>5. Cardinality(Tried(p) \cap T) \in Nat
      BY <2>4, FS_CardinalityType
    <2> QED BY <1>3, <2>2, <2>3, <2>5
  <1> QED BY <1>2, <1>3, <1>4

LEMMA OwnStep ==
  ASSUME IInv, IInv', NEW p \in Procs, RoundStep(p) \/ Dropped(p), pc[p] # "idle",
         Round(p)' # Round(p)
  PROVE  StepsLeft(p)' < StepsLeft(p) /\ StepsLeft(p)' >= 0
  <1> DEFINE n == Cardinality(queue[p])
             m == n * PerGroup
             r == RetriesLeft(p)
             t == Cardinality(Tried(p))
             m1 == Cardinality(queue'[p]) * PerGroup
             r1 == RetriesLeft(p)'
             t1 == Cardinality(Tried(p))'
  <1>1. /\ n \in Nat /\ PerGroup \in Nat /\ m \in Nat /\ r \in Nat
        /\ t \in Nat /\ t1 \in Nat
    BY LeftIsNat, TriedAre
  <1>2. StepsLeft(p) = StepsFrom(pc[p], m, r, t) /\ StepsLeft(p)' = StepsFrom(pc'[p], m1, r1, t1)
    BY DEF StepsLeft, PerGroup
  <1>3. /\ StepsFrom("connect", m, r, t) = 3 + m + t /\ StepsFrom("take", m, r, t) = 2 + m + t
        /\ StepsFrom("send", m, r, t) = 4 + m + r + t /\ StepsFrom("back", m, r, t) = 1 + t
    BY DEF StepsFrom
  <1>4. /\ \A x, y : StepsFrom("idle", x, y, t1) = 0 /\ StepsFrom("back", x, y, t1) = 1 + t1
        /\ \A y : StepsFrom("take", m, y, t1) = 2 + m + t1
    BY DEF StepsFrom
  <1>5. /\ pc \in [Procs -> Phases] /\ queue \in [Procs -> SUBSET Groups]
        /\ out \in [Procs -> [Groups -> Results]]
    BY DEF IInv, TypeOK
  <1>6. \A T \in SUBSET Groups : Tried(p)' \subseteq Tried(p) \cup T => t1 <= t + Cardinality(T)
    BY TriedAre
  <1>7. out' = out => t1 = t
    BY DEF Tried
  <1>8. n <= m
    <2>1. 1 <= PerGroup
      BY DEF PerGroup
    <2> QED BY <1>1, <2>1, AtLeastOnce DEF m
  <1> HIDE DEF n, r, m, m1, r1, t, t1
  <1>9. CASE Dropped(p) \/ WriteBack(p)
    <2>1. pc'[p] = "idle"
      BY <1>5, <1>9 DEF Dropped, WriteBack, Over
    <2>2. StepsFrom(pc[p], m, r, t) > 0
      BY <1>1, <1>3, <1>5 DEF Phases
    <2> QED BY <1>2, <1>4, <2>1, <2>2
  <1>10. CASE BuildFails(p) \/ Unauthorized(p)
    <2>1. pc'[p] = "back" /\ pc[p] = "connect"
      BY <1>5, <1>10 DEF BuildFails, Unauthorized
    <2>2. PICK result : FailAll(p, result)
      BY <1>10 DEF BuildFails, Unauthorized
    <2>3. queue[p] \in SUBSET Groups /\ Tried(p)' \subseteq Tried(p) \cup queue[p]
      BY <1>5, <2>2 DEF FailAll, Tried
    <2>4. t1 <= t + n
      BY <1>6, <2>3 DEF n
    <2> QED BY <1>1, <1>2, <1>3, <1>4, <1>8, <2>1, <2>4
  <1>11. CASE WorkerEnds(p)
    <2>1. pc'[p] = "back" /\ pc[p] = "take" /\ t1 = t
      BY <1>5, <1>7, <1>11 DEF WorkerEnds
    <2> QED BY <1>1, <1>2, <1>3, <1>4, <2>1
  <1>12. CASE Connect(p)
    <2>1. pc[p] = "connect" /\ pc'[p] = "take" /\ queue' = queue /\ t1 = t
      BY <1>5, <1>7, <1>12 DEF Connect
    <2>2. m1 = m
      BY <2>1 DEF m1, m, n
    <2> QED BY <1>1, <1>2, <1>3, <1>4, <2>1, <2>2
  <1>13. CASE Take(p)
    <2>1. PICK g \in queue[p] : queue' = [queue EXCEPT ![p] = @ \ {g}]
      BY <1>13 DEF Take
    <2>2. queue'[p] = queue[p] \ {g} /\ queue[p] \in SUBSET Groups
      BY <1>5, <2>1
    <2>3. IsFiniteSet(queue[p])
      BY <2>2, FS_Subset
    <2>4. Cardinality(queue'[p]) = n - 1
      <3>1. Cardinality(queue[p] \ {g}) = Cardinality(queue[p]) - 1
        BY <2>1, <2>3, FS_RemoveElement
      <3> QED BY <2>2, <3>1 DEF n
    <2>5. m1 = m - PerGroup
      BY <1>1, <2>4, Products DEF m, m1
    <2>6. IsFiniteSet(queue[p] \ {g})
      BY <2>3, FS_RemoveElement
    <2>7. m1 \in Nat
      <3>1. Cardinality(queue'[p]) \in Nat
        BY <2>2, <2>6, FS_CardinalityType
      <3> QED BY <1>1, <3>1, Products DEF m1
    <2>8. slow'[p] = 0 /\ flood'[p] = 0 /\ generic'[p] = 0
      BY <1>13 DEF Take, Fresh, Returns, IInv, TypeOK
    <2>9. r1 = PerGroup - 3 /\ r1 \in Nat
      <3>1. SlowRetries \in Nat /\ FloodRetries \in Nat /\ GenericRetries \in Nat
        OBVIOUS
      <3> QED BY <2>8, <3>1 DEF r1, RetriesLeft, PerGroup
    <2>10. pc[p] = "take" /\ pc'[p] = "send" /\ t1 = t
      BY <1>5, <1>7, <1>13 DEF Take
    <2>11. StepsFrom("send", m1, r1, t1) = 4 + m1 + r1 + t1
      BY <1>1, <2>7, <2>9, StepsAre
    <2> QED BY <1>1, <1>2, <1>3, <2>5, <2>7, <2>9, <2>10, <2>11
  <1>14. CASE Send(p)
    <2>1. /\ pc[p] = "send" /\ queue'[p] = queue[p]
          /\ \/ pc'[p] \in {"take", "back"}
             \/ pc'[p] = "send" /\ out' = out /\ r1 \in Nat /\ r1 < r
          /\ Tried(p)' \subseteq Tried(p) \cup {cur[p]}
      BY <1>14, TryEnds DEF r, r1
    <2>2. m1 = m
      BY <2>1 DEF m, m1, n
    <2>3. CASE pc'[p] \in {"take", "back"}
      <3>1. {cur[p]} \in SUBSET Groups /\ Cardinality({cur[p]}) = 1
        BY <2>1, FS_Singleton DEF IInv, RoundOrdered
      <3>2. t1 <= t + 1
        BY <1>6, <2>1, <3>1
      <3> QED BY <1>1, <1>2, <1>3, <1>4, <2>1, <2>2, <2>3, <3>2
    <2>4. CASE pc'[p] = "send" /\ out' = out /\ r1 \in Nat /\ r1 < r
      <3>1. StepsFrom("send", m, r1, t) = 4 + m + r1 + t
        BY DEF StepsFrom
      <3> QED BY <1>1, <1>2, <1>3, <1>7, <2>1, <2>2, <2>4, <3>1
    <2> QED BY <2>1, <2>3, <2>4
  <1>15. CASE WriteBatch(p)
    <2>1. pc[p] = "back" /\ pc'[p] = "back"
      BY <1>15 DEF WriteBatch
    <2>2. PICK S \in SUBSET Tried(p) :
            /\ S # {}
            /\ out' = [out EXCEPT ![p] = [g \in Groups |-> IF g \in S THEN "none" ELSE @[g]]]
      BY <1>15 DEF WriteBatch
    <2>3. PICK g \in S : g \in Tried(p)
      BY <2>2
    <2>4. Tried(p)' \subseteq Tried(p) \ {g}
      BY <1>5, <2>2, <2>3 DEF Tried
    <2>5. IsFiniteSet(Tried(p) \ {g}) /\ Cardinality(Tried(p) \ {g}) = t - 1
      BY <2>3, TriedAre, FS_RemoveElement DEF t
    <2>6. t1 <= t - 1
      BY <2>4, <2>5, FS_Subset DEF t1
    <2> QED BY <1>1, <1>2, <1>3, <1>4, <2>1, <2>6
  <1> QED BY <1>9, <1>10, <1>11, <1>12, <1>13, <1>14, <1>15 DEF RoundStep

\* Every round that is begun comes to its end, whatever fails: each of its
\* steps leaves fewer (telegram_helpers.py:231-290, sender.py:327-506).
THEOREM RoundsEnd == Spec => RoundNearsEnd
  <1>1. ASSUME IInv, [Next]_vars, NEW p \in Procs, pc[p] # "idle", Round(p)' # Round(p)
        PROVE  StepsLeft(p)' < StepsLeft(p) /\ StepsLeft(p)' >= 0
    <2>1. CASE \E q \in Procs : Begin(q) \/ RoundStep(q) \/ Dropped(q)
      <3>1. PICK q \in Procs : Begin(q) \/ RoundStep(q) \/ Dropped(q)
        BY <2>1
      <3>2. q = p
        BY <1>1, <3>1, OthersKeepRound
      <3>3. ~Begin(p)
        BY <1>1 DEF Begin
      <3> QED BY <1>1, <3>1, <3>2, <3>3, OwnStep, StepInvariant
    <2>2. CASE Bar \/ FloodEnds \/ (\E g \in Fickle : Refuse(g) \/ Die(g)) \/ UNCHANGED vars
      <3>1. UNCHANGED <<round, retries>>
        BY <2>2 DEF Bar, FloodEnds, Refuse, Die, vars
      <3> QED BY <1>1, <3>1 DEF Round, round, retries
    <2> QED BY <1>1, <2>1, <2>2 DEF Next
  <1>2. IInv /\ [Next]_vars =>
          \A p \in Procs : pc[p] # "idle" /\ Round(p)' # Round(p) =>
            StepsLeft(p)' < StepsLeft(p) /\ StepsLeft(p)' >= 0
    BY <1>1
  <1> QED BY <1>2, DeliveryInvariant, PTL DEF Spec, RoundNearsEnd

-----------------------------------------------------------------------------
(* The rounds are send loops *)

\* The loops of the others stay when their rounds do.
LEMMA OneLoopChanges ==
  ASSUME NEW p \in Procs, \A q \in Procs \ {p} : LoopOf(q)' = LoopOf(q),
         NEW l, LoopOf(p)' = l
  PROVE  Sends!Becomes(p, l)
BY DEF Sends!Becomes

LEMMA SameLoops ==
  ASSUME \A p \in Procs : LoopOf(p)' = LoopOf(p)
  PROVE  UNCHANGED [p \in Procs |-> LoopOf(p)]
OBVIOUS

\* A step of one process leaves the rounds of the others alone.
LEMMA OthersRounds ==
  ASSUME TypeOK, NEW p \in Procs, Begin(p) \/ RoundStep(p) \/ Dropped(p), NEW q \in Procs, q # p
  PROVE  LoopOf(q)' = LoopOf(q)
<1>1. /\ pc'[q] = pc[q] /\ queue'[q] = queue[q] /\ cur'[q] = cur[q] /\ out'[q] = out[q]
  <2> USE DEF TypeOK
  <2>1. CASE Begin(p)
    BY <2>1 DEF Begin
  <2>2. CASE Connect(p) \/ Take(p) \/ WorkerEnds(p)
    BY <2>2 DEF Connect, Take, WorkerEnds
  <2>3. CASE BuildFails(p) \/ Unauthorized(p)
    BY <2>3 DEF BuildFails, Unauthorized, FailAll
  <2>4. CASE Send(p)
    BY <2>4 DEF Send, Delivers, AnswerLost, SendError, LookupFails, SlowMode, FloodWait, Refused,
                RefusedByText, AccountBarred, Sending, GenericError, Outcome, Stays
  <2>5. CASE WriteBatch(p) \/ WriteBack(p) \/ Dropped(p)
    BY <2>5 DEF WriteBatch, WriteBack, Dropped, Over
  <2> QED
    BY <2>1, <2>2, <2>3, <2>4, <2>5 DEF RoundStep
<1> QED
  BY <1>1 DEF LoopOf, Tried, Working

\* A try that is repeated changes nothing in the loop; one that ends it is an
\* outcome.
LEMMA SendIsOutcome ==
  ASSUME IInv, NEW p \in Procs, Send(p)
  PROVE  Sends!Outcome(p) \/ LoopOf(p)' = LoopOf(p)
<1> USE DEF Results
<1>1. /\ pc[p] = "send" /\ cur[p] \in Groups /\ cur[p] \notin queue[p]
      /\ pc \in [Procs -> Phases] /\ out \in [Procs -> [Groups -> Results]]
      /\ queue' = queue /\ cur' = cur
  BY DEF Send, Delivers, AnswerLost, SendError, LookupFails, SlowMode, FloodWait, Refused,
         RefusedByText, AccountBarred, Sending, IInv, TypeOK, RoundOrdered
<1>2. \/ pc' = pc /\ out' = out
      \/ \E result \in Results \ {"none"}, next \in {"take", "back"} : Outcome(p, result, next)
  <2>1. barred # "no" => barred \in Results \ {"none"}
    BY DEF IInv, TypeOK
  <2>2. CASE AccountBarred(p)
    BY <2>1, <2>2 DEF AccountBarred
  <2>3. CASE Delivers(p)
    <3>1. (IF flood[p] > 0 THEN "flooded" ELSE "success") \in Results \ {"none"}
      OBVIOUS
    <3> QED BY <2>3, <3>1 DEF Delivers
  <2> QED
    BY <2>2, <2>3 DEF Send, AnswerLost, SendError, LookupFails, SlowMode, FloodWait, Refused,
                      RefusedByText, GenericError, Stays
<1>3. CASE pc' = pc /\ out' = out
  BY <1>1, <1>3 DEF LoopOf, Tried, Working
<1>4. CASE \E result \in Results \ {"none"}, next \in {"take", "back"} : Outcome(p, result, next)
  <2>1. PICK result \in Results \ {"none"}, next \in {"take", "back"} : Outcome(p, result, next)
    BY <1>4
  <2>2. /\ pc'[p] = next
        /\ \A g \in Groups : out'[p][g] = IF g = cur[p] THEN result ELSE out[p][g]
    BY <1>1, <2>1 DEF Outcome
  <2> DEFINE tried == LoopOf(p).done \cup LoopOf(p).cur
             rest == IF next = "take" THEN queue[p] ELSE {}
  <2>3. LoopOf(p).open /\ LoopOf(p).cur = {cur[p]} /\ LoopOf(p).todo = queue[p]
    BY <1>1 DEF LoopOf, Working
  <2>4. {g \in Groups : out'[p][g] # "none"} = tried
    BY <1>1, <2>2 DEF LoopOf, Tried
  <2>5. LoopOf(p)' = Sends!Open(rest, {}, tried)
    <3>1. /\ (pc[p] # "idle")' = TRUE /\ (IF Working(p) THEN queue[p] ELSE {})' = rest
          /\ (IF pc[p] = "send" THEN {cur[p]} ELSE {})' = {}
      BY <1>1, <2>2 DEF Working
    <3> QED
      BY <2>4, <3>1 DEF LoopOf, Tried, Sends!Open
  <2>6. \A q \in Procs \ {p} : LoopOf(q)' = LoopOf(q)
    BY OthersRounds DEF RoundStep, IInv
  <2>7. Sends!Becomes(p, Sends!Open(rest, {}, tried))
    BY <2>5, <2>6, OneLoopChanges
  <2> HIDE DEF tried, rest
  <2> QED
    BY <2>3, <2>7 DEF Sends!Outcome, rest, tried
<1> QED
  BY <1>2, <1>3, <1>4

\* Up to the first group: the plan, and what becomes of it without a client.
LEMMA StartIsPlanned ==
  ASSUME IInv, NEW p \in Procs
  PROVE  /\ Begin(p) => Sends!Plan(p)
         /\ Connect(p) => LoopOf(p)' = LoopOf(p)
         /\ BuildFails(p) \/ Unauthorized(p) => Sends!FailRest(p)
<1> USE DEF IInv, TypeOK
<1>1. ASSUME Begin(p) PROVE Sends!Plan(p)
  <2>1. PICK S \in SUBSET Groups : queue' = [queue EXCEPT ![p] = S]
    BY <1>1 DEF Begin, Plans
  <2>2. pc[p] = "idle" /\ out[p] = Nothing /\ pc' = [pc EXCEPT ![p] = "connect"] /\ out' = out
    BY <1>1 DEF Begin, RoundOrdered
  <2>3. LoopOf(p) = Sends!Closed /\ {g \in Groups : out'[p][g] # "none"} = {}
    BY <2>2 DEF LoopOf, Tried, Working, Nothing, Sends!Closed
  <2>4. LoopOf(p)' = Sends!Open(S, {}, {})
    BY <2>1, <2>2, <2>3 DEF LoopOf, Tried, Working, Sends!Open
  <2>5. Sends!Becomes(p, Sends!Open(S, {}, {}))
    BY <1>1, <2>4, OneLoopChanges, OthersRounds
  <2> QED
    BY <2>3, <2>5 DEF Sends!Plan
<1>2. ASSUME Connect(p) PROVE LoopOf(p)' = LoopOf(p)
  BY <1>2 DEF Connect, LoopOf, Tried, Working
<1>3. ASSUME BuildFails(p) \/ Unauthorized(p) PROVE Sends!FailRest(p)
  <2>1. pc[p] = "connect" /\ pc' = [pc EXCEPT ![p] = "back"]
    BY <1>3 DEF BuildFails, Unauthorized
  <2>0. PICK result \in {"fail", "reauth"} : FailAll(p, result)
    BY <1>3 DEF BuildFails, Unauthorized
  <2>2. \A g \in Groups : out'[p][g] = IF g \in queue[p] THEN result ELSE out[p][g]
    BY <2>0 DEF FailAll
  <2> DEFINE failed == LoopOf(p).done \cup LoopOf(p).todo
  <2>3. LoopOf(p).open /\ LoopOf(p).cur = {} /\ LoopOf(p).todo = queue[p]
    BY <2>1 DEF LoopOf, Working
  <2>4. {g \in Groups : out'[p][g] # "none"} = failed
    BY <2>2, <2>3 DEF LoopOf, Tried
  <2>5. LoopOf(p)' = Sends!Open({}, {}, failed)
    BY <2>1, <2>4 DEF LoopOf, Tried, Working, Sends!Open
  <2>6. Sends!Becomes(p, Sends!Open({}, {}, failed))
    BY <1>3, <2>5, OneLoopChanges, OthersRounds DEF RoundStep
  <2> QED
    BY <2>3, <2>6 DEF Sends!FailRest, Sends!Between
<1> QED
  BY <1>1, <1>2, <1>3

\* Taking a group, leaving the loop, writing back and dropping the round.
LEMMA LoopGoesOn ==
  ASSUME IInv, NEW p \in Procs
  PROVE  /\ Take(p) => Sends!Take(p)
         /\ WorkerEnds(p) => Sends!Stop(p)
         /\ WriteBatch(p) => Sends!Record(p)
         /\ WriteBack(p) => Sends!Close(p)
         /\ Dropped(p) => Sends!Drop(p)
<1> USE DEF IInv, TypeOK
<1>1. ASSUME Take(p) PROVE Sends!Take(p)
  <2>1. PICK g \in queue[p] : /\ cur' = [cur EXCEPT ![p] = g]
                              /\ queue' = [queue EXCEPT ![p] = @ \ {g}]
    BY <1>1 DEF Take
  <2>2. pc[p] = "take" /\ pc' = [pc EXCEPT ![p] = "send"] /\ out' = out
    BY <1>1 DEF Take
  <2>3. LoopOf(p).open /\ LoopOf(p).cur = {} /\ LoopOf(p).todo = queue[p]
    BY <2>2 DEF LoopOf, Working
  <2>4. LoopOf(p)' = Sends!Open(queue[p] \ {g}, {g}, LoopOf(p).done)
    <3>1. cur'[p] = g /\ queue'[p] = queue[p] \ {g} /\ pc'[p] = "send"
      BY <2>1, <2>2
    <3> QED
      BY <2>2, <3>1 DEF LoopOf, Tried, Working, Sends!Open
  <2>5. Sends!Becomes(p, Sends!Open(queue[p] \ {g}, {g}, LoopOf(p).done))
    BY <1>1, <2>4, OneLoopChanges, OthersRounds DEF RoundStep
  <2> QED
    BY <2>3, <2>5 DEF Sends!Take, Sends!Between
<1>2. ASSUME WorkerEnds(p) PROVE Sends!Stop(p)
  <2>1. pc[p] = "take" /\ pc' = [pc EXCEPT ![p] = "back"] /\ out' = out
    BY <1>2 DEF WorkerEnds
  <2>2. LoopOf(p).open /\ LoopOf(p).cur = {}
    BY <2>1 DEF LoopOf
  <2>3. LoopOf(p)' = Sends!Open({}, {}, LoopOf(p).done)
    BY <2>1 DEF LoopOf, Tried, Working, Sends!Open
  <2>4. Sends!Becomes(p, Sends!Open({}, {}, LoopOf(p).done))
    BY <1>2, <2>3, OneLoopChanges, OthersRounds DEF RoundStep
  <2> QED
    BY <2>2, <2>4 DEF Sends!Stop, Sends!Between
<1>3. ASSUME Over(p) PROVE LoopOf(p)' = Sends!Closed
  <2>1. pc'[p] = "idle" /\ out'[p] = Nothing
    BY <1>3 DEF Over
  <2>2. {g \in Groups : out'[p][g] # "none"} = {}
    BY <2>1 DEF Nothing
  <2> QED
    BY <2>1, <2>2 DEF LoopOf, Tried, Working, Sends!Closed
<1>4. ASSUME WriteBack(p) PROVE Sends!Close(p)
  <2>1. pc[p] = "back" /\ Over(p)
    BY <1>4 DEF WriteBack
  <2>2. LoopOf(p).open /\ LoopOf(p).cur = {} /\ LoopOf(p).todo = {}
    BY <2>1 DEF LoopOf, Working
  <2>3. Sends!Becomes(p, Sends!Closed)
    BY <1>3, <1>4, <2>1, OneLoopChanges, OthersRounds DEF RoundStep
  <2> QED
    BY <2>2, <2>3 DEF Sends!Close, Sends!Through, Sends!Between
<1>5. ASSUME Dropped(p) PROVE Sends!Drop(p)
  <2>1. pc[p] # "idle" /\ Over(p)
    BY <1>5 DEF Dropped
  <2>2. LoopOf(p).open
    BY <2>1 DEF LoopOf
  <2>3. Sends!Becomes(p, Sends!Closed)
    BY <1>3, <1>5, <2>1, OneLoopChanges, OthersRounds
  <2> QED
    BY <2>2, <2>3 DEF Sends!Drop
<1>6. ASSUME WriteBatch(p) PROVE Sends!Record(p)
  <2>1. pc[p] = "back" /\ UNCHANGED <<pc, queue, cur>>
    BY <1>6 DEF WriteBatch
  <2>2. PICK S \in SUBSET Tried(p) :
          /\ S # {}
          /\ out' = [out EXCEPT ![p] = [g \in Groups |-> IF g \in S THEN "none" ELSE @[g]]]
    BY <1>6 DEF WriteBatch
  <2>3. /\ LoopOf(p).open /\ LoopOf(p).cur = {} /\ LoopOf(p).todo = {}
        /\ LoopOf(p).done = Tried(p)
    BY <2>1 DEF LoopOf, Working
  <2>4. Tried(p)' = Tried(p) \ S
    BY <2>2 DEF Tried
  <2>5. LoopOf(p)' = Sends!Open({}, {}, LoopOf(p).done \ S)
    BY <2>1, <2>3, <2>4 DEF LoopOf, Working, Sends!Open
  <2>6. Sends!Becomes(p, Sends!Open({}, {}, LoopOf(p).done \ S))
    BY <1>6, <2>5, OneLoopChanges, OthersRounds DEF RoundStep
  <2> QED
    BY <2>2, <2>3, <2>6 DEF Sends!Record, Sends!Through, Sends!Between
<1> QED
  BY <1>1, <1>2, <1>4, <1>5, <1>6

(***************************************************************************)
(* With retries, floods, refusals and clients that cannot be built, a      *)
(* round still takes its groups one after another, has an outcome of each  *)
(* before the next, and writes back in batches when nothing is left to try *)
(* (sender.py:46-60, 246-535, 674-761).                                    *)
(***************************************************************************)
THEOREM DeliveryIsSendLoop == Spec => ImplementsSendLoop
<1>1. Init => Sends!Init
  <2> SUFFICES ASSUME Init, NEW p \in Procs PROVE LoopOf(p) = Sends!Closed
    BY DEF Sends!Init
  <2>1. pc[p] = "idle" /\ out[p] = Nothing
    BY DEF Init
  <2> QED
    BY <2>1 DEF LoopOf, Tried, Working, Nothing, Sends!Closed
<1>2. IInv /\ [Next]_vars => [Sends!Next]_([p \in Procs |-> LoopOf(p)])
  <2> SUFFICES ASSUME IInv, [Next]_vars
               PROVE  Sends!Next \/ UNCHANGED [p \in Procs |-> LoopOf(p)]
    OBVIOUS
  <2>1. CASE \E p \in Procs : Begin(p) \/ RoundStep(p) \/ Dropped(p)
    <3>1. PICK p \in Procs : Begin(p) \/ RoundStep(p) \/ Dropped(p)
      BY <2>1
    <3>2. \/ LoopOf(p)' = LoopOf(p)
          \/ Sends!Plan(p) \/ Sends!Take(p) \/ Sends!Outcome(p) \/ Sends!FailRest(p)
          \/ Sends!Stop(p) \/ Sends!Record(p) \/ Sends!Close(p) \/ Sends!Drop(p)
      BY <3>1, StartIsPlanned, LoopGoesOn, SendIsOutcome DEF RoundStep
    <3>3. CASE LoopOf(p)' = LoopOf(p)
      <4>1. \A q \in Procs : LoopOf(q)' = LoopOf(q)
        BY <3>1, <3>3, OthersRounds DEF IInv
      <4> QED
        BY <4>1, SameLoops
    <3> QED
      BY <3>2, <3>3 DEF Sends!Next
  <2>2. CASE (\E g \in Fickle : Refuse(g) \/ Die(g)) \/ Bar \/ FloodEnds \/ UNCHANGED vars
    <3>1. UNCHANGED <<pc, queue, cur, out>>
      BY <2>2 DEF Refuse, Die, Bar, FloodEnds, vars, round
    <3>2. \A q \in Procs : LoopOf(q)' = LoopOf(q)
      BY <3>1 DEF LoopOf, Tried, Working
    <3> QED
      BY <3>2, SameLoops
  <2> QED
    BY <2>1, <2>2 DEF Next
<1> QED
  BY <1>1, <1>2, DeliveryInvariant, PTL DEF Spec, ImplementsSendLoop, Sends!Spec
===============================================================================
