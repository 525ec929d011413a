--------------------------- MODULE RateLimit_proofs ---------------------------
(***************************************************************************)
(* Proofs about the rate limiter for any number of processes and slots.    *)
(***************************************************************************)
EXTENDS RateLimit, FiniteSetTheorems, TLAPS

\* The processes that must return a slot are finitely many.
LEMMA ReturningFinite ==
  ASSUME NEW k
  PROVE  IsFiniteSet(Returning(k)) /\ Cardinality(Returning(k)) \in Nat
<1>1. Returning(k) \subseteq Procs
  BY DEF Returning
<1> QED
  BY <1>1, RateAssumption, FS_Subset, FS_CardinalityType

\* A step of one process that leaves its debt alone leaves every count of debts alone.
LEMMA ReturningSame ==
  ASSUME NEW k,
         \A p \in Procs : (pc'[p] = "decr" /\ win'[p] = k) <=> (pc[p] = "decr" /\ win[p] = k)
  PROVE  Returning(k)' = Returning(k)
BY DEF Returning

\* The first state hands out nothing.
LEMMA InitIInv == Init => IInv
<1> SUFFICES ASSUME Init PROVE IInv
  OBVIOUS
<1> USE RateAssumption DEF Init, Windows
<1>1. TypeOK /\ NoLateIncr /\ AtMostMaxSends /\ DeniedOnlyWhenFull
  BY DEF TypeOK, NoLateIncr, AtMostMaxSends, DeniedOnlyWhenFull
<1>2. \A k \in Windows : Returning(k) = {}
  BY DEF Returning
<1>3. \A k \in Windows : Cardinality(Returning(k)) = 0
  BY <1>2, FS_EmptySet
<1>4. \A k \in Windows : count[k] = 0 /\ granted[k] = 0
  OBVIOUS
<1>5. Covered
  <2> SUFFICES ASSUME NEW k \in Windows
               PROVE  /\ count[k] >= granted[k] + Cardinality(Returning(k))
                      /\ granted[k] < MaxSends => count[k] = granted[k]
    BY DEF Covered
  <2> HIDE DEF Init, Windows
  <2>1. count[k] = 0 /\ granted[k] = 0 /\ Cardinality(Returning(k)) = 0
    BY <1>3, <1>4
  <2> QED
    BY <2>1
<1> QED
  BY <1>1, <1>5 DEF IInv

\* Taking a slot or a debt keeps the counter above both.
LEMMA IncrIInv == ASSUME IInv, NEW p \in Procs, Incr(p) PROVE IInv'
<1> DEFINE k == win[p]
<1> USE RateAssumption DEF IInv, TypeOK, NoLateIncr
<1>1. /\ pc[p] = "incr" /\ k \in Windows /\ k \notin expired
      /\ count' = [count EXCEPT ![k] = @ + 1]
      /\ UNCHANGED <<window, expired, win>>
  BY DEF Incr
<1>2. /\ count[k] \in Int /\ count'[k] = count[k] + 1 /\ granted[k] \in Nat
      /\ granted[k] <= MaxSends
      /\ Cardinality(Returning(k)) \in Nat
      /\ count[k] >= granted[k] + Cardinality(Returning(k))
      /\ granted[k] < MaxSends => count[k] = granted[k]
  BY <1>1, ReturningFinite DEF Covered, AtMostMaxSends
<1>3. CASE count'[k] <= MaxSends
  <2>1. /\ granted' = [granted EXCEPT ![k] = @ + 1]
        /\ pc' = [pc EXCEPT ![p] = "idle"]
    BY <1>3, <1>1 DEF Incr
  <2>2. granted[k] < MaxSends /\ granted'[k] = granted[k] + 1
    BY <1>1, <1>2, <1>3, <2>1
  <2>3. \A j \in Windows : Returning(j)' = Returning(j)
    BY <1>1, <2>1 DEF Returning
  <2>4. Covered'
    BY <1>1, <1>2, <2>1, <2>2, <2>3 DEF Covered
  <2>5. TypeOK' /\ NoLateIncr' /\ AtMostMaxSends'
    BY <1>1, <1>2, <2>1, <2>2 DEF AtMostMaxSends
  <2>6. DeniedOnlyWhenFull'
    BY <1>1, <1>2, <2>1, <2>2 DEF DeniedOnlyWhenFull
  <2> QED
    BY <1>1, <2>4, <2>5, <2>6
<1>4. CASE ~(count'[k] <= MaxSends)
  <2>1. pc' = [pc EXCEPT ![p] = "decr"] /\ UNCHANGED granted
    BY <1>4, <1>1 DEF Incr
  <2>2. granted[k] = MaxSends
    BY <1>2, <1>4
  <2>3. p \notin Returning(k) /\ Returning(k)' = Returning(k) \cup {p}
    BY <1>1, <2>1 DEF Returning
  <2>4. Cardinality(Returning(k)') = Cardinality(Returning(k)) + 1
    BY <2>3, ReturningFinite, FS_AddElement
  <2>5. \A j \in Windows : j # k => Returning(j)' = Returning(j)
    BY <1>1, <2>1 DEF Returning
  <2>6. Covered'
    BY <1>1, <1>2, <2>1, <2>2, <2>4, <2>5 DEF Covered
  <2>7. TypeOK' /\ NoLateIncr' /\ AtMostMaxSends'
    BY <1>1, <1>2, <2>1 DEF AtMostMaxSends
  <2>8. DeniedOnlyWhenFull'
    BY <1>1, <2>1, <2>2 DEF DeniedOnlyWhenFull
  <2> QED
    BY <1>1, <2>6, <2>7, <2>8
<1> QED
  BY <1>3, <1>4

\* Giving a slot back lowers the counter and the debts by one.
LEMMA DecrIInv == ASSUME IInv, NEW p \in Procs, Decr(p) PROVE IInv'
<1> USE RateAssumption DEF IInv, TypeOK, NoLateIncr
<1> PICK k \in Windows : k = win[p]
  OBVIOUS
<1>1. /\ pc[p] = "decr" /\ k \in Windows
      /\ count' = [count EXCEPT ![k] = @ - 1]
      /\ pc' = [pc EXCEPT ![p] = "asleep"]
      /\ UNCHANGED <<window, expired, win, granted>>
  BY DEF Decr
<1>2. p \in Returning(k) /\ Returning(k)' = Returning(k) \ {p}
  BY <1>1 DEF Returning
<1>3. Cardinality(Returning(k)') = Cardinality(Returning(k)) - 1
  <2>1. IsFiniteSet(Returning(k))
    BY ReturningFinite
  <2>2. Cardinality(Returning(k) \ {p}) = Cardinality(Returning(k)) - 1
    BY <1>2, <2>1, FS_RemoveElement, Zenon
  <2> QED
    BY <1>2, <2>2
<1>4. \A j \in Windows : j # k => Returning(j)' = Returning(j)
  BY <1>1 DEF Returning
<1>5. granted[k] = MaxSends
  BY <1>1 DEF DeniedOnlyWhenFull
<1>6. Covered'
  <2> SUFFICES ASSUME NEW j \in Windows \ expired
               PROVE  /\ count'[j] >= granted[j] + Cardinality(Returning(j)')
                      /\ granted[j] < MaxSends => count'[j] = granted[j]
    BY <1>1 DEF Covered, Windows
  <2>1. /\ count[j] \in Int /\ granted[j] \in Nat /\ Cardinality(Returning(j)) \in Nat
        /\ count[j] >= granted[j] + Cardinality(Returning(j))
        /\ granted[j] < MaxSends => count[j] = granted[j]
    BY ReturningFinite DEF Covered
  <2>2. CASE j = k
    <3>1. count'[j] = count[j] - 1
      BY <1>1, <2>2
    <3>2. Cardinality(Returning(j)') = Cardinality(Returning(j)) - 1
      BY <1>3, <2>2
    <3>3. ~(granted[j] < MaxSends)
      BY <1>5, <2>2
    <3> QED
      BY <2>1, <3>1, <3>2, <3>3
  <2>3. CASE j # k
    <3>1. count'[j] = count[j]
      BY <1>1, <2>3
    <3> QED
      BY <1>4, <2>1, <2>3, <3>1
  <2> QED
    BY <2>2, <2>3
<1>7. TypeOK' /\ NoLateIncr' /\ AtMostMaxSends'
  BY <1>1 DEF AtMostMaxSends
<1>8. DeniedOnlyWhenFull'
  BY <1>1 DEF DeniedOnlyWhenFull
<1> QED
  BY <1>1, <1>6, <1>7, <1>8

\* A crash forgets a debt and never lowers the counter.
LEMMA CrashIInv == ASSUME IInv, NEW p \in Procs, Crash(p) PROVE IInv'
<1> USE RateAssumption DEF IInv, TypeOK, NoLateIncr
<1>1. pc' = [pc EXCEPT ![p] = "idle"] /\ UNCHANGED <<window, count, expired, win, granted>>
  BY DEF Crash
<1>2. ASSUME NEW k \in Windows
      PROVE  /\ Cardinality(Returning(k)') \in Nat
             /\ Cardinality(Returning(k)') <= Cardinality(Returning(k))
  <2>1. Returning(k)' \subseteq Returning(k)
    BY <1>1 DEF Returning
  <2> QED
    BY <2>1, ReturningFinite, FS_Subset, FS_CardinalityType
<1>3. Covered'
  BY <1>1, <1>2, ReturningFinite DEF Covered
<1>4. TypeOK' /\ NoLateIncr' /\ AtMostMaxSends' /\ DeniedOnlyWhenFull'
  BY <1>1 DEF AtMostMaxSends, DeniedOnlyWhenFull
<1> QED
  BY <1>1, <1>3, <1>4

\* Reading the clock, the clock itself and the key's TTL touch no slot.
LEMMA QuietIInv ==
  ASSUME IInv,
         \/ \E p \in Procs : ReadClock(p)
         \/ NextWindow
         \/ \E k \in Windows : KeyExpires(k)
         \/ UNCHANGED vars
  PROVE  IInv'
<1> USE RateAssumption DEF IInv, TypeOK, NoLateIncr, Windows
<1>1. ASSUME NEW p \in Procs, ReadClock(p) PROVE IInv'
  <2>1. /\ pc[p] \in {"idle", "asleep"}
        /\ pc' = [pc EXCEPT ![p] = "incr"] /\ win' = [win EXCEPT ![p] = window]
        /\ UNCHANGED <<window, count, expired, granted>> /\ window \notin expired
    BY <1>1 DEF ReadClock
  <2>2. \A k \in Windows : Returning(k)' = Returning(k)
    BY <2>1, ReturningSame
  <2> QED
    BY <2>1, <2>2 DEF Covered, AtMostMaxSends, DeniedOnlyWhenFull
<1>2. ASSUME NextWindow \/ UNCHANGED vars PROVE IInv'
  <2>1. UNCHANGED <<count, expired, pc, win, granted>> /\ window' \in Windows /\ window' >= window
    BY <1>2 DEF NextWindow, vars
  <2>2. \A k \in Windows : Returning(k)' = Returning(k)
    BY <2>1, ReturningSame
  <2> QED
    BY <2>1, <2>2 DEF Covered, AtMostMaxSends, DeniedOnlyWhenFull
<1>3. ASSUME NEW k \in Windows, KeyExpires(k) PROVE IInv'
  <2>1. /\ k < window /\ count' = [count EXCEPT ![k] = 0] /\ expired' = expired \cup {k}
        /\ \A p \in Procs : ~(pc[p] = "incr" /\ win[p] = k)
        /\ UNCHANGED <<window, pc, win, granted>>
    BY <1>3 DEF KeyExpires
  <2>2. \A j \in Windows : Returning(j)' = Returning(j)
    BY <2>1, ReturningSame
  <2>3. TypeOK' /\ AtMostMaxSends' /\ DeniedOnlyWhenFull'
    BY <2>1 DEF AtMostMaxSends, DeniedOnlyWhenFull
  <2>4. Covered'
    BY <2>1, <2>2 DEF Covered
  <2> QED
    BY <2>1, <2>2, <2>3, <2>4
<1> QED
  BY <1>1, <1>2, <1>3

LEMMA NextIInv == IInv /\ [Next]_vars => IInv'
BY IncrIInv, DecrIInv, CrashIInv, QuietIInv DEF Next

(***************************************************************************)
(* The counter of a window covers the slots handed out and those still to  *)
(* be returned (account_rate_limit.py:26-37).                              *)
(***************************************************************************)
THEOREM SlotsAreCovered == Spec => []IInv
BY InitIInv, NextIInv, PTL DEF Spec

(***************************************************************************)
(* Concurrent senders of one account never get more than                   *)
(* max_sends_per_minute slots of one window.                               *)
(***************************************************************************)
THEOREM RateIsLimited == Spec => []AtMostMaxSends
<1>1. IInv => AtMostMaxSends
  BY DEF IInv
<1> QED
  BY <1>1, InitIInv, NextIInv, PTL DEF Spec

(***************************************************************************)
(* The limiter never turns a sender away while a slot is free.             *)
(***************************************************************************)
THEOREM RateIsFull == Spec => []DeniedOnlyWhenFull
<1>1. IInv => DeniedOnlyWhenFull
  BY DEF IInv
<1> QED
  BY <1>1, InitIInv, NextIInv, PTL DEF Spec
=============================================================================
