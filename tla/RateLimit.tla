------------------------------ MODULE RateLimit ------------------------------
(***************************************************************************)
(* wait_account_send_slot_sync, engine/account_rate_limit.py: processes    *)
(* that send for one account share a Redis counter per one-minute window,  *)
(* take a slot with INCR and give it back with DECR when it was too many.  *)
(***************************************************************************)
EXTENDS Integers, FiniteSets

CONSTANTS
  Procs, MaxSends,
  Horizon, MaxLeak  \* bounds: windows explored, slots lost to crashes per window

ASSUME RateAssumption ==
  IsFiniteSet(Procs) /\ MaxSends \in Nat \ {0} /\ Horizon \in Nat /\ MaxLeak \in Nat

Windows == 0 .. Horizon

VARIABLES
  window,   \* int(time.time()) // 60
  count,    \* window -> value of sender:rl:{account}:{window}, 0 when absent
  expired,  \* windows whose key has run out of its 75 s
  pc, win,  \* process -> control state, and the window it computed
  granted   \* history: window -> slots handed out

vars == <<window, count, expired, pc, win, granted>>

Init ==
  /\ window = 0
  /\ count = [k \in Windows |-> 0]
  /\ expired = {}
  /\ pc = [p \in Procs |-> "idle"]
  /\ win = [p \in Procs |-> 0]
  /\ granted = [k \in Windows |-> 0]

\* A send, or a process that woke up, computes the current window.
ReadClock(p) ==
  /\ pc[p] = "idle" \/ (pc[p] = "asleep" /\ window > win[p])
  /\ pc' = [pc EXCEPT ![p] = "incr"]
  /\ win' = [win EXCEPT ![p] = window]
  /\ UNCHANGED <<window, count, expired, granted>>

\* Mutant: an off-by-one in the comparison.
Incr_OneMore(p) ==
  /\ pc[p] = "incr"
  /\ count' = [count EXCEPT ![win[p]] = @ + 1]
  /\ IF count'[win[p]] <= MaxSends + 1
     THEN granted' = [granted EXCEPT ![win[p]] = @ + 1] /\ pc' = [pc EXCEPT ![p] = "idle"]
     ELSE pc' = [pc EXCEPT ![p] = "decr"] /\ UNCHANGED granted
  /\ UNCHANGED <<window, expired, win>>

\* Mutant: a strict comparison.
Incr_Strict(p) ==
  /\ pc[p] = "incr"
  /\ count' = [count EXCEPT ![win[p]] = @ + 1]
  /\ IF count'[win[p]] < MaxSends
     THEN granted' = [granted EXCEPT ![win[p]] = @ + 1] /\ pc' = [pc EXCEPT ![p] = "idle"]
     ELSE pc' = [pc EXCEPT ![p] = "decr"] /\ UNCHANGED granted
  /\ UNCHANGED <<window, expired, win>>

\* INCR returns n; a slot when n <= max, else it is given back.
Incr(p) ==
  /\ pc[p] = "incr"
  /\ count' = [count EXCEPT ![win[p]] = @ + 1]
  /\ IF count'[win[p]] <= MaxSends
     THEN granted' = [granted EXCEPT ![win[p]] = @ + 1] /\ pc' = [pc EXCEPT ![p] = "idle"]
     ELSE pc' = [pc EXCEPT ![p] = "decr"] /\ UNCHANGED granted
  /\ UNCHANGED <<window, expired, win>>

\* Mutant: the slot is given back twice.
Decr_Twice(p) ==
  /\ pc[p] = "decr"
  /\ count' = [count EXCEPT ![win[p]] = @ - 2]
  /\ pc' = [pc EXCEPT ![p] = "asleep"]
  /\ UNCHANGED <<window, expired, win, granted>>

\* The key may have expired since: DECR then creates it with -1.
Decr(p) ==
  /\ pc[p] = "decr"
  /\ count' = [count EXCEPT ![win[p]] = @ - 1]
  /\ pc' = [pc EXCEPT ![p] = "asleep"]
  /\ UNCHANGED <<window, expired, win, granted>>

\* The process dies between two Redis calls; nothing is given back.
Crash(p) ==
  /\ pc[p] # "idle"
  /\ pc[p] = "decr" => count[win[p]] < MaxSends + MaxLeak
  /\ pc' = [pc EXCEPT ![p] = "idle"]
  /\ UNCHANGED <<window, count, expired, win, granted>>

NextWindow ==
  /\ window < Horizon
  /\ window' = window + 1
  /\ UNCHANGED <<count, expired, pc, win, granted>>

\* The key lives 75 s, 15 s longer than its window: no process is so slow that
\* its INCR comes after the expiry.
KeyExpires(k) ==
  /\ k < window /\ k \notin expired
  /\ \A p \in Procs : ~(pc[p] = "incr" /\ win[p] = k)
  /\ count' = [count EXCEPT ![k] = 0]
  /\ expired' = expired \cup {k}
  /\ UNCHANGED <<window, pc, win, granted>>

Next ==
  \/ \E p \in Procs : ReadClock(p) \/ Incr(p) \/ Decr(p) \/ Crash(p)
  \/ NextWindow
  \/ \E k \in Windows : KeyExpires(k)

Spec == Init /\ [][Next]_vars

-----------------------------------------------------------------------------
TypeOK ==
  /\ window \in Windows
  /\ count \in [Windows -> Int]
  /\ expired \subseteq Windows
  /\ pc \in [Procs -> {"idle", "incr", "decr", "asleep"}]
  /\ win \in [Procs -> Windows]
  /\ granted \in [Windows -> Nat]

\* Processes that still have to give a slot of window k back.
Returning(k) == {p \in Procs : pc[p] = "decr" /\ win[p] = k}

(***************************************************************************)
(* No window hands out more than max_sends_per_minute slots, whatever the  *)
(* order of the INCRs and DECRs of concurrent senders, and although some   *)
(* of them crash (account_rate_limit.py:26-31).                            *)
(***************************************************************************)
AtMostMaxSends == \A k \in Windows : granted[k] <= MaxSends

(***************************************************************************)
(* A sender is turned away only from a window whose slots are all taken:   *)
(* the INCRs that others are about to take back deny nobody a slot         *)
(* (account_rate_limit.py:29-31).                                          *)
(***************************************************************************)
DeniedOnlyWhenFull ==
  \A p \in Procs : pc[p] = "decr" => granted[win[p]] = MaxSends

\* The inductive strengthening: the counter of a live window covers the slots
\* handed out and the slots still to be given back.
Covered ==
  \A k \in Windows \ expired :
    /\ count[k] >= granted[k] + Cardinality(Returning(k))
    /\ granted[k] < MaxSends => count[k] = granted[k]

NoLateIncr == \A p \in Procs : pc[p] = "incr" => win[p] \notin expired

IInv ==
  /\ TypeOK /\ Covered /\ NoLateIncr /\ AtMostMaxSends /\ DeniedOnlyWhenFull
  /\ \A k \in expired : k < window
=============================================================================
