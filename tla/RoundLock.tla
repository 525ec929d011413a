------------------------------ MODULE RoundLock ------------------------------
(***************************************************************************)
(* What engine/distributed_lock.py promises the campaign rounds: a lock    *)
(* that is free, held by one worker, or abandoned.  An abandoned lock (the *)
(* holder crashed, its release failed, or the reply to its SET was lost)   *)
(* blocks everybody until the Redis TTL frees it.                          *)
(***************************************************************************)
CONSTANTS Workers, Free, Abandoned

VARIABLE holder

Init == holder = Free

Acquire(w) == holder = Free /\ holder' = w

\* The round ends, or it has not renewed the key for its TTL.
Release(w) == holder = w /\ holder' = Free

Abandon(w) == holder \in {Free, w} /\ holder' = Abandoned

Expire == holder = Abandoned /\ holder' = Free

Next ==
  \/ \E w \in Workers : Acquire(w) \/ Release(w) \/ Abandon(w)
  \/ Expire

Spec == Init /\ [][Next]_holder

TypeOK == holder \in Workers \cup {Free, Abandoned}
=============================================================================
