------------------------------- MODULE SendLoop -------------------------------
(***************************************************************************)
(* What a round promises of its send loop (engine/sender.py), whoever runs *)
(* it and whatever interferes: groups are chosen once, a group is taken    *)
(* from those left and only then tried, one at a time, it has its outcome  *)
(* before the next one is taken, and the round closes when nothing is left *)
(* to do.  Outcomes disappear by being recorded, or all at once with a     *)
(* loop that is dropped.                                                   *)
(***************************************************************************)
CONSTANTS Senders, Groups

VARIABLE loop  \* of a sender: open, groups to do, the current one, those tried

Closed == [open |-> FALSE, todo |-> {}, cur |-> {}, done |-> {}]
Open(t, c, d) == [open |-> TRUE, todo |-> t, cur |-> c, done |-> d]

Becomes(s, l) == loop' = [loop EXCEPT ![s] = l]

Init == loop = [s \in Senders |-> Closed]

Plan(s) ==
  /\ loop[s] = Closed
  /\ \E S \in SUBSET Groups : Becomes(s, Open(S, {}, {}))

\* No group is current.
Between(s) == loop[s].open /\ loop[s].cur = {}

Take(s) ==
  /\ Between(s)
  /\ \E g \in loop[s].todo : Becomes(s, Open(loop[s].todo \ {g}, {g}, loop[s].done))

\* The loop goes on with what is left, or breaks.
Outcome(s) ==
  /\ loop[s].open /\ loop[s].cur # {}
  /\ \E rest \in {loop[s].todo, {}} :
       Becomes(s, Open(rest, {}, loop[s].done \cup loop[s].cur))

\* Without a client every group fails.
FailRest(s) ==
  Between(s) /\ Becomes(s, Open({}, {}, loop[s].done \cup loop[s].todo))

\* A revoked round leaves the rest to the next one.
Stop(s) == Between(s) /\ Becomes(s, Open({}, {}, loop[s].done))

\* Nothing is left to try.
Through(s) == Between(s) /\ loop[s].todo = {}

\* A batch of outcomes is written.
Record(s) ==
  /\ Through(s)
  /\ \E S \in SUBSET loop[s].done : S # {} /\ Becomes(s, Open({}, {}, loop[s].done \ S))

\* The last outcomes are written with the commit that closes the round.
Close(s) == Through(s) /\ Becomes(s, Closed)

\* The worker raises and the round goes on without its outcomes, or the round
\* ends with an abort, a time limit or a crash.
Drop(s) ==
  /\ loop[s].open
  /\ Becomes(s, Open({}, {}, {})) \/ Becomes(s, Closed)

Next ==
  \E s \in Senders :
    \/ Plan(s) \/ Take(s) \/ Outcome(s) \/ FailRest(s) \/ Stop(s)
    \/ Record(s) \/ Close(s) \/ Drop(s)

Spec == Init /\ [][Next]_loop
=============================================================================
