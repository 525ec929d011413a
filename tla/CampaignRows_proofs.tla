-------------------------- MODULE CampaignRows_proofs --------------------------
(* What the services of campaigns leave as it was, for any rows. *)
EXTENDS CampaignRows, TLAPS

USE DEF Statuses

\* stop_campaign: only the status of the campaigns named changes.
LEMMA PauseRows ==
  ASSUME NEW R \in [Campaigns -> Row], NEW S \in SUBSET Campaigns
  PROVE  /\ Pause(R, S) \in [Campaigns -> Row]
         /\ \A c \in Campaigns :
              /\ Pause(R, S)[c].account = R[c].account /\ Pause(R, S)[c].groups = R[c].groups
              /\ Pause(R, S)[c].status = IF c \in S THEN "paused" ELSE R[c].status
         /\ Running(Pause(R, S)) = Running(R) \ S
  <1>1. \A c \in Campaigns :
          Pause(R, S)[c] = IF c \in S THEN [R[c] EXCEPT !.status = "paused"] ELSE R[c]
    BY DEF Pause
  <1>2. \A c \in Campaigns : R[c] \in Row
    OBVIOUS
  <1>3. \A c \in Campaigns :
          /\ Pause(R, S)[c] \in Row
          /\ Pause(R, S)[c].account = R[c].account /\ Pause(R, S)[c].groups = R[c].groups
          /\ Pause(R, S)[c].status = IF c \in S THEN "paused" ELSE R[c].status
    BY <1>1, <1>2 DEF Row
  <1>4. Pause(R, S) \in [Campaigns -> Row]
    <2>1. Pause(R, S) = [c \in Campaigns |-> Pause(R, S)[c]]
      BY DEF Pause
    <2> QED BY <2>1, <1>3
  <1> QED BY <1>3, <1>4 DEF Running

\* start_campaign: c runs under its row, the others that were read stop.
LEMMA StartRows ==
  ASSUME NEW R \in [Campaigns -> Row], NEW c \in Campaigns, NEW row \in Row,
         NEW S \in SUBSET Campaigns
  PROVE  /\ StartOver(R, c, row, S) \in [Campaigns -> Row]
         /\ Running(StartOver(R, c, row, S)) = (Running(R) \ S) \cup {c}
         /\ StartOver(R, c, row, S)[c].status = "running"
         /\ StartOver(R, c, row, S)[c].account = row.account
         /\ StartOver(R, c, row, S)[c].groups = row.groups
         /\ \A d \in Campaigns \ {c} :
              /\ StartOver(R, c, row, S)[d].account = R[d].account
              /\ StartOver(R, c, row, S)[d].groups = R[d].groups
              /\ StartOver(R, c, row, S)[d].status = IF d \in S THEN "paused" ELSE R[d].status
  <1> DEFINE P == Pause(R, S)
             T == StartOver(R, c, row, S)
  <1>1. /\ P \in [Campaigns -> Row] /\ Running(P) = Running(R) \ S
        /\ \A d \in Campaigns :
             /\ P[d].account = R[d].account /\ P[d].groups = R[d].groups
             /\ P[d].status = IF d \in S THEN "paused" ELSE R[d].status
    BY PauseRows
  <1> HIDE DEF P
  <1>2. T = [P EXCEPT ![c] = [row EXCEPT !.status = "running"]]
    BY DEF StartOver, P
  <1>3. /\ [row EXCEPT !.status = "running"] \in Row
        /\ [row EXCEPT !.status = "running"].account = row.account
        /\ [row EXCEPT !.status = "running"].groups = row.groups
        /\ [row EXCEPT !.status = "running"].status = "running"
    BY DEF Row
  <1>4. T \in [Campaigns -> Row]
    BY <1>1, <1>2, <1>3
  <1>5. /\ T[c] = [row EXCEPT !.status = "running"]
        /\ \A d \in Campaigns \ {c} : T[d] = P[d]
    BY <1>1, <1>2
  <1> HIDE DEF T
  <1>6. T[c].account = row.account /\ T[c].groups = row.groups /\ T[c].status = "running"
    BY <1>3, <1>5
  <1>7. Running(T) = Running(P) \cup {c}
    BY <1>5, <1>6 DEF Running
  <1>8. \A d \in Campaigns \ {c} :
          /\ T[d].account = R[d].account /\ T[d].groups = R[d].groups
          /\ T[d].status = IF d \in S THEN "paused" ELSE R[d].status
    BY <1>1, <1>5
  <1> QED BY <1>1, <1>4, <1>5, <1>6, <1>7, <1>8 DEF T

\* delete_all_campaigns_for_account: rows are gone with their links, or stay.
LEMMA DeleteRows ==
  ASSUME NEW R \in [Campaigns -> Row], NEW a \in Accounts
  PROVE  /\ DeleteAll(R, a) \in [Campaigns -> Row]
         /\ \A c \in Campaigns :
              /\ DeleteAll(R, a)[c].account = R[c].account
              /\ DeleteAll(R, a)[c].groups \subseteq R[c].groups
              /\ DeleteAll(R, a)[c].status = "new" <=> R[c].status = "new"
         /\ Running(DeleteAll(R, a)) \subseteq Running(R)
  <1>1. \A c \in Campaigns :
          DeleteAll(R, a)[c] =
            IF c \in OfAccount(R, a) THEN [R[c] EXCEPT !.status = "gone", !.groups = {}] ELSE R[c]
    BY DEF DeleteAll
  <1>2. \A c \in Campaigns : R[c] \in Row
    OBVIOUS
  <1>3. \A c \in Campaigns :
          /\ DeleteAll(R, a)[c] \in Row
          /\ DeleteAll(R, a)[c].account = R[c].account
          /\ DeleteAll(R, a)[c].groups \subseteq R[c].groups
          /\ DeleteAll(R, a)[c].status = IF c \in OfAccount(R, a) THEN "gone" ELSE R[c].status
    BY <1>1, <1>2 DEF Row
  <1>4. \A c \in OfAccount(R, a) : R[c].status # "new"
    BY DEF OfAccount, Live
  <1>5. DeleteAll(R, a) \in [Campaigns -> Row]
    <2>1. DeleteAll(R, a) = [c \in Campaigns |-> DeleteAll(R, a)[c]]
      BY DEF DeleteAll
    <2> QED BY <2>1, <1>3
  <1> QED BY <1>3, <1>4, <1>5 DEF Running

LEMMA FreshIsRow == ASSUME NEW a \in Accounts PROVE [FreshRow EXCEPT !.account = a] \in Row
                                                  /\ FreshRow \in Row
                                                  /\ FreshRow.status = "new"
                                                  /\ FreshRow.groups = {}
                                                  /\ [FreshRow EXCEPT !.account = a].account = a
  <1>1. (CHOOSE b \in Accounts : TRUE) \in Accounts
    BY Zenon
  <1> QED BY <1>1 DEF FreshRow, Row

LEMMA DraftRows ==
  ASSUME NEW R \in [Campaigns -> Row], NEW c \in Campaigns, NEW a \in Accounts,
         R[c].status = "new"
  PROVE  /\ Create(R, c, a, {}, {}) \in [Campaigns -> Row]
         /\ \A d \in Campaigns \ {c} : Create(R, c, a, {}, {})[d] = R[d]
         /\ Running(Create(R, c, a, {}, {})) = Running(R)
  <1>1. Create(R, c, a, {}, {}) = [R EXCEPT ![c] = [status |-> "draft", account |-> a, groups |-> {}]]
    BY DEF Create, Linked
  <1>2. [status |-> "draft", account |-> a, groups |-> {}] \in Row
    BY DEF Row
  <1> QED BY <1>1, <1>2 DEF Running

\* A deleted group takes its links with it.
LEMMA DropRows ==
  ASSUME NEW R \in [Campaigns -> Row], NEW g \in Groups
  PROVE  /\ DropGroup(R, g) \in [Campaigns -> Row]
         /\ \A c \in Campaigns :
              /\ DropGroup(R, g)[c].account = R[c].account
              /\ DropGroup(R, g)[c].status = R[c].status
              /\ DropGroup(R, g)[c].groups = R[c].groups \ {g}
  <1>1. \A c \in Campaigns : DropGroup(R, g)[c] = [R[c] EXCEPT !.groups = @ \ {g}]
    BY DEF DropGroup
  <1>2. \A c \in Campaigns : R[c] \in Row
    OBVIOUS
  <1>3. \A c \in Campaigns :
          /\ DropGroup(R, g)[c] \in Row
          /\ DropGroup(R, g)[c].account = R[c].account
          /\ DropGroup(R, g)[c].status = R[c].status
          /\ DropGroup(R, g)[c].groups = R[c].groups \ {g}
    <2> TAKE c \in Campaigns
    <2> DEFINE new == R[c].groups \ {g}
    <2>1. R[c] \in Row /\ new \in SUBSET Groups
      BY <1>2 DEF Row
    <2>2. DropGroup(R, g)[c] = [R[c] EXCEPT !.groups = new]
      BY <1>1
    <2> HIDE DEF new
    <2>3. /\ DropGroup(R, g)[c] \in Row
          /\ DropGroup(R, g)[c].account = R[c].account
          /\ DropGroup(R, g)[c].status = R[c].status
          /\ DropGroup(R, g)[c].groups = new
      BY <2>1, <2>2 DEF Row
    <2> QED BY <2>3 DEF new
  <1>4. DropGroup(R, g) = [c \in Campaigns |-> DropGroup(R, g)[c]]
    BY DEF DropGroup
  <1> QED BY <1>3, <1>4
================================================================================
