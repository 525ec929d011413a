----------------------------- MODULE CampaignRows -----------------------------
(***************************************************************************)
(* The rows of campaigns and what the services of                          *)
(* app/services/campaigns.py do to them.  Bot handlers (Dialogs) and       *)
(* overlapping transactions (Accounts) apply these operators to the rows   *)
(* they see.  A deleted row is "gone": its uuid never comes back.          *)
(***************************************************************************)
EXTENDS FiniteSets

CONSTANTS Campaigns, Accounts, Groups,
          HomeOf   \* group -> the account it is stored for

ASSUME RowsAssumption == HomeOf \in [Groups -> Accounts] /\ Accounts # {}

Statuses == {"new", "draft", "running", "paused", "gone"}

\* models.py: Campaign with its campaign_groups
Row == [status : Statuses, account : Accounts, groups : SUBSET Groups]

FreshRow == [status |-> "new", account |-> CHOOSE a \in Accounts : TRUE, groups |-> {}]

GroupsOf(a) == {g \in Groups : HomeOf[g] = a}

Live(rows, c) == rows[c].status \in {"draft", "running", "paused"}

OfAccount(rows, a) == {c \in Campaigns : Live(rows, c) /\ rows[c].account = a}

Running(rows) == {c \in Campaigns : rows[c].status = "running"}

RunningOf(rows, a) == {c \in Running(rows) : rows[c].account = a}

\* stop_campaign, for every campaign of a set
Pause(rows, S) ==
  [c \in Campaigns |-> IF c \in S THEN [rows[c] EXCEPT !.status = "paused"] ELSE rows[c]]

\* start_campaign: the other running campaigns of the account stop.
Others(rows, c) == RunningOf(rows, rows[c].account) \ {c}

\* start_campaign of row c: the others, as they were read, stop.
StartOver(rows, c, row, others) ==
  [Pause(rows, others) EXCEPT ![c] = [row EXCEPT !.status = "running"]]

Start(rows, c) == StartOver(rows, c, rows[c], Others(rows, c))

\* Mutant: groups of any account are linked.
Linked_Any(G, there, a) == G \cap there

\* Groups that are gone or stored for another account are passed over.
Linked(G, there, a) == G \cap there \cap GroupsOf(a)

\* create_campaign
Create(rows, c, a, G, there) ==
  [rows EXCEPT ![c] = [status |-> "draft", account |-> a, groups |-> Linked(G, there, a)]]

\* replace_campaign_groups
ReplaceGroups(rows, c, G, there) ==
  [rows EXCEPT ![c].groups = Linked(G, there, rows[c].account)]

\* Mutant: the links of a deleted group stay.
DropGroup_Links(rows, g) == rows

\* delete_user_group, delete_group_by_id: the links go with the row.
DropGroup(rows, g) == [c \in Campaigns |-> [rows[c] EXCEPT !.groups = @ \ {g}]]

\* delete_all_campaigns_for_account
DeleteAll(rows, a) ==
  [c \in Campaigns |->
     IF c \in OfAccount(rows, a) THEN [rows[c] EXCEPT !.status = "gone", !.groups = {}]
     ELSE rows[c]]
=============================================================================
