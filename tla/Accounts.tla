-------------------------------- MODULE Accounts --------------------------------
(***************************************************************************)
(* Accounts and campaigns of one user under transactions that overlap: the *)
(* bot, threads of the API and Celery workers read rows, work, and commit  *)
(* what they computed (READ COMMITTED, expire_on_commit=False).  A commit  *)
(* writes the columns that changed in the session without looking at the   *)
(* rows again; a row deleted meanwhile makes it fail.                      *)
(*                                                                         *)
(* Row locks order commits and nothing else: the unit of work writes       *)
(* accounts before campaigns and both by key, so no two wait in a circle.  *)
(***************************************************************************)
EXTENDS CampaignRows

CONSTANTS NoAccount, NoCampaign, Procs

ASSUME AccountsAssumption == NoAccount \notin Accounts /\ NoCampaign \notin Campaigns

VARIABLES
  rows,     \* committed campaigns
  account,  \* committed status of accounts
  tx,       \* what each process has read and will write
  unseen,   \* history: starts committed while the start of a campaign was open
  blind,    \* history: accounts a login did not see become active
  late      \* history: campaigns started while or after their account was replaced

vars == <<rows, account, tx, unseen, blind, late>>

NoTx == [kind |-> "none", campaign |-> NoCampaign, row |-> FreshRow, account |-> NoAccount,
         losers |-> {}, others |-> {}, missed |-> {}, blind |-> {}]

Active == {a \in Accounts : account[a] = "active"}

RunningUnder(S) == {c \in Running(rows) : rows[c].account \in S}

Free(p) == tx[p].kind = "none"

Rollback(p) == tx' = [tx EXCEPT ![p] = NoTx]

-----------------------------------------------------------------------------
(* start_campaign, from the API, a button of the bot, or campaign_interval,  *)
(* which creates the row in the same transaction                             *)

\* Mutant: the running campaigns of the account are not read.
Read_None(p, c, row) ==
  tx' = [tx EXCEPT ![p] = [NoTx EXCEPT !.kind = "start", !.campaign = c, !.row = row]]

\* c and its running rivals are read.
Read(p, c, row) ==
  tx' = [tx EXCEPT ![p] = [NoTx EXCEPT !.kind = "start", !.campaign = c, !.row = row,
                                       !.others = RunningOf(rows, row.account) \ {c}]]

\* The account of the campaign is not looked at.
StartBegin(p, c) ==
  /\ Free(p) /\ Live(rows, c) /\ rows[c].status # "running"
  /\ Read(p, c, rows[c])
  /\ UNCHANGED <<rows, account, unseen, blind, late>>

CreateBegin(p, c, a) ==
  /\ Free(p) /\ rows[c].status = "new" /\ \A q \in Procs : tx[q].campaign # c
  /\ Read(p, c, [FreshRow EXCEPT !.account = a])
  /\ UNCHANGED <<rows, account, unseen, blind, late>>

\* Every row that the transaction writes is still there.
Present(t) == \A c \in t.others \cup ({t.campaign} \ {NoCampaign}) : rows[c].status # "gone"

\* The session writes the status, whatever it has become.
StartCommit(p) ==
  LET t == tx[p]
      c == t.campaign
  IN  /\ t.kind = "start" /\ Present(t)
      /\ rows' = StartOver(rows, c, t.row, t.others)
      /\ unseen' = [unseen EXCEPT ![c] = t.missed]
      /\ tx' = [q \in Procs |->
                 IF q = p THEN NoTx
                 ELSE IF tx[q].kind = "start" /\ tx[q].row.account = t.row.account
                 THEN [tx[q] EXCEPT !.missed = @ \cup {c}] ELSE tx[q]]
      /\ late' = IF \/ account[t.row.account] = "replaced"
                    \/ \E q \in Procs : t.row.account \in tx[q].losers
                 THEN late \cup {c} ELSE late \ {c}
      /\ UNCHANGED <<account, blind>>

\* An error, a row that is gone, a process that dies
TxFails(p) ==
  /\ ~Free(p) /\ Rollback(p)
  /\ UNCHANGED <<rows, account, unseen, blind, late>>

\* stop_campaign, stop_all_running_campaigns_for_user
Stop ==
  /\ \E S \in {Running(rows)} \cup {{c} : c \in {d \in Campaigns : Live(rows, d)}} :
       rows' = Pause(rows, S)
  /\ UNCHANGED <<account, tx, unseen, blind, late>>

\* create_campaign of the API
CreateDraft(c, a) ==
  /\ rows[c].status = "new" /\ \A q \in Procs : tx[q].campaign # c
  /\ rows' = Create(rows, c, a, {}, {})
  /\ UNCHANGED <<account, tx, unseen, blind, late>>

DeleteCampaigns(a) ==
  /\ OfAccount(rows, a) # {}
  /\ rows' = DeleteAll(rows, a)
  /\ UNCHANGED <<account, tx, unseen, blind, late>>

-----------------------------------------------------------------------------
(* complete_login_task, one account row for each login                       *)

\* complete_login, until the code is accepted
LoginBegin(p, a) ==
  /\ Free(p) /\ account[a] = "pending_login" /\ \A q \in Procs : tx[q].account # a
  /\ tx' = [tx EXCEPT ![p] = [NoTx EXCEPT !.kind = "login", !.account = a]]
  /\ UNCHANGED <<rows, account, unseen, blind, late>>

\* Mutant: the campaigns of the accounts replaced go on.
Replacing_Runs(p, kind, a, S) ==
  tx' = [tx EXCEPT ![p] = [NoTx EXCEPT !.kind = kind, !.account = a, !.losers = S]]

\* The accounts to replace are read, with their running campaigns.
Replacing(p, kind, a, S) ==
  tx' = [tx EXCEPT ![p] = [NoTx EXCEPT !.kind = kind, !.account = a, !.losers = S,
                                       !.others = RunningUnder(S)]]

\* deactivate_other_active_accounts
LoginReads(p) ==
  /\ tx[p].kind = "login"
  /\ Replacing(p, "replace", tx[p].account, Active \ {tx[p].account})
  /\ UNCHANGED <<rows, account, unseen, blind, late>>

\* a becomes active under the eyes of nobody who has read already.
BecomesActive(p, a) ==
  tx' = [q \in Procs |->
          IF q = p THEN NoTx
          ELSE IF tx[q].kind = "replace" THEN [tx[q] EXCEPT !.blind = @ \cup {a}] ELSE tx[q]]

\* The commit of the except branch: the status is set, Redis failed to delete
\* the key of the login, and nobody was replaced.
LoginCommitsHalf(p) ==
  LET a == tx[p].account
  IN  /\ tx[p].kind = "login"
      /\ account' = [account EXCEPT ![a] = "active"]
      /\ blind' = [blind EXCEPT ![a] = Accounts]
      /\ BecomesActive(p, a)
      /\ UNCHANGED <<rows, unseen, late>>

\* Mutant: the other accounts stay active.
Replaced_Stay(t) == account

Replaced(t) == [b \in Accounts |-> IF b \in t.losers THEN "replaced" ELSE account[b]]

LoginCommit(p) ==
  LET t == tx[p]
  IN  /\ t.kind = "replace" /\ t.account # NoAccount /\ Present(t)
      /\ account' = [Replaced(t) EXCEPT ![t.account] = "active"]
      /\ rows' = Pause(rows, t.others)
      /\ blind' = [blind EXCEPT ![t.account] = t.blind]
      /\ BecomesActive(p, t.account)
      /\ UNCHANGED <<unseen, late>>

-----------------------------------------------------------------------------
(* get_active_account_for_user with more than one active row.  It keeps the  *)
(* row with the newest updated_at; logins and rounds set this to the start   *)
(* of their transactions, so it may be any of them.                          *)

RepairBegin(p) ==
  /\ Free(p) /\ (\E a, b \in Active : a # b)
  /\ \E keep \in Active : Replacing(p, "replace", NoAccount, Active \ {keep})
  /\ UNCHANGED <<rows, account, unseen, blind, late>>

RepairCommit(p) ==
  LET t == tx[p]
  IN  /\ t.kind = "replace" /\ t.account = NoAccount /\ Present(t)
      /\ account' = Replaced(t)
      /\ rows' = Pause(rows, t.others)
      /\ Rollback(p)
      /\ UNCHANGED <<unseen, blind, late>>

\* A round that loaded the account while it was active writes that it is
\* banned or logged out.
RoundMarks(a) ==
  /\ account[a] \in {"active", "replaced"}
  /\ account' = [account EXCEPT ![a] = "off"]
  /\ UNCHANGED <<rows, tx, unseen, blind, late>>

-----------------------------------------------------------------------------
Init ==
  /\ rows = [c \in Campaigns |-> FreshRow]
  /\ account = [a \in Accounts |-> "pending_login"]
  /\ tx = [p \in Procs |-> NoTx]
  /\ unseen = [c \in Campaigns |-> {}] /\ blind = [a \in Accounts |-> {}] /\ late = {}

Next ==
  \/ Stop
  \/ \E p \in Procs :
       \/ StartCommit(p) \/ TxFails(p) \/ LoginReads(p) \/ LoginCommitsHalf(p)
       \/ LoginCommit(p) \/ RepairBegin(p) \/ RepairCommit(p)
       \/ \E c \in Campaigns : StartBegin(p, c) \/ \E a \in Accounts : CreateBegin(p, c, a)
       \/ \E a \in Accounts : LoginBegin(p, a)
  \/ \E a \in Accounts :
       \/ DeleteCampaigns(a) \/ RoundMarks(a)
       \/ \E c \in Campaigns : CreateDraft(c, a)

Spec == Init /\ [][Next]_vars

-----------------------------------------------------------------------------
Tx == [kind : {"none", "start", "login", "replace"}, campaign : Campaigns \cup {NoCampaign},
       row : Row, account : Accounts \cup {NoAccount}, losers : SUBSET Accounts,
       others : SUBSET Campaigns, missed : SUBSET Campaigns, blind : SUBSET Accounts]

TypeOK ==
  /\ rows \in [Campaigns -> Row]
  /\ account \in [Accounts -> {"pending_login", "active", "replaced", "off"}]
  /\ tx \in [Procs -> Tx]
  /\ unseen \in [Campaigns -> SUBSET Campaigns]
  /\ blind \in [Accounts -> SUBSET Accounts] /\ late \subseteq Campaigns

(***************************************************************************)
(* Two campaigns of one account run only if their starts overlapped, so    *)
(* that the later commit did not see the earlier (campaigns.py:180-214).   *)
(***************************************************************************)
OneRunningPerAccount ==
  \A c, d \in Running(rows) :
    c # d /\ rows[c].account = rows[d].account => d \in unseen[c] \/ c \in unseen[d]

(***************************************************************************)
(* Two accounts are active only if their logins overlapped or one of them  *)
(* failed after sign-in: "bitta active siyosati" (accounts.py:1, 14-40).   *)
(***************************************************************************)
OneActiveAccount ==
  \A a, b \in Active : a # b => b \in blind[a] \/ a \in blind[b]

(***************************************************************************)
(* A campaign of a replaced account is paused with it; one that runs was   *)
(* started while or after the account was replaced, which start_campaign   *)
(* does not look at (accounts.py:34-39, 66-70, campaigns.py:180-214).      *)
(***************************************************************************)
ReplacedIsQuiet ==
  \A c \in Running(rows) : account[rows[c].account] = "replaced" => c \in late

\* What an open start or replacement has not read, it will not have seen.
StartsKnown ==
  \A p \in Procs : tx[p].kind = "start" =>
    /\ tx[p].campaign \in Campaigns
    /\ RunningOf(rows, tx[p].row.account) \ {tx[p].campaign} \subseteq
         tx[p].others \cup tx[p].missed

ReplacementsKnown ==
  \A p \in Procs : tx[p].kind = "replace" =>
    /\ tx[p].account # NoAccount =>
         Active \ {tx[p].account} \subseteq tx[p].losers \cup tx[p].blind
    /\ RunningUnder(tx[p].losers) \subseteq tx[p].others \cup late

LoginsKnown == \A p \in Procs : tx[p].kind = "login" => tx[p].account \in Accounts

(***************************************************************************)
(* The inductive invariant: an open transaction knows the rows it will     *)
(* change, or history records what it did not see.                         *)
(***************************************************************************)
IInv ==
  /\ TypeOK /\ OneRunningPerAccount /\ OneActiveAccount /\ ReplacedIsQuiet
  /\ StartsKnown /\ ReplacementsKnown /\ LoginsKnown
=============================================================================
