-------------------------------- MODULE Dialogs --------------------------------
(***************************************************************************)
(* The dialogs of one bot user: the finite state machine of aiogram (a     *)
(* state and a dictionary, in the bot's memory or Redis), the handlers of  *)
(* bot/handlers in the order of their routers, the access middleware, and  *)
(* what the handlers do to campaigns, groups, accounts and payments.       *)
(*                                                                         *)
(* A handler works on the database and on its memory without giving up the *)
(* event loop, so it is one step, but for two: xab_new_start sleeps before *)
(* it deletes, and campaign_interval asks Telegram for titles while its    *)
(* transaction is open.  Buttons of old messages stay in the chat and can  *)
(* be tapped in any state.                                                 *)
(***************************************************************************)
EXTENDS CampaignRows, Naturals

CONSTANTS
  NoAccount, NoCampaign,
  Tariffs,    \* months on offer
  Connected,  \* the account connected when the model begins, if any
  Defaults,   \* groups that a login creates
  Gates,      \* what the middleware may find
  MaxSleep    \* bound: accounts whose deletion sleeps at once

ASSUME DialogsAssumption ==
  /\ NoAccount \notin Accounts /\ NoCampaign \notin Campaigns
  /\ Connected \subseteq Accounts /\ Cardinality(Connected) <= 1
  /\ 0 \notin Tariffs /\ Defaults \subseteq Groups
  /\ Gates \subseteq {"open", "expired", "blocked", "off"} /\ "open" \in Gates
  /\ MaxSleep \in Nat

VARIABLES
  state, data,     \* FSMContext
  rows,            \* campaigns
  there,           \* rows of groups; "spent" ids were deleted
  spent,
  account,         \* account -> "new", "pending_login", "active", "off"
  request,         \* tariff of the pending payment request, 0 when there is none
  gate,            \* what AccessMiddleware finds
  sleeping,        \* accounts with a deletion between revoke and DELETE
  creating,        \* the open transaction of campaign_interval
  logins,          \* accounts with a complete_login_task
  frozen,          \* the event loop waits for a row lock that it holds itself
  intent,          \* history: what the user asked for last
  latest           \* history: account of the deletion that was asked for last, if no
                   \* dialog was touched since

dialog == <<state, data, intent>>
fsm == <<dialog, latest>>
db == <<rows, there, spent, account, request>>
running == <<sleeping, creating, logins, frozen>>
vars == <<fsm, db, gate, running>>

Texts == {"message_text", "enter_group_chat_id", "interval", "editing_text", "editing_interval"}
Login == {"phone", "code"}
Payment == {"waiting_phone", "waiting_screenshot"}
Choosing == {"select_groups", "enter_group_chat_id"}
States == Texts \cup Login \cup Payment \cup {"none", "select_groups"}

NoData == [account |-> NoAccount, edit |-> NoCampaign, editing |-> NoCampaign,
           selected |-> {}, text |-> FALSE, tariff |-> 0, login |-> NoAccount]

Nothing == <<"nothing", "none">>

Idle == [on |-> FALSE, campaign |-> NoCampaign, account |-> NoAccount, groups |-> {},
         others |-> {}]

Active == {a \in Accounts : account[a] = "active"}

-----------------------------------------------------------------------------
(* The middleware *)

PayingUpdates == {"/start", "tariff", "help", "cancel", "contact", "photo", "tariff_cb"}

\* AccessMiddleware
Passes(update) ==
  \/ gate = "open"
  \/ gate = "expired" /\ update \in PayingUpdates
  \/ gate = "off" /\ update = "/start"

Handles(update) == ~frozen /\ Passes(update)

\* An admin blocks, the switch of the bot, the end of a demo, an approval.
GateChanges ==
  /\ ~frozen /\ gate' \in Gates
  /\ UNCHANGED <<fsm, db, running>>

-----------------------------------------------------------------------------
(* Steps of the state machine *)

Goto(s, d, i) == state' = s /\ data' = d /\ intent' = i /\ latest' = NoAccount

Clear == Goto("none", NoData, Nothing)

Only(fsmChange) == fsmChange /\ UNCHANGED <<db, gate, running>>

\* /start and xab:home
CmdStart == (Handles("/start") \/ Handles("callback")) /\ Only(Clear)

\* «Bekor qilish», or a menu text that no other router takes
CancelText ==
  /\ Handles("cancel") /\ state \in Texts \cup Login \cup Payment
  /\ Only(Clear)

\* _present_xabar_menu on a cleared dialog
XabarMenu(a) ==
  IF OfAccount(rows, a) = {}
  THEN Goto("message_text", [NoData EXCEPT !.account = a], <<"new", a>>)
  ELSE Goto("none", [NoData EXCEPT !.account = a], Nothing)

\* xabar_entry.  The routers of login and payment come first.
XabarEntry ==
  /\ Handles("text") /\ state \notin Payment
  /\ IF Active = {} \/ state \in Login THEN Only(Clear)
     ELSE \E a \in Active : Only(XabarMenu(a))

\* xabar_pick_account
XabarPickAccount ==
  Handles("callback") /\ \E a \in Active : Only(XabarMenu(a))

\* xab_txt_start, xab_int_start
XabEditStart(c) ==
  /\ Handles("callback") /\ Live(rows, c)
  /\ \E s \in {"editing_text", "editing_interval"} :
       Only(Goto(s, [data EXCEPT !.edit = c], <<s, c>>))

\* Mutant: the account of the dialog before is kept.
XabGrpStart_Account(c) ==
  /\ Handles("callback") /\ Live(rows, c)
  /\ Only(Goto("select_groups",
               [data EXCEPT !.editing = c, !.selected = rows[c].groups, !.text = FALSE],
               <<"groups", c>>))

\* xab_grp_start
XabGrpStart(c) ==
  /\ Handles("callback") /\ Live(rows, c)
  /\ Only(Goto("select_groups",
               [data EXCEPT !.editing = c, !.account = rows[c].account,
                            !.selected = rows[c].groups, !.text = FALSE],
               <<"groups", c>>))

\* nav_campaign names no account; the dialog goes on with the one it had.
NavCampaign ==
  /\ Handles("callback")
  /\ Only(Goto("message_text", data, <<"new", NoAccount>>))

\* Mutant: an edit of groups that was left is not forgotten.
CampaignMessage_Editing ==
  /\ Handles("text") /\ state = "message_text"
  /\ Only(IF data.account = NoAccount THEN Clear
          ELSE Goto("select_groups", [data EXCEPT !.text = TRUE, !.selected = {}], intent))

\* campaign_message
CampaignMessage ==
  /\ Handles("text") /\ state = "message_text"
  /\ Only(IF data.account = NoAccount THEN Clear
          ELSE Goto("select_groups",
                    [data EXCEPT !.text = TRUE, !.selected = {}, !.editing = NoCampaign], intent))

Flip(S, g) == IF g \in S THEN S \ {g} ELSE S \cup {g}

\* grp_toggle, also for a group that is gone or of another account
GrpToggle(g) ==
  /\ Handles("callback") /\ state = "select_groups" /\ g \in there \cup spent
  /\ Only(Goto(state, [data EXCEPT !.selected = Flip(@, g)], intent))

\* grp_add
GrpAdd ==
  /\ Handles("callback") /\ state = "select_groups"
  /\ Only(Goto("enter_group_chat_id", data, intent))

\* grp_cancel
GrpCancel == Handles("callback") /\ state = "select_groups" /\ Only(Clear)

\* grp_done of a new campaign
GrpDoneNew ==
  /\ Handles("callback") /\ state = "select_groups"
  /\ data.selected # {} /\ data.editing = NoCampaign
  /\ Only(Goto("interval", data, intent))

-----------------------------------------------------------------------------
(* Handlers that write.  A row that an open creation has written, or a group *)
(* that it has linked, is locked.                                            *)

LockedRows(S) == creating.on /\ S \cap creating.others # {}
LockedGroup(g) == creating.on /\ g \in creating.groups

\* Stop and resume write these rows.
WrittenBy(c) == IF rows[c].status = "running" THEN {c} ELSE {c} \cup Others(rows, c)

\* The loop waits for the transaction of a handler that waits for the loop.
Freeze ==
  /\ creating.on /\ ~frozen
  /\ \/ Handles("text") /\ LockedRows(Running(rows))
     \/ Handles("callback") /\ \E c \in Campaigns : Live(rows, c) /\ LockedRows(WrittenBy(c))
     \/ \E a \in Accounts : a \in sleeping /\ LockedRows(OfAccount(rows, a))
     \/ \E g \in there : LockedGroup(g)
  /\ frozen' = TRUE
  /\ UNCHANGED <<fsm, db, gate, sleeping, creating, logins>>

\* grp_done of an edit; a campaign that is gone changes nothing.
GrpDoneEdit ==
  /\ Handles("callback") /\ state = "select_groups"
  /\ data.selected # {} /\ data.editing # NoCampaign
  /\ Live(rows, data.editing)
  /\ rows' = ReplaceGroups(rows, data.editing, data.selected, there)
  /\ Clear
  /\ UNCHANGED <<there, spent, account, request, gate, running>>

\* save_edited_text, save_edited_interval: the values are not kept here.
SaveEdited ==
  /\ Handles("text") /\ state \in {"editing_text", "editing_interval"}
  /\ ~LockedRows({data.edit})
  /\ Only(Clear)

\* delete_user_group in the account of the dialog, also of a selected group
GrpDelete(g) ==
  /\ Handles("callback") /\ state = "select_groups"
  /\ g \in there /\ HomeOf[g] = data.account /\ ~LockedGroup(g)
  /\ there' = there \ {g} /\ spent' = spent \cup {g} /\ rows' = DropGroup(rows, g)
  /\ Goto(state, [data EXCEPT !.selected = @ \ {g}], intent)
  /\ UNCHANGED <<account, request, gate, running>>

\* grp_chat_id_enter: ensure_groups_for_account finds or makes the row.
GrpChatIdEnter(g) ==
  /\ Handles("text") /\ state = "enter_group_chat_id"
  /\ g \notin spent /\ HomeOf[g] = data.account
  /\ there' = there \cup {g}
  /\ Goto("select_groups", [data EXCEPT !.selected = @ \cup {g}], intent)
  /\ UNCHANGED <<rows, spent, account, request, gate, running>>

\* The transaction of campaign_interval for a fresh row c.
Creation(c) ==
  LET new == Create(rows, c, data.account, data.selected, there)
  IN  [on |-> TRUE, campaign |-> c, account |-> data.account,
       groups |-> new[c].groups, others |-> Others(new, c)]

Committed(t) ==
  StartOver(rows, t.campaign, [FreshRow EXCEPT !.account = t.account, !.groups = t.groups],
            t.others)

Fresh(c) == rows[c].status = "new" /\ creating.campaign # c

\* All titles are known: campaign_interval runs through.
CampaignInterval(c) ==
  /\ Handles("text") /\ state = "interval" /\ Fresh(c)
  /\ ~LockedRows(Creation(c).others)
  /\ rows' = Committed(Creation(c)) /\ Clear
  /\ UNCHANGED <<there, spent, account, request, gate, running>>

\* It asks for a title with its transaction open (one at a time).
CampaignIntervalBegin(c) ==
  /\ Handles("text") /\ state = "interval" /\ Fresh(c)
  /\ data.selected \cap there # {} /\ ~creating.on
  /\ creating' = Creation(c) /\ Clear
  /\ UNCHANGED <<db, gate, sleeping, logins, frozen>>

CampaignIntervalCommit ==
  /\ creating.on /\ ~frozen
  /\ rows' = Committed(creating) /\ creating' = Idle
  /\ UNCHANGED <<fsm, there, spent, account, request, gate, sleeping, logins, frozen>>

\* xab_new_start up to its sleep
XabNewStart(c) ==
  /\ Handles("callback") /\ Live(rows, c)
  /\ Cardinality(sleeping) < MaxSleep
  /\ sleeping' = sleeping \cup {rows[c].account} /\ latest' = rows[c].account
  /\ UNCHANGED <<dialog, db, gate, creating, logins, frozen>>

\* Two seconds later, whatever the user did meanwhile: a dialog that was touched
\* since is taken over.
XabNewDelete(a) ==
  /\ ~frozen /\ a \in sleeping /\ ~LockedRows(OfAccount(rows, a))
  /\ sleeping' = sleeping \ {a}
  /\ rows' = DeleteAll(rows, a)
  /\ Goto("message_text", [NoData EXCEPT !.account = a],
          <<IF latest = a THEN "new" ELSE "taken", a>>)
  /\ UNCHANGED <<there, spent, account, request, gate, creating, logins, frozen>>

\* execute_stop_answer, camp_pause_cb
Stop ==
  /\ \/ Handles("text") /\ rows' = Pause(rows, Running(rows)) /\ ~LockedRows(Running(rows))
     \/ \E c \in Campaigns :
          Handles("callback") /\ Live(rows, c) /\ ~LockedRows({c}) /\ rows' = Pause(rows, {c})
  /\ UNCHANGED <<fsm, there, spent, account, request, gate, running>>

\* execute_resume_answer, camp_resume_cb
Resume(c) ==
  /\ Handles("callback") /\ Live(rows, c) /\ rows[c].status # "running"
  /\ ~LockedRows(WrittenBy(c)) /\ rows' = Start(rows, c)
  /\ UNCHANGED <<fsm, there, spent, account, request, gate, running>>

\* admin: grpdel
AdminDeletesGroup(g) ==
  /\ ~frozen /\ g \in there /\ ~LockedGroup(g)
  /\ there' = there \ {g} /\ spent' = spent \cup {g} /\ rows' = DropGroup(rows, g)
  /\ UNCHANGED <<fsm, account, request, gate, running>>

-----------------------------------------------------------------------------
(* Login *)

\* link_account keeps what the dialog had.
LinkAccount ==
  Handles("text") /\ Only(Goto("phone", data, <<"login", "phone">>))

\* login_phone
LoginPhone(a) ==
  /\ Handles("text") /\ state = "phone" /\ account[a] = "new"
  /\ account' = [account EXCEPT ![a] = "pending_login"]
  /\ Goto("code", [data EXCEPT !.login = a], <<"login", a>>)
  /\ UNCHANGED <<rows, there, spent, request, gate, running>>

\* login_code
LoginCode ==
  /\ Handles("text") /\ state = "code"
  /\ logins' = IF data.login = NoAccount THEN logins ELSE logins \cup {data.login}
  /\ Clear
  /\ UNCHANGED <<db, gate, sleeping, creating, frozen>>

\* complete_login_task in a worker process, with deactivate_other_active_accounts
LoginCompletes(a) ==
  /\ a \in logins /\ logins' = logins \ {a}
  /\ account' = [b \in Accounts |-> IF b = a THEN "active"
                                    ELSE IF account[b] = "active" THEN "off" ELSE account[b]]
  /\ rows' = Pause(rows, {c \in Running(rows) : rows[c].account \in Active \ {a}})
  /\ there' = there \cup ((Defaults \cap GroupsOf(a)) \ spent)
  /\ UNCHANGED <<fsm, spent, request, gate, sleeping, creating, frozen>>

\* The task fails, or a round finds the session of the account closed.
AccountFails(a) ==
  /\ \/ a \in logins /\ logins' = logins \ {a} /\ UNCHANGED account
     \/ account[a] = "active" /\ account' = [account EXCEPT ![a] = "off"] /\ UNCHANGED logins
  /\ UNCHANGED <<fsm, rows, there, spent, request, gate, sleeping, creating, frozen>>

-----------------------------------------------------------------------------
(* Payment *)

\* open_tariff, cancel_tariff
OpenTariff == (Handles("tariff") \/ Handles("tariff_cb")) /\ Only(Clear)

\* tariff_chosen
TariffChosen(m) ==
  /\ Handles("tariff_cb")
  /\ Only(Goto("waiting_phone", [data EXCEPT !.tariff = m], <<"pay", m>>))

\* The contact goes into the dictionary with the state.
PhoneGiven == Goto("waiting_screenshot", data, intent)

\* payment_phone_contact
PaymentPhoneContact == Handles("contact") /\ state = "waiting_phone" /\ Only(PhoneGiven)

\* payment_phone_text
PaymentPhoneText == Handles("text") /\ state = "waiting_phone" /\ Only(PhoneGiven)

\* Mutant: the account is not looked at.
PaymentScreenshot_NoAccount ==
  /\ Handles("photo") /\ state = "waiting_screenshot"
  /\ request' = IF request = 0 /\ data.tariff \in Tariffs THEN data.tariff
                ELSE request
  /\ Clear
  /\ UNCHANGED <<rows, there, spent, account, gate, running>>

\* payment_screenshot with create_payment_request: all errors end the dialog.
PaymentScreenshot ==
  /\ Handles("photo") /\ state = "waiting_screenshot"
  /\ request' = IF request = 0 /\ data.tariff \in Tariffs /\ Active # {}
                THEN data.tariff ELSE request
  /\ Clear
  /\ UNCHANGED <<rows, there, spent, account, gate, running>>

\* admin: approve or reject
RequestResolved ==
  /\ ~frozen /\ request # 0 /\ request' = 0
  /\ UNCHANGED <<fsm, rows, there, spent, account, gate, running>>

-----------------------------------------------------------------------------
\* The bot is restarted by an admin (os._exit) or by its supervisor: the
\* handlers in progress are gone and the transaction rolls back.  The dialog is
\* gone too, unless it is kept in Redis (fsm_redis_url).
Restart ==
  /\ Clear \/ (UNCHANGED dialog /\ latest' = NoAccount)
  /\ sleeping' = {} /\ creating' = Idle /\ frozen' = FALSE
  /\ UNCHANGED <<db, gate, logins>>

Init ==
  /\ state = "none" /\ data = NoData /\ intent = Nothing /\ latest = NoAccount
  /\ rows = [c \in Campaigns |-> FreshRow]
  /\ there = {g \in Defaults : HomeOf[g] \in Connected} /\ spent = {}
  /\ account = [a \in Accounts |-> IF a \in Connected THEN "active" ELSE "new"]
  /\ request = 0
  /\ gate = "open" /\ sleeping = {} /\ creating = Idle
  /\ logins = {} /\ frozen = FALSE

CampaignDialog ==
  \/ XabarEntry \/ XabarPickAccount \/ NavCampaign \/ CampaignMessage
  \/ GrpAdd \/ GrpCancel \/ GrpDoneNew \/ GrpDoneEdit \/ SaveEdited
  \/ CampaignIntervalCommit \/ Stop \/ Freeze
  \/ \E c \in Campaigns :
       \/ XabEditStart(c) \/ XabGrpStart(c) \/ XabNewStart(c) \/ Resume(c)
       \/ CampaignInterval(c) \/ CampaignIntervalBegin(c)
  \/ \E g \in Groups :
       GrpToggle(g) \/ GrpDelete(g) \/ GrpChatIdEnter(g) \/ AdminDeletesGroup(g)
  \/ \E a \in Accounts : XabNewDelete(a)

LoginDialog ==
  \/ LinkAccount \/ LoginCode
  \/ \E a \in Accounts : LoginPhone(a) \/ LoginCompletes(a) \/ AccountFails(a)

PaymentDialog ==
  \/ OpenTariff \/ PaymentPhoneContact \/ PaymentPhoneText \/ PaymentScreenshot
  \/ RequestResolved
  \/ \E m \in Tariffs : TariffChosen(m)

Next ==
  \/ CmdStart \/ CancelText \/ GateChanges \/ Restart
  \/ CampaignDialog \/ LoginDialog \/ PaymentDialog

Spec == Init /\ [][Next]_vars

-----------------------------------------------------------------------------
Data == [account : Accounts \cup {NoAccount}, edit : Campaigns \cup {NoCampaign},
         editing : Campaigns \cup {NoCampaign}, selected : SUBSET Groups,
         text : BOOLEAN, tariff : Tariffs \cup {0},
         login : Accounts \cup {NoAccount}]

TypeOK ==
  /\ state \in States /\ data \in Data
  /\ rows \in [Campaigns -> Row] /\ there \subseteq Groups /\ spent \subseteq Groups
  /\ account \in [Accounts -> {"new", "pending_login", "active", "off"}]
  /\ request \in Tariffs \cup {0}
  /\ gate \in Gates
  /\ sleeping \subseteq Accounts
  /\ creating \in [on : BOOLEAN, campaign : Campaigns \cup {NoCampaign},
                   account : Accounts \cup {NoAccount}, groups : SUBSET Groups,
                   others : SUBSET Campaigns]
  /\ logins \subseteq Accounts /\ frozen \in BOOLEAN

\* The dialog of a new campaign that was asked for, or that a deletion opened.
\* nav_campaign asks for one without naming the account.
AsksNew ==
  intent \in {<<"new", data.account>>, <<"new", NoAccount>>, <<"taken", data.account>>}

(***************************************************************************)
(* Whatever buttons of old messages were tapped and whatever dialogs were  *)
(* left before, the dialog the user is in does what was asked for last: an *)
(* edit goes to the campaign whose button was tapped, a new campaign never *)
(* overwrites the groups of one that was being edited and has a text and   *)
(* an account, the groups listed are those of the edited campaign, a       *)
(* payment is for the tariff chosen last (campaign.py:339-375, 558-559,    *)
(* payment.py:116-117).  Only a deletion that ends its sleep after the     *)
(* user went on puts the user elsewhere (campaign.py:408-428), and then    *)
(* into the new campaign of the account that was emptied.                  *)
(***************************************************************************)
DialogAsAsked ==
  /\ state \in {"editing_text", "editing_interval"} => intent = <<state, data.edit>>
  /\ state = "message_text" => AsksNew
  /\ state \in Choosing /\ data.editing # NoCampaign =>
       intent = <<"groups", data.editing>> /\ data.account = rows[data.editing].account
  /\ state = "interval" \/ (state \in Choosing /\ data.editing = NoCampaign) =>
       AsksNew /\ data.account # NoAccount /\ data.editing = NoCampaign /\ data.text
  /\ state = "code" => intent = <<"login", data.login>>
  /\ state \in Payment => intent = <<"pay", data.tariff>>

(***************************************************************************)
(* A campaign is only linked to existing groups of its own account, though *)
(* the selection of a dialog may name groups that were deleted or belong   *)
(* to an account that has been replaced (campaigns.py:70-74, 168-176).     *)
(***************************************************************************)
LinksOfAccount ==
  \A c \in Campaigns : rows[c].groups \subseteq there \cap GroupsOf(rows[c].account)

(***************************************************************************)
(* A payment request is made once, for the tariff the user chose last, and *)
(* only with an active account (payment.py:163-205).                       *)
(***************************************************************************)
RequestAsAsked ==
  [][(request' # request /\ request' # 0) =>
       (request = 0 /\ intent = <<"pay", request'>> /\ Active # {})]_vars

\* A creation that is open has not left its row yet.
CreationIsFresh ==
  creating.on =>
    /\ creating.campaign \in Campaigns /\ rows[creating.campaign].status = "new"
    /\ creating.account \in Accounts
    /\ creating.groups \subseteq there \cap GroupsOf(creating.account)

EditedExists ==
  state \in Choosing /\ data.editing # NoCampaign => rows[data.editing].status # "new"

(***************************************************************************)
(* The inductive invariant behind the two above.                           *)
(***************************************************************************)
IInv == TypeOK /\ DialogAsAsked /\ LinksOfAccount /\ CreationIsFresh /\ EditedExists

(***************************************************************************)
(* A user who keeps typing the phone that the bot asks for gets on:        *)
(* "kontakt yoki matn" (messages.py:105).                                  *)
(***************************************************************************)
PhoneIsHeard == (state = "waiting_phone") ~> (state # "waiting_phone")

TypingSpec == Spec /\ SF_vars(PaymentPhoneText)
=============================================================================
