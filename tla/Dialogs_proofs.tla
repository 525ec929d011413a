---------------------------- MODULE Dialogs_proofs ----------------------------
(***************************************************************************)
(* Proofs about the dialogs of a bot user, for any accounts, campaigns,    *)
(* groups and tariffs.  Each handler sets the state, the dictionary and    *)
(* what was asked for together; the invariant ties them to the rows that   *)
(* other handlers, logins and admins change meanwhile.                     *)
(***************************************************************************)
EXTENDS Dialogs, CampaignRows_proofs

USE DialogsAssumption DEF Statuses, States, Texts, Login, Payment, Choosing, dialog, fsm, db,
    running

LEMMA NoDataTyped ==
  /\ NoData \in Data /\ NoData.editing = NoCampaign
  /\ \A a \in Accounts : /\ [NoData EXCEPT !.account = a] \in Data
                         /\ [NoData EXCEPT !.account = a].account = a
  BY DEF NoData, Data

\* A dialog that is cleared asks for nothing.
LEMMA ClearIsFine ==
  ASSUME Clear
  PROVE  state' \in States /\ data' \in Data /\ DialogAsAsked' /\ EditedExists'
  BY NoDataTyped DEF Clear, Goto, DialogAsAsked, EditedExists

\* A new campaign begins with the account of the button.
LEMMA NewIsFine ==
  ASSUME NEW a \in Accounts, NEW w \in {"new", "taken"},
         Goto("message_text", [NoData EXCEPT !.account = a], <<w, a>>)
  PROVE  state' \in States /\ data' \in Data /\ DialogAsAsked' /\ EditedExists'
  <1>1. /\ data' \in Data /\ data'.account = a
    BY NoDataTyped DEF Goto
  <1>2. state' = "message_text" /\ intent' \in {<<"new", a>>, <<"taken", a>>}
    BY DEF Goto
  <1> QED BY <1>1, <1>2 DEF DialogAsAsked, AsksNew, EditedExists

\* Rows change under a dialog; those it may name keep their account.
LEMMA RowsUnderDialog ==
  ASSUME IInv, UNCHANGED dialog,
         \A c \in Campaigns : rows[c].status # "new" =>
           rows'[c].status # "new" /\ rows'[c].account = rows[c].account
  PROVE  state' \in States /\ data' \in Data /\ DialogAsAsked' /\ EditedExists'
  <1>1. data \in Data /\ state \in States
    BY DEF IInv, TypeOK
  <1>2. data.editing \in Campaigns \cup {NoCampaign}
    BY <1>1 DEF Data
  <1>3. /\ state \in Choosing /\ data.editing # NoCampaign =>
             rows[data.editing].status # "new"
        /\ DialogAsAsked
    BY DEF IInv, EditedExists
  <1>4. EditedExists'
    BY <1>2, <1>3 DEF EditedExists
  <1>5. DialogAsAsked'
    BY <1>2, <1>3 DEF DialogAsAsked, AsksNew
  <1> QED BY <1>1, <1>4, <1>5

\* Links that stay or go, under groups that stay or come.
LEMMA LinksKept ==
  ASSUME IInv, there \subseteq there',
         \A c \in Campaigns :
           rows'[c].account = rows[c].account /\ rows'[c].groups \subseteq rows[c].groups
  PROVE  LinksOfAccount'
  BY DEF IInv, LinksOfAccount

\* The row of an open creation is still unused.
LEMMA CreationKept ==
  ASSUME IInv, UNCHANGED creating, there \subseteq there',
         \A c \in Campaigns : rows[c].status = "new" /\ c = creating.campaign =>
           rows'[c].status = "new"
  PROVE  CreationIsFresh'
  BY DEF IInv, CreationIsFresh

\* A handler that touches nothing but the dialog.
LEMMA FsmStep ==
  ASSUME IInv, UNCHANGED <<db, gate, running>>,
         state' \in States, data' \in Data, DialogAsAsked', EditedExists'
  PROVE  IInv'
  <1>1. TypeOK'
    BY DEF IInv, TypeOK
  <1>2. LinksOfAccount' /\ CreationIsFresh'
    BY DEF IInv, LinksOfAccount, CreationIsFresh
  <1> QED BY <1>1, <1>2 DEF IInv

\* A step that leaves the dialog alone and changes no row.
LEMMA QuietStep ==
  ASSUME IInv, UNCHANGED <<dialog, rows, there, spent, creating>>,
         account' \in [Accounts -> {"new", "pending_login", "active", "off"}],
         request' \in Tariffs \cup {0}, gate' \in Gates, sleeping' \subseteq Accounts,
         logins' \subseteq Accounts, frozen' \in BOOLEAN
  PROVE  IInv'
  <1>1. TypeOK'
    BY DEF IInv, TypeOK
  <1>2. DialogAsAsked' /\ EditedExists'
    BY DEF IInv, DialogAsAsked, AsksNew, EditedExists
  <1>3. LinksOfAccount' /\ CreationIsFresh'
    BY DEF IInv, LinksOfAccount, CreationIsFresh
  <1> QED BY <1>1, <1>2, <1>3 DEF IInv

LEMMA InitInvariant == Init => IInv
  <1> SUFFICES ASSUME Init PROVE IInv
    OBVIOUS
  <1> USE DEF Init
  <1>1. FreshRow \in Row /\ FreshRow.status = "new" /\ FreshRow.groups = {}
    BY RowsAssumption, FreshIsRow
  <1>2. data \in Data
    BY NoDataTyped
  <1>3. creating \in [on : BOOLEAN, campaign : Campaigns \cup {NoCampaign},
                      account : Accounts \cup {NoAccount}, groups : SUBSET Groups,
                      others : SUBSET Campaigns] /\ ~creating.on
    BY DEF Idle
  <1>4. TypeOK
    BY <1>1, <1>2, <1>3 DEF TypeOK
  <1>5. DialogAsAsked /\ EditedExists /\ LinksOfAccount /\ CreationIsFresh
    BY <1>1, <1>3 DEF DialogAsAsked, EditedExists, LinksOfAccount, CreationIsFresh
  <1> QED BY <1>4, <1>5 DEF IInv

-----------------------------------------------------------------------------
(* Handlers that only change the dialog *)

LEMMA EditStep ==
  ASSUME IInv, NEW c \in Campaigns, XabEditStart(c) \/ XabGrpStart(c)
  PROVE  IInv'
  <1>1. data \in Data /\ rows \in [Campaigns -> Row] /\ UNCHANGED <<db, gate, running>>
    BY DEF IInv, TypeOK, XabEditStart, XabGrpStart, Only
  <1>2. CASE XabEditStart(c)
    <2>1. PICK s \in {"editing_text", "editing_interval"} :
             Goto(s, [data EXCEPT !.edit = c], <<s, c>>)
      BY <1>2 DEF XabEditStart, Only
    <2>2. data' \in Data /\ data'.edit = c /\ state' = s /\ intent' = <<s, c>>
      BY <1>1, <2>1 DEF Goto, Data
    <2>3. DialogAsAsked' /\ EditedExists'
      BY <2>1, <2>2 DEF DialogAsAsked, EditedExists
    <2> QED BY <1>1, <2>2, <2>3, FsmStep
  <1>3. CASE XabGrpStart(c)
    <2>1. /\ state' = "select_groups" /\ intent' = <<"groups", c>>
          /\ data' = [data EXCEPT !.editing = c, !.account = rows[c].account,
                                  !.selected = rows[c].groups, !.text = FALSE]
          /\ rows[c].status # "new"
      BY <1>3 DEF XabGrpStart, Only, Goto, Live
    <2>2. rows[c].account \in Accounts /\ rows[c].groups \in SUBSET Groups
      BY <1>1 DEF Row
    <2>3. data' \in Data /\ data'.editing = c /\ data'.account = rows[c].account
      BY <1>1, <2>1, <2>2 DEF Data
    <2>4. rows' = rows
      BY <1>1
    <2>5. DialogAsAsked' /\ EditedExists'
      BY <2>1, <2>3, <2>4 DEF DialogAsAsked, EditedExists
    <2> QED BY <1>1, <2>1, <2>3, <2>5, FsmStep
  <1> QED BY <1>2, <1>3

LEMMA CampaignMessageStep == ASSUME IInv, CampaignMessage PROVE IInv'
  <1>1. /\ data \in Data /\ state = "message_text" /\ UNCHANGED <<db, gate, running>>
        /\ AsksNew
    BY DEF IInv, TypeOK, CampaignMessage, Only, DialogAsAsked
  <1>2. CASE Clear
    BY <1>1, <1>2, ClearIsFine, FsmStep
  <1>3. CASE data.account # NoAccount /\
             Goto("select_groups",
                  [data EXCEPT !.text = TRUE, !.selected = {}, !.editing = NoCampaign], intent)
    <2>1. /\ data' \in Data /\ data'.account = data.account /\ data'.text = TRUE
          /\ data'.editing = NoCampaign
      BY <1>1, <1>3 DEF Goto, Data
    <2>2. state' = "select_groups" /\ intent' = intent
      BY <1>3 DEF Goto
    <2>3. DialogAsAsked' /\ EditedExists'
      BY <1>1, <1>3, <2>1, <2>2 DEF DialogAsAsked, AsksNew, EditedExists
    <2> QED BY <1>1, <2>1, <2>2, <2>3, FsmStep
  <1> QED BY <1>2, <1>3 DEF CampaignMessage, Only

\* The choice of groups changes what is selected and nothing else.
LEMMA ChoosingStep ==
  ASSUME IInv, state \in Choosing, NEW s \in Choosing, NEW S \in SUBSET Groups,
         Goto(s, [data EXCEPT !.selected = S], intent), UNCHANGED rows
  PROVE  state' \in States /\ data' \in Data /\ DialogAsAsked' /\ EditedExists'
  <1>1. data \in Data /\ DialogAsAsked /\ EditedExists
    BY DEF IInv, TypeOK
  <1>2. /\ data' \in Data /\ data'.account = data.account /\ data'.editing = data.editing
        /\ data'.text = data.text
    BY <1>1 DEF Goto, Data
  <1>3. state' = s /\ intent' = intent
    BY DEF Goto
  <1>4. DialogAsAsked'
    BY <1>1, <1>2, <1>3 DEF DialogAsAsked, AsksNew
  <1>5. EditedExists'
    BY <1>1, <1>2, <1>3 DEF EditedExists
  <1> QED BY <1>2, <1>3, <1>4, <1>5

\* Handlers that end the dialog or leave it for another question
LEMMA DialogStep ==
  ASSUME IInv,
         \/ CmdStart \/ CancelText \/ GrpCancel \/ OpenTariff \/ SaveEdited
         \/ XabarEntry \/ XabarPickAccount \/ NavCampaign \/ GrpAdd \/ GrpDoneNew
         \/ LinkAccount \/ PaymentPhoneContact \/ PaymentPhoneText
         \/ \E m \in Tariffs : TariffChosen(m)
         \/ \E g \in Groups : GrpToggle(g)
  PROVE  IInv'
  <1>1. /\ data \in Data /\ state \in States /\ DialogAsAsked /\ EditedExists
        /\ Active \subseteq Accounts
    BY DEF IInv, TypeOK, Active
  <1>2. CASE Only(Clear)
    BY <1>2, ClearIsFine, FsmStep DEF Only
  <1>3. ASSUME NEW a \in Active, Only(XabarMenu(a)) PROVE IInv'
    <2>1. a \in Accounts /\ UNCHANGED <<db, gate, running>> /\ XabarMenu(a)
      BY <1>1, <1>3 DEF Only
    <2>2. CASE Goto("message_text", [NoData EXCEPT !.account = a], <<"new", a>>)
      BY <2>1, <2>2, NewIsFine, FsmStep
    <2>3. CASE Goto("none", [NoData EXCEPT !.account = a], Nothing)
      <3>1. state' = "none" /\ data' \in Data
        BY <2>1, <2>3, NoDataTyped DEF Goto
      <3>2. DialogAsAsked' /\ EditedExists'
        BY <3>1 DEF DialogAsAsked, EditedExists
      <3> QED BY <2>1, <3>1, <3>2, FsmStep
    <2> QED BY <2>1, <2>2, <2>3 DEF XabarMenu
  <1>4. CASE Only(Goto("message_text", data, <<"new", NoAccount>>))
    <2>1. /\ state' = "message_text" /\ data' = data /\ intent' = <<"new", NoAccount>>
          /\ UNCHANGED <<db, gate, running>>
      BY <1>4 DEF Only, Goto
    <2>2. DialogAsAsked' /\ EditedExists'
      BY <2>1 DEF DialogAsAsked, AsksNew, EditedExists
    <2> QED BY <1>1, <2>1, <2>2, FsmStep
  <1>5. CASE Only(Goto("phone", data, <<"login", "phone">>))
    <2>1. state' = "phone" /\ data' = data /\ UNCHANGED <<db, gate, running>>
      BY <1>5 DEF Only, Goto
    <2>2. DialogAsAsked' /\ EditedExists'
      BY <2>1 DEF DialogAsAsked, EditedExists
    <2> QED BY <1>1, <2>1, <2>2, FsmStep
  <1>6. CASE GrpDoneNew
    <2>1. /\ state = "select_groups" /\ data.editing = NoCampaign
          /\ state' = "interval" /\ data' = data /\ intent' = intent
          /\ UNCHANGED <<db, gate, running>>
      BY <1>6 DEF GrpDoneNew, Only, Goto
    <2>2. DialogAsAsked' /\ EditedExists'
      BY <1>1, <2>1 DEF DialogAsAsked, AsksNew, EditedExists
    <2> QED BY <1>1, <2>1, <2>2, FsmStep
  <1>7. CASE PaymentPhoneContact \/ PaymentPhoneText
    <2>1. /\ state = "waiting_phone" /\ state' = "waiting_screenshot" /\ data' = data
          /\ intent' = intent /\ UNCHANGED <<db, gate, running>>
      BY <1>7 DEF PaymentPhoneContact, PaymentPhoneText, PhoneGiven, Only, Goto
    <2>2. DialogAsAsked' /\ EditedExists'
      BY <1>1, <2>1 DEF DialogAsAsked, AsksNew, EditedExists
    <2> QED BY <1>1, <2>1, <2>2, FsmStep
  <1>8. ASSUME NEW m \in Tariffs, TariffChosen(m) PROVE IInv'
    <2>1. /\ state' = "waiting_phone" /\ data' = [data EXCEPT !.tariff = m]
          /\ intent' = <<"pay", m>> /\ UNCHANGED <<db, gate, running>>
      BY <1>8 DEF TariffChosen, Only, Goto
    <2>2. data' \in Data /\ data'.tariff = m
      BY <1>1, <2>1 DEF Data
    <2>3. DialogAsAsked' /\ EditedExists'
      BY <2>1, <2>2 DEF DialogAsAsked, EditedExists
    <2> QED BY <2>1, <2>2, <2>3, FsmStep
  <1>9. CASE GrpAdd
    <2>1. /\ state = "select_groups" /\ state' = "enter_group_chat_id" /\ data' = data
          /\ intent' = intent /\ UNCHANGED <<db, gate, running>>
      BY <1>9 DEF GrpAdd, Only, Goto
    <2>2. DialogAsAsked' /\ EditedExists'
      BY <1>1, <2>1 DEF DialogAsAsked, AsksNew, EditedExists
    <2> QED BY <1>1, <2>1, <2>2, FsmStep
  <1>10. ASSUME NEW g \in Groups, GrpToggle(g) PROVE IInv'
    <2>1. /\ state = "select_groups" /\ UNCHANGED <<db, gate, running>>
          /\ Goto(state, [data EXCEPT !.selected = Flip(data.selected, g)], intent)
      BY <1>10 DEF GrpToggle, Only
    <2>2. Flip(data.selected, g) \in SUBSET Groups
      BY <1>1 DEF Flip, Data
    <2>3. rows' = rows
      BY <2>1
    <2>4. state' \in States /\ data' \in Data /\ DialogAsAsked' /\ EditedExists'
      BY <2>1, <2>2, <2>3, ChoosingStep
    <2> QED BY <2>1, <2>4, FsmStep
  <1> QED
    BY <1>2, <1>3, <1>4, <1>5, <1>6, <1>7, <1>8, <1>9, <1>10
    DEF CmdStart, CancelText, GrpCancel, OpenTariff, SaveEdited, XabarEntry,
        XabarPickAccount, NavCampaign, LinkAccount

\* What runs beside the dialog and writes no campaign
LEMMA BesideStep ==
  ASSUME IInv,
         \/ GateChanges \/ Freeze \/ RequestResolved
         \/ \E c \in Campaigns : XabNewStart(c)
         \/ \E a \in Accounts : AccountFails(a)
  PROVE  IInv'
  <1>1. /\ account \in [Accounts -> {"new", "pending_login", "active", "off"}]
        /\ request \in Tariffs \cup {0} /\ gate \in Gates /\ sleeping \subseteq Accounts
        /\ logins \subseteq Accounts /\ frozen \in BOOLEAN /\ rows \in [Campaigns -> Row]
    BY DEF IInv, TypeOK
  <1>2. CASE GateChanges
    BY <1>1, <1>2, QuietStep DEF GateChanges
  <1>3. CASE Freeze
    BY <1>1, <1>3, QuietStep DEF Freeze
  <1>4. CASE RequestResolved
    BY <1>1, <1>4, QuietStep DEF RequestResolved
  <1>5. ASSUME NEW c \in Campaigns, XabNewStart(c) PROVE IInv'
    <2>1. rows[c].account \in Accounts
      BY <1>1 DEF Row
    <2> QED BY <1>1, <1>5, <2>1, QuietStep DEF XabNewStart
  <1>6. ASSUME NEW a \in Accounts, AccountFails(a) PROVE IInv'
    <2>1. /\ account' \in [Accounts -> {"new", "pending_login", "active", "off"}]
          /\ logins' \subseteq Accounts
      BY <1>1, <1>6 DEF AccountFails
    <2> QED BY <1>1, <1>6, <2>1, QuietStep DEF AccountFails
  <1> QED BY <1>2, <1>3, <1>4, <1>5, <1>6

-----------------------------------------------------------------------------
(* Handlers that write campaigns and groups *)

\* Every part of the invariant for a step that leaves the other tables alone.
LEMMA Together ==
  ASSUME IInv, UNCHANGED <<gate, request>>,
         state' \in States, data' \in Data, DialogAsAsked', EditedExists',
         rows' \in [Campaigns -> Row], there' \subseteq Groups, spent' \subseteq Groups,
         account' \in [Accounts -> {"new", "pending_login", "active", "off"}],
         sleeping' \subseteq Accounts, logins' \subseteq Accounts, frozen' \in BOOLEAN,
         creating' \in [on : BOOLEAN, campaign : Campaigns \cup {NoCampaign},
                        account : Accounts \cup {NoAccount}, groups : SUBSET Groups,
                        others : SUBSET Campaigns],
         LinksOfAccount', CreationIsFresh'
  PROVE  IInv'
  BY DEF IInv, TypeOK

LEMMA Typed ==
  ASSUME IInv
  PROVE  /\ state \in States /\ data \in Data /\ rows \in [Campaigns -> Row]
         /\ there \subseteq Groups /\ spent \subseteq Groups
         /\ account \in [Accounts -> {"new", "pending_login", "active", "off"}]
         /\ sleeping \subseteq Accounts /\ logins \subseteq Accounts /\ frozen \in BOOLEAN
         /\ creating \in [on : BOOLEAN, campaign : Campaigns \cup {NoCampaign},
                          account : Accounts \cup {NoAccount}, groups : SUBSET Groups,
                          others : SUBSET Campaigns]
         /\ data.account \in Accounts \cup {NoAccount}
         /\ data.editing \in Campaigns \cup {NoCampaign} /\ data.selected \in SUBSET Groups
  BY DEF IInv, TypeOK, Data

LEMMA GrpDoneEditStep == ASSUME IInv, GrpDoneEdit PROVE IInv'
  <1> DEFINE c == data.editing
  <1>1. /\ c \in Campaigns /\ Clear /\ rows' = ReplaceGroups(rows, c, data.selected, there)
        /\ UNCHANGED <<there, spent, account, request, gate, running>>
    BY Typed DEF GrpDoneEdit
  <1> HIDE DEF c
  <1>2. /\ rows' \in [Campaigns -> Row]
        /\ \A d \in Campaigns :
             rows'[d].account = rows[d].account /\ rows'[d].status = rows[d].status
        /\ \A d \in Campaigns \ {c} : rows'[d].groups = rows[d].groups
        /\ rows'[c].groups \subseteq there \cap GroupsOf(rows[c].account)
    <2> DEFINE L == Linked(data.selected, there, rows[c].account)
               row == [rows[c] EXCEPT !.groups = L]
    <2>1. L \in SUBSET Groups /\ L \subseteq there \cap GroupsOf(rows[c].account)
      BY Typed DEF Linked
    <2>2. rows[c] \in Row /\ rows' = [rows EXCEPT ![c] = row]
      BY <1>1, Typed DEF ReplaceGroups
    <2> HIDE DEF L
    <2>3. row \in Row /\ row.account = rows[c].account /\ row.status = rows[c].status /\ row.groups = L
      BY <2>1, <2>2 DEF Row
    <2> HIDE DEF row
    <2>4. rows' \in [Campaigns -> Row] /\ rows'[c] = row /\ \A d \in Campaigns \ {c} : rows'[d] = rows[d]
      BY <1>1, <2>2, <2>3, Typed
    <2> QED BY <2>1, <2>3, <2>4
  <1>3. LinksOfAccount'
    BY <1>1, <1>2 DEF IInv, LinksOfAccount
  <1>4. CreationIsFresh'
    BY <1>1, <1>2, CreationKept
  <1>5. state' \in States /\ data' \in Data /\ DialogAsAsked' /\ EditedExists'
    BY <1>1, ClearIsFine
  <1> QED BY <1>1, <1>2, <1>3, <1>4, <1>5, Typed, Together

\* A deleted group takes its links with it; an open creation holds its own.
LEMMA GroupGoes ==
  ASSUME IInv, NEW g \in Groups, ~LockedGroup(g), there' = there \ {g},
         rows' = DropGroup(rows, g), UNCHANGED creating
  PROVE  /\ rows' \in [Campaigns -> Row]
         /\ \A c \in Campaigns :
              rows'[c].account = rows[c].account /\ rows'[c].status = rows[c].status
         /\ LinksOfAccount' /\ CreationIsFresh'
  <1>1. /\ rows' \in [Campaigns -> Row]
        /\ \A c \in Campaigns :
             /\ rows'[c].account = rows[c].account /\ rows'[c].status = rows[c].status
             /\ rows'[c].groups = rows[c].groups \ {g}
    BY Typed, DropRows
  <1>2. LinksOfAccount'
    BY <1>1 DEF IInv, LinksOfAccount
  <1>3. CreationIsFresh'
    BY <1>1 DEF IInv, CreationIsFresh, LockedGroup
  <1> QED BY <1>1, <1>2, <1>3

LEMMA GroupDeletedStep ==
  ASSUME IInv, NEW g \in Groups, GrpDelete(g) \/ AdminDeletesGroup(g)
  PROVE  IInv'
  <1>1. /\ ~LockedGroup(g) /\ there' = there \ {g} /\ spent' = spent \cup {g}
        /\ rows' = DropGroup(rows, g) /\ UNCHANGED <<account, request, gate, running>>
    BY DEF GrpDelete, AdminDeletesGroup
  <1>2. /\ rows' \in [Campaigns -> Row]
        /\ \A c \in Campaigns :
             rows'[c].account = rows[c].account /\ rows'[c].status = rows[c].status
        /\ LinksOfAccount' /\ CreationIsFresh'
    BY <1>1, GroupGoes
  <1>3. CASE AdminDeletesGroup(g)
    <2>1. state' \in States /\ data' \in Data /\ DialogAsAsked' /\ EditedExists'
      BY <1>2, <1>3, RowsUnderDialog DEF AdminDeletesGroup
    <2> QED BY <1>1, <1>2, <2>1, Typed, Together
  <1>4. CASE GrpDelete(g)
    <2>1. /\ state = "select_groups" /\ state' = state /\ intent' = intent
          /\ data' = [data EXCEPT !.selected = data.selected \ {g}]
      BY <1>4 DEF GrpDelete, Goto
    <2>2. /\ data' \in Data /\ data'.account = data.account /\ data'.editing = data.editing
          /\ data'.text = data.text
      BY <2>1, Typed DEF Data
    <2>3. DialogAsAsked'
      BY <1>2, <2>1, <2>2, Typed DEF IInv, DialogAsAsked, AsksNew
    <2>4. EditedExists'
      BY <1>2, <2>1, <2>2, Typed DEF IInv, EditedExists
    <2> QED BY <1>1, <1>2, <2>1, <2>2, <2>3, <2>4, Typed, Together
  <1> QED BY <1>3, <1>4

LEMMA GrpChatIdEnterStep == ASSUME IInv, NEW g \in Groups, GrpChatIdEnter(g) PROVE IInv'
  <1>1. /\ state = "enter_group_chat_id" /\ there' = there \cup {g}
        /\ Goto("select_groups", [data EXCEPT !.selected = data.selected \cup {g}], intent)
        /\ UNCHANGED <<rows, spent, account, request, gate, running>>
    BY DEF GrpChatIdEnter
  <1>2. data.selected \cup {g} \in SUBSET Groups
    BY Typed
  <1>3. state' \in States /\ data' \in Data /\ DialogAsAsked' /\ EditedExists'
    BY <1>1, <1>2, ChoosingStep
  <1>4. LinksOfAccount' /\ CreationIsFresh'
    BY <1>1, LinksKept, CreationKept
  <1> QED BY <1>1, <1>3, <1>4, Typed, Together

\* The row of a creation, its links and the campaigns that it stops
LEMMA CreationIs ==
  ASSUME IInv, NEW c \in Campaigns, rows[c].status = "new", state = "interval"
  PROVE  LET t == Creation(c)
         IN  /\ t \in [on : BOOLEAN, campaign : Campaigns \cup {NoCampaign},
                       account : Accounts \cup {NoAccount}, groups : SUBSET Groups,
                       others : SUBSET Campaigns]
             /\ t.on /\ t.campaign = c /\ t.account \in Accounts
             /\ t.groups \subseteq there \cap GroupsOf(t.account)
             /\ t.others \subseteq Running(rows)
  <1> DEFINE new == Create(rows, c, data.account, data.selected, there)
             O == Others(new, c)
  <1>1. data.account \in Accounts
    BY Typed DEF IInv, DialogAsAsked
  <1>2. /\ \A d \in Campaigns \ {c} : new[d] = rows[d]
        /\ new[c].groups \subseteq there \cap GroupsOf(data.account)
    <2> DEFINE L == Linked(data.selected, there, data.account)
               row == [status |-> "draft", account |-> data.account, groups |-> L]
    <2>1. L \subseteq there \cap GroupsOf(data.account)
      BY DEF Linked
    <2>2. new = [rows EXCEPT ![c] = row]
      BY DEF Create
    <2> HIDE DEF new, L
    <2>3. new[c] = row /\ \A d \in Campaigns \ {c} : new[d] = rows[d]
      BY <2>2, Typed
    <2> QED BY <2>1, <2>3
  <1>3. Creation(c) = [on |-> TRUE, campaign |-> c, account |-> data.account,
                       groups |-> new[c].groups, others |-> O]
    BY DEF Creation
  <1>4. O \subseteq Running(rows)
    <2> HIDE DEF new
    <2>1. O = {d \in Campaigns : new[d].status = "running" /\ new[d].account = new[c].account}
                \ {c}
      BY DEF Others, RunningOf, Running
    <2> QED BY <1>2, <2>1 DEF Running
  <1>5. Running(rows) \subseteq Campaigns
    BY DEF Running
  <1> HIDE DEF new, O
  <1> QED BY <1>1, <1>2, <1>3, <1>4, <1>5, Typed

\* The transaction commits over what others committed meanwhile.
LEMMA CommitStep ==
  ASSUME IInv, NEW t, t.campaign \in Campaigns, rows[t.campaign].status = "new",
         t.account \in Accounts, t.groups \subseteq there \cap GroupsOf(t.account),
         t.others \in SUBSET Campaigns, rows' = Committed(t), UNCHANGED there
  PROVE  /\ rows' \in [Campaigns -> Row] /\ LinksOfAccount'
         /\ \A d \in Campaigns :
              rows[d].status # "new" =>
                rows'[d].status # "new" /\ rows'[d].account = rows[d].account
         /\ \A d \in Campaigns \ {t.campaign} :
              d \notin t.others /\ rows[d].status = "new" => rows'[d].status = "new"
  <1> DEFINE row == [FreshRow EXCEPT !.account = t.account, !.groups = t.groups]
             c == t.campaign
  <1>1. row \in Row /\ row.account = t.account /\ row.groups = t.groups
    BY Typed DEF FreshRow, Row
  <1>2. rows' = StartOver(rows, c, row, t.others)
    BY DEF Committed
  <1> HIDE DEF row
  <1>3. /\ rows' \in [Campaigns -> Row]
        /\ rows'[c].status = "running" /\ rows'[c].account = row.account
        /\ rows'[c].groups = row.groups
        /\ \A d \in Campaigns \ {c} :
             /\ rows'[d].account = rows[d].account /\ rows'[d].groups = rows[d].groups
             /\ rows'[d].status = IF d \in t.others THEN "paused" ELSE rows[d].status
    BY <1>1, <1>2, Typed, StartRows
  <1>4. LinksOfAccount'
    BY <1>1, <1>3 DEF IInv, LinksOfAccount
  <1> QED BY <1>3, <1>4

LEMMA CampaignIntervalStep ==
  ASSUME IInv, NEW c \in Campaigns, CampaignInterval(c)
  PROVE  IInv'
  <1>1. /\ state = "interval" /\ rows[c].status = "new" /\ creating.campaign # c
        /\ rows' = Committed(Creation(c)) /\ Clear
        /\ UNCHANGED <<there, spent, account, request, gate, running>>
    BY DEF CampaignInterval, Fresh
  <1> DEFINE t == Creation(c)
  <1>2. /\ t \in [on : BOOLEAN, campaign : Campaigns \cup {NoCampaign},
                  account : Accounts \cup {NoAccount}, groups : SUBSET Groups,
                  others : SUBSET Campaigns]
        /\ t.campaign = c /\ t.account \in Accounts
        /\ t.groups \subseteq there \cap GroupsOf(t.account) /\ t.others \subseteq Running(rows)
    BY <1>1, CreationIs
  <1> HIDE DEF t
  <1>3. rows' = Committed(t)
    BY <1>1 DEF t
  <1>4. t.others \in SUBSET Campaigns
    BY <1>2
  <1>5. /\ rows' \in [Campaigns -> Row] /\ LinksOfAccount'
        /\ \A d \in Campaigns \ {c} :
             d \notin t.others /\ rows[d].status = "new" => rows'[d].status = "new"
    BY <1>1, <1>2, <1>3, <1>4, CommitStep
  <1>6. CreationIsFresh'
    BY <1>1, <1>2, <1>5, CreationKept DEF Running
  <1>7. state' \in States /\ data' \in Data /\ DialogAsAsked' /\ EditedExists'
    BY <1>1, ClearIsFine
  <1> QED BY <1>1, <1>5, <1>6, <1>7, Typed, Together

LEMMA CampaignIntervalBeginStep ==
  ASSUME IInv, NEW c \in Campaigns, CampaignIntervalBegin(c)
  PROVE  IInv'
  <1>1. /\ state = "interval" /\ rows[c].status = "new" /\ creating' = Creation(c) /\ Clear
        /\ UNCHANGED <<db, gate, sleeping, logins, frozen>>
    BY DEF CampaignIntervalBegin, Fresh
  <1>2. /\ creating' \in [on : BOOLEAN, campaign : Campaigns \cup {NoCampaign},
                          account : Accounts \cup {NoAccount}, groups : SUBSET Groups,
                          others : SUBSET Campaigns]
        /\ creating'.campaign = c /\ creating'.account \in Accounts
        /\ creating'.groups \subseteq there \cap GroupsOf(creating'.account)
    BY <1>1, CreationIs
  <1>3. CreationIsFresh'
    BY <1>1, <1>2 DEF CreationIsFresh
  <1>4. LinksOfAccount'
    BY <1>1, LinksKept
  <1>5. state' \in States /\ data' \in Data /\ DialogAsAsked' /\ EditedExists'
    BY <1>1, ClearIsFine
  <1> QED BY <1>1, <1>2, <1>3, <1>4, <1>5, Typed, Together

LEMMA CampaignIntervalCommitStep == ASSUME IInv, CampaignIntervalCommit PROVE IInv'
  <1>1. /\ creating.on /\ rows' = Committed(creating) /\ creating' = Idle
        /\ UNCHANGED <<fsm, there, spent, account, request, gate, sleeping, logins, frozen>>
    BY DEF CampaignIntervalCommit
  <1>2. /\ creating.campaign \in Campaigns /\ rows[creating.campaign].status = "new"
        /\ creating.account \in Accounts
        /\ creating.groups \subseteq there \cap GroupsOf(creating.account)
        /\ creating.others \in SUBSET Campaigns
    BY <1>1, Typed DEF IInv, CreationIsFresh
  <1>3. /\ rows' \in [Campaigns -> Row] /\ LinksOfAccount'
        /\ \A d \in Campaigns :
             rows[d].status # "new" =>
               rows'[d].status # "new" /\ rows'[d].account = rows[d].account
    BY <1>1, <1>2, CommitStep
  <1>4. state' \in States /\ data' \in Data /\ DialogAsAsked' /\ EditedExists'
    BY <1>1, <1>3, RowsUnderDialog
  <1>5. /\ Idle \in [on : BOOLEAN, campaign : Campaigns \cup {NoCampaign},
                     account : Accounts \cup {NoAccount}, groups : SUBSET Groups,
                     others : SUBSET Campaigns]
        /\ Idle.on = FALSE
    BY DEF Idle
  <1>6. CreationIsFresh'
    BY <1>1, <1>5 DEF CreationIsFresh
  <1> QED BY <1>1, <1>3, <1>4, <1>5, <1>6, Typed, Together

LEMMA XabNewDeleteStep == ASSUME IInv, NEW a \in Accounts, XabNewDelete(a) PROVE IInv'
  <1>1. /\ sleeping' = sleeping \ {a} /\ rows' = DeleteAll(rows, a)
        /\ \E w \in {"new", "taken"} :
             Goto("message_text", [NoData EXCEPT !.account = a], <<w, a>>)
        /\ UNCHANGED <<there, spent, account, request, gate, creating, logins, frozen>>
    BY DEF XabNewDelete
  <1>2. /\ rows' \in [Campaigns -> Row]
        /\ \A c \in Campaigns :
             /\ rows'[c].account = rows[c].account /\ rows'[c].groups \subseteq rows[c].groups
             /\ rows'[c].status = "new" <=> rows[c].status = "new"
    BY <1>1, Typed, DeleteRows
  <1>3. state' \in States /\ data' \in Data /\ DialogAsAsked' /\ EditedExists'
    BY <1>1, NewIsFine
  <1>4. LinksOfAccount' /\ CreationIsFresh'
    BY <1>1, <1>2, LinksKept, CreationKept
  <1> QED BY <1>1, <1>2, <1>3, <1>4, Typed, Together

\* Campaigns that stop keep their account and their links.
LEMMA PauseIsFine ==
  ASSUME IInv, NEW S \in SUBSET Campaigns, \A c \in S : rows[c].status # "new",
         rows' = Pause(rows, S), there \subseteq there', UNCHANGED <<dialog, creating>>
  PROVE  /\ rows' \in [Campaigns -> Row] /\ LinksOfAccount' /\ CreationIsFresh'
         /\ state' \in States /\ data' \in Data /\ DialogAsAsked' /\ EditedExists'
  <1>1. /\ rows' \in [Campaigns -> Row]
        /\ \A c \in Campaigns :
             /\ rows'[c].account = rows[c].account /\ rows'[c].groups = rows[c].groups
             /\ rows'[c].status = IF c \in S THEN "paused" ELSE rows[c].status
    BY Typed, PauseRows
  <1>2. LinksOfAccount' /\ CreationIsFresh'
    BY <1>1, LinksKept, CreationKept
  <1>3. state' \in States /\ data' \in Data /\ DialogAsAsked' /\ EditedExists'
    BY <1>1, RowsUnderDialog
  <1> QED BY <1>1, <1>2, <1>3

LEMMA StopStep == ASSUME IInv, Stop PROVE IInv'
  <1>1. UNCHANGED <<fsm, there, spent, account, request, gate, running>>
    BY DEF Stop
  <1>2. PICK S \in SUBSET Campaigns :
           rows' = Pause(rows, S) /\ \A c \in S : rows[c].status # "new"
    <2>1. CASE rows' = Pause(rows, Running(rows))
      BY <2>1 DEF Running
    <2>2. ASSUME NEW c \in Campaigns, Live(rows, c), rows' = Pause(rows, {c})
          PROVE  \E S \in SUBSET Campaigns :
                   rows' = Pause(rows, S) /\ \A d \in S : rows[d].status # "new"
      BY <2>2 DEF Live
    <2> QED BY <2>1, <2>2 DEF Stop
  <1> QED BY <1>1, <1>2, PauseIsFine, Typed, Together

LEMMA ResumeStep == ASSUME IInv, NEW c \in Campaigns, Resume(c) PROVE IInv'
  <1> DEFINE O == Others(rows, c)
  <1>1. /\ rows[c].status # "new" /\ rows' = StartOver(rows, c, rows[c], O)
        /\ UNCHANGED <<fsm, there, spent, account, request, gate, running>>
    BY DEF Resume, Live, Start
  <1>2. O \in SUBSET Campaigns /\ \A d \in O : rows[d].status = "running"
    BY DEF Others, RunningOf, Running
  <1>3. rows[c] \in Row
    BY Typed
  <1> HIDE DEF O
  <1>4. /\ rows' \in [Campaigns -> Row]
        /\ rows'[c].status = "running" /\ rows'[c].account = rows[c].account
        /\ rows'[c].groups = rows[c].groups
        /\ \A d \in Campaigns \ {c} :
             /\ rows'[d].account = rows[d].account /\ rows'[d].groups = rows[d].groups
             /\ rows'[d].status = IF d \in O THEN "paused" ELSE rows[d].status
    BY <1>1, <1>2, <1>3, Typed, StartRows
  <1>5. \A d \in Campaigns :
          /\ rows'[d].account = rows[d].account /\ rows'[d].groups = rows[d].groups
          /\ rows'[d].status = "new" <=> rows[d].status = "new"
    BY <1>1, <1>2, <1>4
  <1>6. LinksOfAccount' /\ CreationIsFresh'
    BY <1>1, <1>5, LinksKept, CreationKept
  <1>7. state' \in States /\ data' \in Data /\ DialogAsAsked' /\ EditedExists'
    BY <1>1, <1>5, RowsUnderDialog
  <1> QED BY <1>1, <1>4, <1>6, <1>7, Typed, Together

-----------------------------------------------------------------------------
(* Login, payment and restart *)

LEMMA LoginStep ==
  ASSUME IInv, LoginCode \/ \E a \in Accounts : LoginPhone(a) \/ LoginCompletes(a)
  PROVE  IInv'
  <1>1. ASSUME NEW a \in Accounts, LoginPhone(a) PROVE IInv'
    <2>1. /\ account' = [account EXCEPT ![a] = "pending_login"] /\ state' = "code"
          /\ data' = [data EXCEPT !.login = a] /\ intent' = <<"login", a>>
          /\ UNCHANGED <<rows, there, spent, request, gate, running>>
      BY <1>1 DEF LoginPhone, Goto
    <2>2. data' \in Data /\ data'.login = a
      BY <2>1, Typed DEF Data
    <2>3. DialogAsAsked' /\ EditedExists'
      BY <2>1, <2>2 DEF DialogAsAsked, EditedExists
    <2>4. account' \in [Accounts -> {"new", "pending_login", "active", "off"}]
      BY <2>1, Typed
    <2>5. LinksOfAccount' /\ CreationIsFresh'
      BY <2>1, LinksKept, CreationKept
    <2> QED BY <2>1, <2>2, <2>3, <2>4, <2>5, Typed, Together
  <1>2. CASE LoginCode
    <2>1. Clear /\ UNCHANGED <<db, gate, sleeping, creating, frozen>>
      BY <1>2 DEF LoginCode
    <2>2. logins' \subseteq Accounts
      <3>1. data.login \in Accounts \cup {NoAccount}
        BY Typed DEF Data
      <3> QED BY <1>2, <3>1, Typed DEF LoginCode
    <2>3. state' \in States /\ data' \in Data /\ DialogAsAsked' /\ EditedExists'
      BY <2>1, ClearIsFine
    <2>4. LinksOfAccount' /\ CreationIsFresh'
      BY <2>1, LinksKept, CreationKept
    <2> QED BY <2>1, <2>2, <2>3, <2>4, Typed, Together
  <1>3. ASSUME NEW a \in Accounts, LoginCompletes(a) PROVE IInv'
    <2> DEFINE S == {c \in Running(rows) : rows[c].account \in Active \ {a}}
    <2>1. /\ logins' = logins \ {a} /\ rows' = Pause(rows, S)
          /\ there' = there \cup ((Defaults \cap GroupsOf(a)) \ spent)
          /\ UNCHANGED <<fsm, spent, request, gate, sleeping, creating, frozen>>
      BY <1>3 DEF LoginCompletes
    <2>2. S \in SUBSET Campaigns /\ \A c \in S : rows[c].status # "new"
      BY DEF Running
    <2>3. account' \in [Accounts -> {"new", "pending_login", "active", "off"}]
      BY <1>3, Typed DEF LoginCompletes
    <2>4. there \subseteq there' /\ there' \subseteq Groups /\ logins' \subseteq Accounts
      BY <2>1, Typed
    <2> HIDE DEF S
    <2>5. /\ rows' \in [Campaigns -> Row] /\ LinksOfAccount' /\ CreationIsFresh'
          /\ state' \in States /\ data' \in Data /\ DialogAsAsked' /\ EditedExists'
      BY <2>1, <2>2, <2>4, PauseIsFine
    <2> QED BY <2>1, <2>3, <2>4, <2>5, Typed, Together
  <1> QED BY <1>1, <1>2, <1>3

LEMMA PaymentScreenshotStep == ASSUME IInv, PaymentScreenshot PROVE IInv'
  <1>1. Clear /\ UNCHANGED <<rows, there, spent, account, gate, running>>
    BY DEF PaymentScreenshot
  <1>2. request' \in Tariffs \cup {0}
    BY DEF PaymentScreenshot, IInv, TypeOK
  <1>3. state' \in States /\ data' \in Data /\ DialogAsAsked' /\ EditedExists'
    BY <1>1, ClearIsFine
  <1>4. LinksOfAccount' /\ CreationIsFresh'
    BY <1>1, LinksKept, CreationKept
  <1> QED BY <1>1, <1>2, <1>3, <1>4 DEF IInv, TypeOK

LEMMA RestartStep == ASSUME IInv, Restart PROVE IInv'
  <1>1. /\ Clear \/ UNCHANGED dialog
        /\ sleeping' = {} /\ creating' = Idle /\ frozen' = FALSE
        /\ UNCHANGED <<db, gate, logins>>
    BY DEF Restart
  <1>2. /\ Idle \in [on : BOOLEAN, campaign : Campaigns \cup {NoCampaign},
                     account : Accounts \cup {NoAccount}, groups : SUBSET Groups,
                     others : SUBSET Campaigns]
        /\ Idle.on = FALSE
    BY DEF Idle
  <1>3. state' \in States /\ data' \in Data /\ DialogAsAsked' /\ EditedExists'
    BY <1>1, ClearIsFine, RowsUnderDialog
  <1>4. LinksOfAccount' /\ CreationIsFresh'
    BY <1>1, <1>2, LinksKept DEF CreationIsFresh
  <1> QED BY <1>1, <1>2, <1>3, <1>4, Typed, Together

-----------------------------------------------------------------------------
LEMMA StutterStep == ASSUME IInv, UNCHANGED vars PROVE IInv'
  BY Typed, QuietStep DEF vars, IInv, TypeOK

LEMMA StepInvariant == IInv /\ [Next]_vars => IInv'
  <1> SUFFICES ASSUME IInv, [Next]_vars PROVE IInv'
    OBVIOUS
  <1>1. CASE UNCHANGED vars
    BY <1>1, StutterStep
  <1>2. CASE CmdStart \/ CancelText \/ GateChanges \/ Restart
    BY <1>2, DialogStep, BesideStep, RestartStep
  <1>3. CASE \/ XabarEntry \/ XabarPickAccount \/ NavCampaign \/ CampaignMessage
             \/ GrpAdd \/ GrpCancel \/ GrpDoneNew \/ GrpDoneEdit \/ SaveEdited
             \/ CampaignIntervalCommit \/ Stop \/ Freeze
    BY <1>3, DialogStep, CampaignMessageStep, GrpDoneEditStep, CampaignIntervalCommitStep,
       StopStep, BesideStep
  <1>4. ASSUME NEW c \in Campaigns,
               \/ XabEditStart(c) \/ XabGrpStart(c) \/ XabNewStart(c) \/ Resume(c)
               \/ CampaignInterval(c) \/ CampaignIntervalBegin(c)
        PROVE  IInv'
    BY <1>4, EditStep, BesideStep, ResumeStep, CampaignIntervalStep, CampaignIntervalBeginStep
  <1>5. ASSUME NEW g \in Groups,
               GrpToggle(g) \/ GrpDelete(g) \/ GrpChatIdEnter(g) \/ AdminDeletesGroup(g)
        PROVE  IInv'
    BY <1>5, DialogStep, GroupDeletedStep, GrpChatIdEnterStep
  <1>6. ASSUME NEW a \in Accounts, XabNewDelete(a) PROVE IInv'
    BY <1>6, XabNewDeleteStep
  <1>7. CASE CampaignDialog
    BY <1>3, <1>4, <1>5, <1>6, <1>7 DEF CampaignDialog
  <1>8. CASE LoginDialog
    BY <1>8, DialogStep, LoginStep, BesideStep DEF LoginDialog
  <1>9. CASE PaymentDialog
    BY <1>9, DialogStep, PaymentScreenshotStep, BesideStep DEF PaymentDialog
  <1> QED BY <1>1, <1>2, <1>7, <1>8, <1>9 DEF Next

(***************************************************************************)
(* The state, the dictionary and what was asked for agree in every state   *)
(* of the dialogs, whichever buttons and messages come in which order.     *)
(***************************************************************************)
THEOREM DialogsInvariant == Spec => []IInv
  BY InitInvariant, StepInvariant, PTL DEF Spec

(***************************************************************************)
(* A dialog does what was asked for last, unless a deletion that slept     *)
(* took it over (campaign.py:339-375, 408-428).                            *)
(***************************************************************************)
THEOREM AnswersWhatWasAsked == Spec => []DialogAsAsked
  <1>1. IInv => DialogAsAsked
    BY DEF IInv
  <1> QED BY <1>1, DialogsInvariant, PTL

(***************************************************************************)
(* Campaigns are linked to existing groups of their own account, whatever  *)
(* a dialog had selected (campaigns.py:70-74, 168-176).                    *)
(***************************************************************************)
THEOREM LinksStayInAccount == Spec => []LinksOfAccount
  <1>1. IInv => LinksOfAccount
    BY DEF IInv
  <1> QED BY <1>1, DialogsInvariant, PTL

LEMMA RequestStep ==
  IInv /\ [Next]_vars =>
    (request' # request /\ request' # 0 =>
       request = 0 /\ intent = <<"pay", request'>> /\ Active # {})
  <1> SUFFICES ASSUME IInv, [Next]_vars, request' # request, request' # 0
               PROVE  request = 0 /\ intent = <<"pay", request'>> /\ Active # {}
    OBVIOUS
  <1>1. CASE PaymentScreenshot
    <2>1. state = "waiting_screenshot" /\ intent = <<"pay", data.tariff>>
      BY <1>1 DEF PaymentScreenshot, IInv, DialogAsAsked
    <2> QED BY <1>1, <2>1 DEF PaymentScreenshot
  <1>2. CASE UNCHANGED vars
    BY <1>2 DEF vars
  <1>3. ~CmdStart /\ ~CancelText /\ ~GateChanges /\ ~Restart
    BY DEF CmdStart, CancelText, GateChanges, Restart, Only
  <1>4. /\ ~XabarEntry /\ ~XabarPickAccount /\ ~NavCampaign /\ ~CampaignMessage
        /\ ~GrpAdd /\ ~GrpCancel /\ ~GrpDoneNew /\ ~GrpDoneEdit /\ ~SaveEdited
        /\ ~CampaignIntervalCommit /\ ~Stop /\ ~Freeze
    BY DEF XabarEntry, XabarPickAccount, NavCampaign, CampaignMessage, GrpAdd, GrpCancel,
           GrpDoneNew, GrpDoneEdit, SaveEdited, CampaignIntervalCommit, Stop, Freeze, Only
  <1>5. \A c \in Campaigns :
          /\ ~XabEditStart(c) /\ ~XabGrpStart(c) /\ ~XabNewStart(c) /\ ~Resume(c)
          /\ ~CampaignInterval(c) /\ ~CampaignIntervalBegin(c)
    BY DEF XabEditStart, XabGrpStart, XabNewStart, Resume, CampaignInterval,
           CampaignIntervalBegin, Only
  <1>6. /\ \A g \in Groups : /\ ~GrpToggle(g) /\ ~GrpDelete(g) /\ ~GrpChatIdEnter(g)
                             /\ ~AdminDeletesGroup(g)
        /\ \A a \in Accounts : ~XabNewDelete(a)
    BY DEF GrpToggle, GrpDelete, GrpChatIdEnter, AdminDeletesGroup, XabNewDelete, Only
  <1>7. ~LoginDialog
    BY DEF LoginDialog, LinkAccount, LoginCode, LoginPhone, LoginCompletes, AccountFails, Only
  <1>8. /\ ~OpenTariff /\ ~PaymentPhoneContact /\ ~PaymentPhoneText /\ ~RequestResolved
        /\ \A m \in Tariffs : ~TariffChosen(m)
    BY DEF OpenTariff, PaymentPhoneContact, PaymentPhoneText, RequestResolved, TariffChosen, Only
  <1>9. ~CampaignDialog
    BY <1>4, <1>5, <1>6 DEF CampaignDialog
  <1>10. PaymentDialog => PaymentScreenshot
    BY <1>8 DEF PaymentDialog
  <1> QED BY <1>1, <1>2, <1>3, <1>7, <1>9, <1>10 DEF Next

(***************************************************************************)
(* A request is for the tariff chosen last (payment.py:163-205).           *)
(***************************************************************************)
THEOREM RequestsAreAsked == Spec => RequestAsAsked
  BY DialogsInvariant, RequestStep, PTL DEF Spec, RequestAsAsked
===============================================================================
