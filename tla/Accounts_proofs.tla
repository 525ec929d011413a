---------------------------- MODULE Accounts_proofs ----------------------------
(* Proofs about overlapping transactions on accounts and campaigns. *)
EXTENDS Accounts, CampaignRows_proofs

USE DEF Statuses

LEMMA NoTxTyped == NoTx \in Tx /\ NoTx.kind = "none"
  <1>1. FreshRow \in Row
    BY RowsAssumption, FreshIsRow
  <1> QED BY <1>1 DEF NoTx, Tx

\* What a transaction may write is typed.
LEMMA ReadTyped ==
  ASSUME TypeOK, NEW p \in Procs, NEW c \in Campaigns, NEW row \in Row, Read(p, c, row)
  PROVE  /\ tx' \in [Procs -> Tx]
         /\ \A q \in Procs \ {p} : tx'[q] = tx[q]
         /\ tx'[p].kind = "start" /\ tx'[p].campaign = c /\ tx'[p].row = row
         /\ tx'[p].others = RunningOf(rows, row.account) \ {c}
         /\ tx'[p].losers = {}
  <1> DEFINE t == [NoTx EXCEPT !.kind = "start", !.campaign = c, !.row = row,
                               !.others = RunningOf(rows, row.account) \ {c}]
  <1>1. tx' = [tx EXCEPT ![p] = t]
    BY DEF Read
  <1>2. RunningOf(rows, row.account) \ {c} \in SUBSET Campaigns
    BY DEF RunningOf, Running
  <1>3. FreshRow \in Row
    BY RowsAssumption, FreshIsRow
  <1>4. /\ t \in Tx /\ t.kind = "start" /\ t.campaign = c /\ t.row = row
        /\ t.others = RunningOf(rows, row.account) \ {c} /\ t.losers = {}
    BY <1>2, <1>3 DEF NoTx, Tx
  <1>5. tx \in [Procs -> Tx]
    BY DEF TypeOK
  <1> QED BY <1>1, <1>4, <1>5

LEMMA ReplacingTyped ==
  ASSUME TypeOK, NEW p \in Procs, NEW a \in Accounts \cup {NoAccount},
         NEW S \in SUBSET Accounts, Replacing(p, "replace", a, S)
  PROVE  /\ tx' \in [Procs -> Tx]
         /\ \A q \in Procs \ {p} : tx'[q] = tx[q]
         /\ tx'[p].kind = "replace" /\ tx'[p].account = a /\ tx'[p].losers = S
         /\ tx'[p].others = RunningUnder(S)
  <1> DEFINE t == [NoTx EXCEPT !.kind = "replace", !.account = a, !.losers = S,
                               !.others = RunningUnder(S)]
  <1>1. tx' = [tx EXCEPT ![p] = t]
    BY DEF Replacing
  <1>2. RunningUnder(S) \in SUBSET Campaigns
    BY DEF RunningUnder, Running
  <1>3. FreshRow \in Row
    BY RowsAssumption, FreshIsRow
  <1>4. /\ t \in Tx /\ t.kind = "replace" /\ t.account = a /\ t.losers = S
        /\ t.others = RunningUnder(S)
    BY <1>2, <1>3 DEF NoTx, Tx
  <1>5. tx \in [Procs -> Tx]
    BY DEF TypeOK
  <1> QED BY <1>1, <1>4, <1>5

\* A process that is done holds nothing; the others note the new account.
LEMMA BecomesTyped ==
  ASSUME TypeOK, NEW p \in Procs, NEW a \in Accounts, BecomesActive(p, a)
  PROVE  /\ tx' \in [Procs -> Tx] /\ tx'[p] = NoTx
         /\ \A q \in Procs \ {p} :
              /\ tx'[q].kind = tx[q].kind /\ tx'[q].campaign = tx[q].campaign
              /\ tx'[q].row = tx[q].row /\ tx'[q].account = tx[q].account
              /\ tx'[q].losers = tx[q].losers /\ tx'[q].others = tx[q].others
              /\ tx'[q].missed = tx[q].missed
              /\ tx[q].kind = "replace" => tx'[q].blind = tx[q].blind \cup {a}
  <1>1. tx \in [Procs -> Tx]
    BY DEF TypeOK
  <1>2. /\ tx'[p] = NoTx
        /\ \A q \in Procs \ {p} :
             tx'[q] = IF tx[q].kind = "replace" THEN [tx[q] EXCEPT !.blind = @ \cup {a}]
                      ELSE tx[q]
    BY DEF BecomesActive
  <1>3. \A q \in Procs \ {p} :
          /\ tx'[q] \in Tx
          /\ tx'[q].kind = tx[q].kind /\ tx'[q].campaign = tx[q].campaign
          /\ tx'[q].row = tx[q].row /\ tx'[q].account = tx[q].account
          /\ tx'[q].losers = tx[q].losers /\ tx'[q].others = tx[q].others
          /\ tx'[q].missed = tx[q].missed
          /\ tx[q].kind = "replace" => tx'[q].blind = tx[q].blind \cup {a}
    <2> TAKE q \in Procs \ {p}
    <2>1. tx[q] \in Tx
      BY <1>1
    <2>2. CASE tx[q].kind = "replace"
      <3>1. tx'[q] = [tx[q] EXCEPT !.blind = @ \cup {a}]
        BY <1>2, <2>2
      <3> QED BY <2>1, <3>1 DEF Tx
    <2>3. CASE tx[q].kind # "replace"
      BY <1>2, <2>1, <2>3
    <2> QED BY <2>2, <2>3
  <1>4. tx' \in [Procs -> Tx]
    <2>1. tx' = [q \in Procs |-> tx'[q]]
      BY DEF BecomesActive
    <2> QED BY <1>2, <1>3, <2>1, NoTxTyped
  <1> QED BY <1>2, <1>3, <1>4

\* An accepted start: its rivals that were not read note the campaign.
LEMMA StartTyped ==
  ASSUME TypeOK, NEW p \in Procs, StartCommit(p), tx[p].campaign \in Campaigns
  PROVE  /\ tx' \in [Procs -> Tx] /\ tx'[p] = NoTx
         /\ \A q \in Procs \ {p} :
              /\ tx'[q].kind = tx[q].kind /\ tx'[q].campaign = tx[q].campaign
              /\ tx'[q].row = tx[q].row /\ tx'[q].account = tx[q].account
              /\ tx'[q].losers = tx[q].losers /\ tx'[q].others = tx[q].others
              /\ tx'[q].blind = tx[q].blind
              /\ tx[q].missed \subseteq tx'[q].missed
              /\ tx[q].kind = "start" /\ tx[q].row.account = tx[p].row.account
                   => tx[p].campaign \in tx'[q].missed
  <1> DEFINE c == tx[p].campaign
  <1>1. tx \in [Procs -> Tx]
    BY DEF TypeOK
  <1>2. /\ tx'[p] = NoTx
        /\ \A q \in Procs \ {p} :
             tx'[q] = IF tx[q].kind = "start" /\ tx[q].row.account = tx[p].row.account
                      THEN [tx[q] EXCEPT !.missed = @ \cup {c}] ELSE tx[q]
    BY DEF StartCommit
  <1>3. \A q \in Procs \ {p} :
          /\ tx'[q] \in Tx
          /\ tx'[q].kind = tx[q].kind /\ tx'[q].campaign = tx[q].campaign
          /\ tx'[q].row = tx[q].row /\ tx'[q].account = tx[q].account
          /\ tx'[q].losers = tx[q].losers /\ tx'[q].others = tx[q].others
          /\ tx'[q].blind = tx[q].blind
          /\ tx[q].missed \subseteq tx'[q].missed
          /\ tx[q].kind = "start" /\ tx[q].row.account = tx[p].row.account
               => c \in tx'[q].missed
    <2> TAKE q \in Procs \ {p}
    <2>1. tx[q] \in Tx
      BY <1>1
    <2>2. CASE tx[q].kind = "start" /\ tx[q].row.account = tx[p].row.account
      <3>1. tx'[q] = [tx[q] EXCEPT !.missed = @ \cup {c}]
        BY <1>2, <2>2
      <3> QED BY <2>1, <3>1 DEF Tx
    <2>3. CASE ~(tx[q].kind = "start" /\ tx[q].row.account = tx[p].row.account)
      BY <1>2, <2>1, <2>3
    <2> QED BY <2>2, <2>3
  <1>4. tx' \in [Procs -> Tx]
    <2>1. tx' = [q \in Procs |-> tx'[q]]
      BY DEF StartCommit
    <2> QED BY <1>2, <1>3, <2>1, NoTxTyped
  <1> QED BY <1>2, <1>3, <1>4

LEMMA InitInvariant == Init => IInv
  <1> SUFFICES ASSUME Init PROVE IInv
    OBVIOUS
  <1> USE DEF Init
  <1>1. TypeOK
    BY NoTxTyped, RowsAssumption, FreshIsRow DEF TypeOK
  <1>2. Running(rows) = {}
    BY RowsAssumption, FreshIsRow DEF Running
  <1>3. Active = {}
    BY DEF Active
  <1>4. \A p \in Procs : tx[p].kind = "none"
    BY NoTxTyped
  <1> QED BY <1>1, <1>2, <1>3, <1>4 DEF IInv, OneRunningPerAccount, OneActiveAccount,
             ReplacedIsQuiet, StartsKnown, ReplacementsKnown, LoginsKnown

\* A transaction that has just read the running campaigns of the account.
LEMMA StartBeginStep ==
  ASSUME IInv, NEW p \in Procs, NEW c \in Campaigns, NEW row \in Row,
         Read(p, c, row), UNCHANGED <<rows, account, unseen, blind, late>>
  PROVE  IInv'
  <1> USE DEF IInv
  <1>1. /\ tx' \in [Procs -> Tx]
        /\ \A q \in Procs \ {p} : tx'[q] = tx[q]
        /\ tx'[p].kind = "start" /\ tx'[p].campaign = c /\ tx'[p].row = row
        /\ tx'[p].others = RunningOf(rows, row.account) \ {c}
        /\ tx'[p].losers = {}
    BY ReadTyped
  <1>2. TypeOK'
    BY <1>1 DEF TypeOK
  <1>3. OneRunningPerAccount' /\ OneActiveAccount' /\ ReplacedIsQuiet'
    BY DEF OneRunningPerAccount, OneActiveAccount, ReplacedIsQuiet, Active
  <1>4. StartsKnown'
    BY <1>1 DEF StartsKnown
  <1>5. ReplacementsKnown'
    BY <1>1 DEF ReplacementsKnown, Active, RunningUnder
  <1>6. LoginsKnown'
    BY <1>1 DEF LoginsKnown
  <1> QED BY <1>2, <1>3, <1>4, <1>5, <1>6

\* The campaign that starts is noted by all who did not read it.
LEMMA StartCommitStep ==
  ASSUME IInv, NEW p \in Procs, StartCommit(p)
  PROVE  IInv'
  <1> DEFINE t == tx[p]
             c == t.campaign
             acc == t.row.account
  <1> USE DEF IInv
  <1>1. t \in Tx /\ t.row \in Row /\ c \in Campaigns /\ acc \in Accounts
        /\ t.others \in SUBSET Campaigns /\ t.missed \in SUBSET Campaigns
        /\ rows \in [Campaigns -> Row]
    BY DEF TypeOK, Tx, Row, StartCommit, StartsKnown
  <1>2. RunningOf(rows, acc) \ {c} \subseteq t.others \cup t.missed
    BY DEF StartsKnown, StartCommit
  <1>3. /\ rows' \in [Campaigns -> Row]
        /\ Running(rows') = (Running(rows) \ t.others) \cup {c}
        /\ rows'[c].account = acc
        /\ \A d \in Campaigns \ {c} : rows'[d].account = rows[d].account
    <2>1. rows' = StartOver(rows, c, t.row, t.others)
      BY DEF StartCommit
    <2> DEFINE T == StartOver(rows, c, t.row, t.others)
    <2>2. /\ T \in [Campaigns -> Row]
          /\ Running(T) = (Running(rows) \ t.others) \cup {c}
          /\ T[c].account = t.row.account
          /\ \A d \in Campaigns \ {c} : T[d].account = rows[d].account
      BY <1>1, StartRows
    <2> QED BY <2>1, <2>2
  <1>4. unseen' = [unseen EXCEPT ![c] = t.missed] /\ UNCHANGED <<account, blind>>
    BY DEF StartCommit
  <1>5. /\ tx' \in [Procs -> Tx] /\ tx'[p] = NoTx
        /\ \A q \in Procs \ {p} :
             /\ tx'[q].kind = tx[q].kind /\ tx'[q].campaign = tx[q].campaign
             /\ tx'[q].row = tx[q].row /\ tx'[q].account = tx[q].account
             /\ tx'[q].losers = tx[q].losers /\ tx'[q].others = tx[q].others
             /\ tx'[q].blind = tx[q].blind
             /\ tx[q].missed \subseteq tx'[q].missed
             /\ tx[q].kind = "start" /\ tx[q].row.account = acc => c \in tx'[q].missed
    BY <1>1, StartTyped
  <1>6. /\ late' \subseteq Campaigns /\ late \ {c} \subseteq late'
        /\ account[acc] = "replaced" => c \in late'
        /\ \A q \in Procs : acc \in tx[q].losers => c \in late'
    <2>1. late \subseteq Campaigns
      BY DEF TypeOK
    <2> QED BY <1>1, <2>1 DEF StartCommit
  <1>7. Running(rows) \subseteq Campaigns
    BY DEF Running
  <1>8. TypeOK'
    BY <1>1, <1>3, <1>4, <1>5, <1>6 DEF TypeOK
  <1>9. OneRunningPerAccount'
    <2> SUFFICES ASSUME NEW d \in Running(rows'), NEW e \in Running(rows'),
                        d # e, rows'[d].account = rows'[e].account
                 PROVE  e \in unseen'[d] \/ d \in unseen'[e]
      BY DEF OneRunningPerAccount
    <2>1. \A x \in Running(rows') : x # c /\ rows'[x].account = acc => x \in unseen'[c]
      <3> TAKE x \in Running(rows')
      <3> HAVE x # c /\ rows'[x].account = acc
      <3>1. x \in RunningOf(rows, acc) \ {c} /\ x \notin t.others
        BY <1>3, <1>7 DEF RunningOf
      <3> QED BY <1>1, <1>2, <1>4, <3>1 DEF TypeOK
    <2>2. CASE d = c \/ e = c
      BY <1>3, <2>1, <2>2
    <2>3. CASE d # c /\ e # c
      <3>1. d \in Running(rows) /\ e \in Running(rows)
            /\ rows[d].account = rows[e].account
        BY <1>3, <1>7, <2>3
      <3>2. unseen'[d] = unseen[d] /\ unseen'[e] = unseen[e]
        BY <1>4, <1>7, <2>3, <3>1 DEF TypeOK
      <3> QED BY <3>1, <3>2 DEF OneRunningPerAccount
    <2> QED BY <2>2, <2>3
  <1>10. OneActiveAccount'
    BY <1>4 DEF OneActiveAccount, Active
  <1>11. ReplacedIsQuiet'
    <2> SUFFICES ASSUME NEW d \in Running(rows'), account'[rows'[d].account] = "replaced"
                 PROVE  d \in late'
      BY DEF ReplacedIsQuiet
    <2>1. CASE d = c
      BY <1>3, <1>4, <1>6, <2>1
    <2>2. CASE d # c
      <3>1. d \in Running(rows) /\ rows'[d].account = rows[d].account
        BY <1>3, <1>7, <2>2
      <3>2. d \in late
        BY <1>4, <3>1 DEF ReplacedIsQuiet
      <3> QED BY <1>6, <2>2, <3>2
    <2> QED BY <2>1, <2>2
  <1>12. StartsKnown'
    <2> SUFFICES ASSUME NEW q \in Procs, tx'[q].kind = "start"
                 PROVE  /\ tx'[q].campaign \in Campaigns
                        /\ RunningOf(rows', tx'[q].row.account) \ {tx'[q].campaign}
                             \subseteq tx'[q].others \cup tx'[q].missed
      BY DEF StartsKnown
    <2>1. q # p
      BY <1>5, NoTxTyped
    <2>2. /\ tx[q].kind = "start" /\ tx[q].campaign \in Campaigns
          /\ RunningOf(rows, tx[q].row.account) \ {tx[q].campaign}
               \subseteq tx[q].others \cup tx[q].missed
      BY <1>5, <2>1 DEF StartsKnown
    <2>3. ASSUME NEW d \in RunningOf(rows', tx[q].row.account) \ {tx[q].campaign}
          PROVE  d \in tx[q].others \cup tx'[q].missed
      <3>1. d \in Running(rows') /\ rows'[d].account = tx[q].row.account
        BY DEF RunningOf, Running
      <3>2. CASE d = c
        BY <1>3, <1>5, <2>1, <2>2, <3>1, <3>2
      <3>3. CASE d # c
        <4>1. d \in RunningOf(rows, tx[q].row.account)
          BY <1>3, <1>7, <3>1, <3>3 DEF RunningOf
        <4> QED BY <1>5, <2>1, <2>2, <4>1
      <3> QED BY <3>2, <3>3
    <2> QED BY <1>5, <2>1, <2>2, <2>3
  <1>13. ReplacementsKnown'
    <2> SUFFICES ASSUME NEW q \in Procs, tx'[q].kind = "replace"
                 PROVE  /\ tx'[q].account # NoAccount =>
                             Active' \ {tx'[q].account} \subseteq
                               tx'[q].losers \cup tx'[q].blind
                        /\ \A d \in Running(rows') : rows'[d].account \in tx'[q].losers
                             => d \in tx'[q].others \cup late'
      BY DEF ReplacementsKnown, RunningUnder
    <2>1. q # p
      BY <1>5, NoTxTyped
    <2>2. /\ tx[q].kind = "replace"
          /\ tx[q].account # NoAccount =>
               Active \ {tx[q].account} \subseteq tx[q].losers \cup tx[q].blind
          /\ RunningUnder(tx[q].losers) \subseteq tx[q].others \cup late
      BY <1>5, <2>1 DEF ReplacementsKnown
    <2>3. Active' = Active
      BY <1>4 DEF Active
    <2>4. ASSUME NEW d \in Running(rows'), rows'[d].account \in tx[q].losers
          PROVE  d \in tx[q].others \cup late'
      <3>1. CASE d = c
        BY <1>3, <1>6, <2>4, <3>1
      <3>2. CASE d # c
        <4>1. d \in RunningUnder(tx[q].losers)
          BY <1>3, <1>7, <2>4, <3>2 DEF RunningUnder
        <4> QED BY <1>6, <2>2, <3>2, <4>1
      <3> QED BY <3>1, <3>2
    <2> QED BY <1>5, <2>1, <2>2, <2>3, <2>4
  <1>14. LoginsKnown'
    BY <1>5, NoTxTyped DEF LoginsKnown
  <1> QED BY <1>8, <1>9, <1>10, <1>11, <1>12, <1>13, <1>14

\* Steps that start nothing, activate no account and open no transaction: a
\* campaign under an account replaced by the step has stopped or is late.
LEMMA QuieterStep ==
  ASSUME IInv, TypeOK', UNCHANGED <<unseen, blind, late>>,
         Running(rows') \subseteq Running(rows), Active' \subseteq Active,
         \A d \in Running(rows') :
           /\ rows'[d].account = rows[d].account
           /\ account'[rows[d].account] = "replaced" =>
                account[rows[d].account] = "replaced" \/ d \in late,
         \A q \in Procs : tx'[q] = tx[q] \/ tx'[q].kind = "none"
  PROVE  IInv'
  <1> USE DEF IInv
  <1>1. OneRunningPerAccount'
    BY DEF OneRunningPerAccount
  <1>2. OneActiveAccount'
    BY DEF OneActiveAccount
  <1>3. ReplacedIsQuiet'
    BY DEF ReplacedIsQuiet
  <1>4. StartsKnown'
    <2> SUFFICES ASSUME NEW q \in Procs, tx'[q].kind = "start"
                 PROVE  /\ tx'[q].campaign \in Campaigns
                        /\ \A d \in Running(rows') :
                             rows'[d].account = tx'[q].row.account /\ d # tx'[q].campaign
                             => d \in tx'[q].others \cup tx'[q].missed
      BY DEF StartsKnown, RunningOf
    <2>1. tx'[q] = tx[q]
      OBVIOUS
    <2>2. /\ tx[q].campaign \in Campaigns
          /\ \A d \in Running(rows) :
               rows[d].account = tx[q].row.account /\ d # tx[q].campaign
               => d \in tx[q].others \cup tx[q].missed
      BY <2>1 DEF StartsKnown, RunningOf
    <2> QED BY <2>1, <2>2
  <1>5. ReplacementsKnown'
    <2> SUFFICES ASSUME NEW q \in Procs, tx'[q].kind = "replace"
                 PROVE  /\ tx'[q].account # NoAccount =>
                             Active' \ {tx'[q].account} \subseteq
                               tx'[q].losers \cup tx'[q].blind
                        /\ \A d \in Running(rows') : rows'[d].account \in tx'[q].losers
                             => d \in tx'[q].others \cup late'
      BY DEF ReplacementsKnown, RunningUnder
    <2>1. tx'[q] = tx[q]
      OBVIOUS
    <2>2. /\ tx[q].account # NoAccount =>
               Active \ {tx[q].account} \subseteq tx[q].losers \cup tx[q].blind
          /\ \A d \in Running(rows) : rows[d].account \in tx[q].losers
               => d \in tx[q].others \cup late
      BY <2>1 DEF ReplacementsKnown, RunningUnder
    <2> QED BY <2>1, <2>2
  <1>6. LoginsKnown'
    BY DEF LoginsKnown
  <1> QED BY <1>1, <1>2, <1>3, <1>4, <1>5, <1>6

\* A transaction that has just read the accounts it replaces.
LEMMA ReplacingStep ==
  ASSUME IInv, NEW p \in Procs, NEW a \in Accounts \cup {NoAccount}, NEW S \in SUBSET Accounts,
         Replacing(p, "replace", a, S), a # NoAccount => Active \ {a} \subseteq S,
         UNCHANGED <<rows, account, unseen, blind, late>>
  PROVE  IInv'
  <1> USE DEF IInv
  <1>1. /\ tx' \in [Procs -> Tx]
        /\ \A q \in Procs \ {p} : tx'[q] = tx[q]
        /\ tx'[p].kind = "replace" /\ tx'[p].account = a /\ tx'[p].losers = S
        /\ tx'[p].others = RunningUnder(S)
    BY ReplacingTyped
  <1>2. TypeOK'
    BY <1>1 DEF TypeOK
  <1>3. OneRunningPerAccount' /\ OneActiveAccount' /\ ReplacedIsQuiet'
    BY DEF OneRunningPerAccount, OneActiveAccount, ReplacedIsQuiet, Active
  <1>4. StartsKnown'
    BY <1>1 DEF StartsKnown
  <1>5. ReplacementsKnown'
    BY <1>1 DEF ReplacementsKnown, Active, RunningUnder
  <1>6. LoginsKnown'
    BY <1>1 DEF LoginsKnown
  <1> QED BY <1>2, <1>3, <1>4, <1>5, <1>6

\* complete_login, until the code is accepted.
LEMMA LoginBeginStep ==
  ASSUME IInv, NEW p \in Procs, NEW a \in Accounts, LoginBegin(p, a)
  PROVE  IInv'
  <1> DEFINE t == [NoTx EXCEPT !.kind = "login", !.account = a]
  <1> USE DEF IInv
  <1>1. tx' = [tx EXCEPT ![p] = t] /\ UNCHANGED <<rows, account, unseen, blind, late>>
    BY DEF LoginBegin
  <1>2. t \in Tx /\ t.kind = "login" /\ t.account = a
    <2>1. FreshRow \in Row
      BY RowsAssumption, FreshIsRow
    <2> QED BY <2>1 DEF NoTx, Tx
  <1>3. tx \in [Procs -> Tx]
    BY DEF TypeOK
  <1>4. tx' \in [Procs -> Tx] /\ tx'[p] = t /\ \A q \in Procs \ {p} : tx'[q] = tx[q]
    BY <1>1, <1>2, <1>3
  <1> HIDE DEF t
  <1>5. TypeOK'
    BY <1>1, <1>4 DEF TypeOK
  <1>6. OneRunningPerAccount' /\ OneActiveAccount' /\ ReplacedIsQuiet'
    BY <1>1 DEF OneRunningPerAccount, OneActiveAccount, ReplacedIsQuiet, Active
  <1>7. StartsKnown'
    BY <1>1, <1>2, <1>4 DEF StartsKnown
  <1>8. ReplacementsKnown'
    BY <1>1, <1>2, <1>4 DEF ReplacementsKnown, Active, RunningUnder
  <1>9. LoginsKnown'
    BY <1>2, <1>4 DEF LoginsKnown
  <1> QED BY <1>5, <1>6, <1>7, <1>8, <1>9

\* An account becomes active, with or without the replacement of the others.
\* The active accounts that stay are in its blind, and every open replacement
\* now has it in its own.
LEMMA ActivationStep ==
  ASSUME IInv, NEW p \in Procs, NEW a \in Accounts, NEW B \in SUBSET Accounts,
         BecomesActive(p, a), blind' = [blind EXCEPT ![a] = B],
         UNCHANGED <<unseen, late>>,
         rows' \in [Campaigns -> Row],
         account' \in [Accounts -> {"pending_login", "active", "replaced", "off"}],
         account'[a] = "active",
         \A b \in Accounts \ {a} : account'[b] = "active" => account[b] = "active" /\ b \in B,
         Running(rows') \subseteq Running(rows),
         \A d \in Running(rows') :
           /\ rows'[d].account = rows[d].account
           /\ account'[rows[d].account] = "replaced" =>
                account[rows[d].account] = "replaced" \/ d \in late
  PROVE  IInv'
  <1> USE DEF IInv
  <1>1. /\ tx' \in [Procs -> Tx] /\ tx'[p] = NoTx
        /\ \A q \in Procs \ {p} :
             /\ tx'[q].kind = tx[q].kind /\ tx'[q].campaign = tx[q].campaign
             /\ tx'[q].row = tx[q].row /\ tx'[q].account = tx[q].account
             /\ tx'[q].losers = tx[q].losers /\ tx'[q].others = tx[q].others
             /\ tx'[q].missed = tx[q].missed
             /\ tx[q].kind = "replace" => tx'[q].blind = tx[q].blind \cup {a}
    BY BecomesTyped
  <1>2. blind \in [Accounts -> SUBSET Accounts]
    BY DEF TypeOK
  <1>3. TypeOK'
    BY <1>1, <1>2 DEF TypeOK
  <1>4. OneRunningPerAccount'
    BY DEF OneRunningPerAccount
  <1>5. OneActiveAccount'
    <2> SUFFICES ASSUME NEW x \in Accounts, NEW y \in Accounts, x # y,
                        account'[x] = "active", account'[y] = "active"
                 PROVE  y \in blind'[x] \/ x \in blind'[y]
      BY DEF OneActiveAccount, Active
    <2>1. CASE x = a
      BY <1>2, <2>1
    <2>2. CASE y = a
      BY <1>2, <2>2
    <2>3. CASE x # a /\ y # a
      <3>1. blind'[x] = blind[x] /\ blind'[y] = blind[y]
        BY <1>2, <2>3
      <3>2. x \in Active /\ y \in Active
        BY <2>3 DEF Active
      <3> QED BY <3>1, <3>2 DEF OneActiveAccount
    <2> QED BY <2>1, <2>2, <2>3
  <1>6. ReplacedIsQuiet'
    BY DEF ReplacedIsQuiet
  <1>7. StartsKnown'
    <2> SUFFICES ASSUME NEW q \in Procs, tx'[q].kind = "start"
                 PROVE  /\ tx'[q].campaign \in Campaigns
                        /\ \A d \in Running(rows') :
                             rows'[d].account = tx'[q].row.account /\ d # tx'[q].campaign
                             => d \in tx'[q].others \cup tx'[q].missed
      BY DEF StartsKnown, RunningOf
    <2>1. q # p
      BY <1>1, NoTxTyped
    <2>2. /\ tx[q].campaign \in Campaigns
          /\ \A d \in Running(rows) :
               rows[d].account = tx[q].row.account /\ d # tx[q].campaign
               => d \in tx[q].others \cup tx[q].missed
      BY <1>1, <2>1 DEF StartsKnown, RunningOf
    <2> QED BY <1>1, <2>1, <2>2
  <1>8. ReplacementsKnown'
    <2> SUFFICES ASSUME NEW q \in Procs, tx'[q].kind = "replace"
                 PROVE  /\ tx'[q].account # NoAccount =>
                             \A b \in Accounts : account'[b] = "active" /\ b # tx'[q].account
                               => b \in tx'[q].losers \cup tx'[q].blind
                        /\ \A d \in Running(rows') : rows'[d].account \in tx'[q].losers
                             => d \in tx'[q].others \cup late'
      BY DEF ReplacementsKnown, RunningUnder, Active
    <2>1. q # p
      BY <1>1, NoTxTyped
    <2>2. /\ tx[q].account # NoAccount =>
               \A b \in Accounts : account[b] = "active" /\ b # tx[q].account
                 => b \in tx[q].losers \cup tx[q].blind
          /\ \A d \in Running(rows) : rows[d].account \in tx[q].losers
               => d \in tx[q].others \cup late
      BY <1>1, <2>1 DEF ReplacementsKnown, RunningUnder, Active
    <2>3. tx'[q].blind = tx[q].blind \cup {a}
      BY <1>1, <2>1
    <2> QED BY <1>1, <2>1, <2>2, <2>3
  <1>9. LoginsKnown'
    BY <1>1, NoTxTyped DEF LoginsKnown
  <1> QED BY <1>3, <1>4, <1>5, <1>6, <1>7, <1>8, <1>9

\* Other accounts are replaced and their campaigns pause.
LEMMA ReplacedRows ==
  ASSUME IInv, NEW p \in Procs, tx[p].kind = "replace"
  PROVE  LET t == tx[p] IN
         /\ Pause(rows, t.others) \in [Campaigns -> Row]
         /\ Replaced(t) \in [Accounts -> {"pending_login", "active", "replaced", "off"}]
         /\ Running(Pause(rows, t.others)) \subseteq Running(rows)
         /\ \A d \in Running(Pause(rows, t.others)) :
              /\ Pause(rows, t.others)[d].account = rows[d].account
              /\ Replaced(t)[rows[d].account] = "replaced" =>
                   account[rows[d].account] = "replaced" \/ d \in late
  <1> DEFINE t == tx[p]
             P == Pause(rows, t.others)
  <1> USE DEF IInv
  <1>1. t \in Tx /\ t.others \in SUBSET Campaigns /\ rows \in [Campaigns -> Row]
    BY DEF TypeOK, Tx
  <1>2. /\ P \in [Campaigns -> Row]
        /\ \A c \in Campaigns : P[c].account = rows[c].account
        /\ Running(P) = Running(rows) \ t.others
    BY <1>1, PauseRows
  <1>3. Replaced(t) \in [Accounts -> {"pending_login", "active", "replaced", "off"}]
    BY DEF TypeOK, Replaced
  <1>4. \A d \in Running(P) :
          Replaced(t)[rows[d].account] = "replaced" =>
            account[rows[d].account] = "replaced" \/ d \in late
    <2> TAKE d \in Running(P)
    <2>1. d \in Running(rows) /\ d \notin t.others
      BY <1>2
    <2>2. rows[d].account \in Accounts
      BY <1>1, <2>1 DEF Running, Row
    <2>3. CASE rows[d].account \in t.losers
      BY <2>1, <2>3 DEF ReplacementsKnown, RunningUnder
    <2>4. CASE rows[d].account \notin t.losers
      BY <2>2, <2>4 DEF Replaced
    <2> QED BY <2>3, <2>4
  <1>5. Running(P) \subseteq Campaigns
    BY DEF Running
  <1> HIDE DEF P
  <1>6. /\ P \in [Campaigns -> Row]
        /\ Replaced(t) \in [Accounts -> {"pending_login", "active", "replaced", "off"}]
        /\ Running(P) \subseteq Running(rows)
        /\ \A d \in Running(P) :
             /\ P[d].account = rows[d].account
             /\ Replaced(t)[rows[d].account] = "replaced" =>
                  account[rows[d].account] = "replaced" \/ d \in late
    BY <1>2, <1>3, <1>4, <1>5
  <1> QED BY <1>6 DEF P

\* A login that commits.
LEMMA LoginCommitStep ==
  ASSUME IInv, NEW p \in Procs, LoginCommit(p)
  PROVE  IInv'
  <1> DEFINE t == tx[p]
             a == t.account
  <1>1. /\ t.kind = "replace" /\ a # NoAccount
        /\ account' = [Replaced(t) EXCEPT ![a] = "active"]
        /\ rows' = Pause(rows, t.others)
        /\ blind' = [blind EXCEPT ![a] = t.blind]
        /\ BecomesActive(p, a) /\ UNCHANGED <<unseen, late>>
    BY DEF LoginCommit
  <1>2. t \in Tx /\ a \in Accounts /\ t.blind \in SUBSET Accounts
    BY <1>1 DEF IInv, TypeOK, Tx
  <1>3. /\ rows' \in [Campaigns -> Row]
        /\ Replaced(t) \in [Accounts -> {"pending_login", "active", "replaced", "off"}]
        /\ Running(rows') \subseteq Running(rows)
        /\ \A d \in Running(rows') :
             /\ rows'[d].account = rows[d].account
             /\ Replaced(t)[rows[d].account] = "replaced" =>
                  account[rows[d].account] = "replaced" \/ d \in late
    BY <1>1, ReplacedRows
  <1>4. /\ account' \in [Accounts -> {"pending_login", "active", "replaced", "off"}]
        /\ account'[a] = "active"
        /\ \A b \in Accounts \ {a} : account'[b] = Replaced(t)[b]
    BY <1>1, <1>2, <1>3
  <1>5. \A b \in Accounts \ {a} :
          account'[b] = "active" => account[b] = "active" /\ b \in t.blind
    <2> SUFFICES ASSUME NEW b \in Accounts \ {a}, account'[b] = "active"
                 PROVE  account[b] = "active" /\ b \in t.blind
      OBVIOUS
    <2>1. account[b] = "active" /\ b \notin t.losers
      BY <1>4 DEF Replaced
    <2>2. b \in Active \ {a}
      BY <2>1 DEF Active
    <2>3. Active \ {a} \subseteq t.losers \cup t.blind
      BY <1>1 DEF IInv, ReplacementsKnown
    <2> QED BY <2>1, <2>2, <2>3
  <1>6. rows \in [Campaigns -> Row]
    BY DEF IInv, TypeOK
  <1>7. \A d \in Running(rows') :
          account'[rows[d].account] = "replaced" =>
            account[rows[d].account] = "replaced" \/ d \in late
    <2> SUFFICES ASSUME NEW d \in Running(rows'), account'[rows[d].account] = "replaced"
                 PROVE  account[rows[d].account] = "replaced" \/ d \in late
      OBVIOUS
    <2>1. rows[d].account \in Accounts
      BY <1>6 DEF Running, Row
    <2>2. rows[d].account # a
      BY <1>4
    <2> QED BY <1>3, <1>4, <2>1, <2>2
  <1> HIDE DEF t, a
  <1> QED
    <2>1. BecomesActive(p, a) /\ blind' = [blind EXCEPT ![a] = t.blind]
          /\ UNCHANGED <<unseen, late>>
      BY <1>1
    <2> QED BY <1>2, <1>3, <1>4, <1>5, <1>7, <2>1, ActivationStep

\* A login that fails after sign-in.
LEMMA LoginCommitsHalfStep ==
  ASSUME IInv, NEW p \in Procs, LoginCommitsHalf(p)
  PROVE  IInv'
  <1> DEFINE a == tx[p].account
  <1>1. /\ account' = [account EXCEPT ![a] = "active"]
        /\ blind' = [blind EXCEPT ![a] = Accounts]
        /\ BecomesActive(p, a) /\ UNCHANGED <<rows, unseen, late>>
    BY DEF LoginCommitsHalf
  <1>2. a \in Accounts
    BY DEF LoginCommitsHalf, IInv, LoginsKnown
  <1>3. /\ account \in [Accounts -> {"pending_login", "active", "replaced", "off"}]
        /\ rows \in [Campaigns -> Row]
    BY DEF IInv, TypeOK
  <1> HIDE DEF a
  <1>4. /\ account' \in [Accounts -> {"pending_login", "active", "replaced", "off"}]
        /\ account'[a] = "active"
        /\ \A b \in Accounts \ {a} : account'[b] = account[b]
    BY <1>1, <1>2, <1>3
  <1>5. \A d \in Running(rows) : rows[d].account \in Accounts
    BY <1>3 DEF Running, Row
  <1>6. rows' = rows
    BY <1>1
  <1>7. \A d \in Running(rows') :
          /\ rows'[d].account = rows[d].account
          /\ account'[rows[d].account] = "replaced" => account[rows[d].account] = "replaced"
    BY <1>4, <1>5, <1>6
  <1> QED BY <1>1, <1>2, <1>3, <1>4, <1>6, <1>7, ActivationStep

LEMMA RepairCommitStep ==
  ASSUME IInv, NEW p \in Procs, RepairCommit(p)
  PROVE  IInv'
  <1> DEFINE t == tx[p]
  <1>1. /\ t.kind = "replace" /\ account' = Replaced(t) /\ rows' = Pause(rows, t.others)
        /\ Rollback(p) /\ UNCHANGED <<unseen, blind, late>>
    BY DEF RepairCommit
  <1>2. /\ rows' \in [Campaigns -> Row]
        /\ account' \in [Accounts -> {"pending_login", "active", "replaced", "off"}]
        /\ Running(rows') \subseteq Running(rows)
        /\ \A d \in Running(rows') :
             /\ rows'[d].account = rows[d].account
             /\ account'[rows[d].account] = "replaced" =>
                  account[rows[d].account] = "replaced" \/ d \in late
    BY <1>1, ReplacedRows
  <1>3. tx \in [Procs -> Tx]
    BY DEF IInv, TypeOK
  <1>4. tx' \in [Procs -> Tx] /\ \A q \in Procs : tx'[q] = tx[q] \/ tx'[q].kind = "none"
    BY <1>1, <1>3, NoTxTyped DEF Rollback
  <1>5. Active' \subseteq Active
    BY <1>1 DEF Active, Replaced
  <1>6. TypeOK'
    BY <1>1, <1>2, <1>4 DEF IInv, TypeOK
  <1> HIDE DEF t
  <1> QED BY <1>1, <1>2, <1>4, <1>5, <1>6, QuieterStep

\* Steps that change rows only.
LEMMA RowsStep ==
  ASSUME IInv, rows' \in [Campaigns -> Row], Running(rows') \subseteq Running(rows),
         \A d \in Running(rows') : rows'[d].account = rows[d].account,
         UNCHANGED <<account, tx, unseen, blind, late>>
  PROVE  IInv'
  <1>1. TypeOK'
    BY DEF IInv, TypeOK
  <1>2. Active' \subseteq Active
    BY DEF Active
  <1> QED BY <1>1, <1>2, QuieterStep

LEMMA TxFailsStep ==
  ASSUME IInv, NEW p \in Procs, TxFails(p)
  PROVE  IInv'
  <1>1. tx' = [tx EXCEPT ![p] = NoTx] /\ UNCHANGED <<rows, account, unseen, blind, late>>
    BY DEF TxFails, Rollback
  <1>2. tx \in [Procs -> Tx]
    BY DEF IInv, TypeOK
  <1>3. tx' \in [Procs -> Tx] /\ \A q \in Procs : tx'[q] = tx[q] \/ tx'[q].kind = "none"
    BY <1>1, <1>2, NoTxTyped
  <1>4. TypeOK'
    BY <1>1, <1>3 DEF IInv, TypeOK
  <1>5. Active' \subseteq Active /\ Running(rows') \subseteq Running(rows)
    BY <1>1 DEF Active
  <1> QED BY <1>1, <1>3, <1>4, <1>5, QuieterStep

LEMMA StopStep ==
  ASSUME IInv, Stop
  PROVE  IInv'
  <1>1. UNCHANGED <<account, tx, unseen, blind, late>>
    BY DEF Stop
  <1>2. PICK S \in SUBSET Campaigns : rows' = Pause(rows, S)
    BY DEF Stop, Running
  <1>3. rows \in [Campaigns -> Row]
    BY DEF IInv, TypeOK
  <1>4. /\ rows' \in [Campaigns -> Row]
        /\ \A c \in Campaigns : rows'[c].account = rows[c].account
        /\ Running(rows') = Running(rows) \ S
    BY <1>2, <1>3, PauseRows
  <1>5. Running(rows) \subseteq Campaigns
    BY DEF Running
  <1> QED BY <1>1, <1>4, <1>5, RowsStep

LEMMA CreateDraftStep ==
  ASSUME IInv, NEW c \in Campaigns, NEW a \in Accounts, CreateDraft(c, a)
  PROVE  IInv'
  <1>1. /\ rows[c].status = "new" /\ rows' = Create(rows, c, a, {}, {})
        /\ UNCHANGED <<account, tx, unseen, blind, late>>
    BY DEF CreateDraft
  <1>2. rows \in [Campaigns -> Row]
    BY DEF IInv, TypeOK
  <1>3. /\ rows' \in [Campaigns -> Row]
        /\ \A d \in Campaigns \ {c} : rows'[d] = rows[d]
        /\ Running(rows') = Running(rows)
    BY <1>1, <1>2, DraftRows
  <1>4. \A d \in Running(rows') : rows'[d].account = rows[d].account
    BY <1>1, <1>3 DEF Running
  <1> QED BY <1>1, <1>3, <1>4, RowsStep

LEMMA DeleteCampaignsStep ==
  ASSUME IInv, NEW a \in Accounts, DeleteCampaigns(a)
  PROVE  IInv'
  <1>1. rows' = DeleteAll(rows, a) /\ UNCHANGED <<account, tx, unseen, blind, late>>
    BY DEF DeleteCampaigns
  <1>2. rows \in [Campaigns -> Row]
    BY DEF IInv, TypeOK
  <1>3. /\ rows' \in [Campaigns -> Row]
        /\ \A c \in Campaigns : rows'[c].account = rows[c].account
        /\ Running(rows') \subseteq Running(rows)
    BY <1>1, <1>2, DeleteRows
  <1>4. Running(rows) \subseteq Campaigns
    BY DEF Running
  <1> QED BY <1>1, <1>3, <1>4, RowsStep

LEMMA RoundMarksStep ==
  ASSUME IInv, NEW a \in Accounts, RoundMarks(a)
  PROVE  IInv'
  <1>1. account' = [account EXCEPT ![a] = "off"] /\ UNCHANGED <<rows, tx, unseen, blind, late>>
    BY DEF RoundMarks
  <1>2. /\ account \in [Accounts -> {"pending_login", "active", "replaced", "off"}]
        /\ rows \in [Campaigns -> Row]
    BY DEF IInv, TypeOK
  <1>3. \A b \in Accounts : account'[b] = account[b] \/ account'[b] = "off"
    BY <1>1, <1>2
  <1>4. TypeOK'
    BY <1>1, <1>2 DEF IInv, TypeOK
  <1>5. Active' \subseteq Active
    BY <1>3 DEF Active
  <1>6. \A d \in Running(rows) : rows[d].account \in Accounts
    BY <1>2 DEF Running, Row
  <1>7. /\ Running(rows') \subseteq Running(rows)
        /\ \A d \in Running(rows') :
             /\ rows'[d].account = rows[d].account
             /\ account'[rows[d].account] = "replaced" =>
                  account[rows[d].account] = "replaced" \/ d \in late
    BY <1>1, <1>3, <1>6
  <1> QED BY <1>1, <1>4, <1>5, <1>7, QuieterStep

LEMMA StepInvariant == IInv /\ [Next]_vars => IInv'
  <1> SUFFICES ASSUME IInv, [Next]_vars PROVE IInv'
    OBVIOUS
  <1>1. rows \in [Campaigns -> Row] /\ tx \in [Procs -> Tx]
    BY DEF IInv, TypeOK
  <1>2. CASE Stop
    BY <1>2, StopStep
  <1>3. ASSUME NEW p \in Procs, StartCommit(p) PROVE IInv'
    BY <1>3, StartCommitStep
  <1>4. ASSUME NEW p \in Procs, TxFails(p) PROVE IInv'
    BY <1>4, TxFailsStep
  <1>5. ASSUME NEW p \in Procs, LoginReads(p) PROVE IInv'
    <2>1. tx[p].account \in Accounts
      BY <1>5 DEF IInv, LoginsKnown, LoginReads
    <2>2. /\ Replacing(p, "replace", tx[p].account, Active \ {tx[p].account})
          /\ UNCHANGED <<rows, account, unseen, blind, late>>
      BY <1>5 DEF LoginReads
    <2>3. Active \ {tx[p].account} \in SUBSET Accounts
      BY DEF Active
    <2> QED BY <2>1, <2>2, <2>3, ReplacingStep
  <1>6. ASSUME NEW p \in Procs, LoginCommitsHalf(p) PROVE IInv'
    BY <1>6, LoginCommitsHalfStep
  <1>7. ASSUME NEW p \in Procs, LoginCommit(p) PROVE IInv'
    BY <1>7, LoginCommitStep
  <1>8. ASSUME NEW p \in Procs, RepairBegin(p) PROVE IInv'
    <2>1. PICK keep \in Active : Replacing(p, "replace", NoAccount, Active \ {keep})
      BY <1>8 DEF RepairBegin
    <2>2. Active \ {keep} \in SUBSET Accounts
      BY DEF Active
    <2>3. UNCHANGED <<rows, account, unseen, blind, late>>
      BY <1>8 DEF RepairBegin
    <2> QED BY <2>1, <2>2, <2>3, ReplacingStep
  <1>9. ASSUME NEW p \in Procs, RepairCommit(p) PROVE IInv'
    BY <1>9, RepairCommitStep
  <1>10. ASSUME NEW p \in Procs, NEW c \in Campaigns, StartBegin(p, c) PROVE IInv'
    BY <1>1, <1>10, StartBeginStep DEF StartBegin
  <1>11. ASSUME NEW p \in Procs, NEW c \in Campaigns, NEW a \in Accounts, CreateBegin(p, c, a)
         PROVE  IInv'
    BY <1>11, FreshIsRow, StartBeginStep DEF CreateBegin
  <1>12. ASSUME NEW p \in Procs, NEW a \in Accounts, LoginBegin(p, a) PROVE IInv'
    BY <1>12, LoginBeginStep
  <1>13. ASSUME NEW a \in Accounts, DeleteCampaigns(a) PROVE IInv'
    BY <1>13, DeleteCampaignsStep
  <1>14. ASSUME NEW a \in Accounts, RoundMarks(a) PROVE IInv'
    BY <1>14, RoundMarksStep
  <1>15. ASSUME NEW a \in Accounts, NEW c \in Campaigns, CreateDraft(c, a) PROVE IInv'
    BY <1>15, CreateDraftStep
  <1>16. CASE UNCHANGED vars
    BY <1>1, <1>16, RowsStep DEF vars
  <1> QED BY <1>2, <1>3, <1>4, <1>5, <1>6, <1>7, <1>8, <1>9, <1>10, <1>11, <1>12, <1>13,
             <1>14, <1>15, <1>16 DEF Next

\* Whatever transactions overlap, each knows the rows it will change, or
\* history records what it did not see.
THEOREM AccountsInvariant == Spec => []IInv
  BY InitInvariant, StepInvariant, PTL DEF Spec

\* Of two running campaigns of one account, one started without seeing the
\* start of the other (campaigns.py:180-214).
THEOREM OneRunning == Spec => []OneRunningPerAccount
  <1>1. IInv => OneRunningPerAccount
    BY DEF IInv
  <1> QED BY <1>1, AccountsInvariant, PTL

\* Of two active accounts, one did not see the other become active, or its own
\* login failed after sign-in (accounts.py:14-40, login.py:82-98).
THEOREM OneActive == Spec => []OneActiveAccount
  <1>1. IInv => OneActiveAccount
    BY DEF IInv
  <1> QED BY <1>1, AccountsInvariant, PTL

\* A running campaign of a replaced account started while or after the account
\* was replaced (accounts.py:34-39).
THEOREM ReplacedQuiet == Spec => []ReplacedIsQuiet
  <1>1. IInv => ReplacedIsQuiet
    BY DEF IInv
  <1> QED BY <1>1, AccountsInvariant, PTL
=============================================================================
