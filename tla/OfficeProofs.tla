----------------------------- MODULE OfficeProofs -----------------------------
(***************************************************************************)
(* Proofs about the office's parts, for any number of operators, papers,   *)
(* uploads, questions, spaces and people: whose account a Google account   *)
(* opens, what a filing leaves behind, which version is in force, what a   *)
(* thread tells, what a purge leaves, whom a number names, what a saved    *)
(* setting holds, what stands above a signature, and whom a draft is let   *)
(* to.                                                                     *)
(***************************************************************************)
EXTENDS MCOffice, FiniteSetTheorems, TLAPS

-----------------------------------------------------------------------------
(* The accounts.  A browser that binds carries a Google account, and the   *)
(* accounts bound so far are of one address each.                          *)
DeskFits(b) ==
  /\ ~AtDesk(b, "idle") /\ ~AtDesk(b, "add") =>
       desks[b].ticket \in 1..MaxTickets /\ desks[b].address \in Addresses
  /\ AtDesk(b, "allow") \/ AtDesk(b, "bind") \/ AtDesk(b, "mint") =>
       desks[b].subject \in Subjects
  /\ AtDesk(b, "add") => desks[b].address \in Addresses /\ desks[b].role \in Roles
  /\ AtDesk(b, "bind") => accounts[desks[b].address].row

BoundApart ==
  \A a, b \in Addresses :
    a # b /\ accounts[a].subject # NoOne => accounts[a].subject # accounts[b].subject

\* An address without a row is bound to nobody.
BoundHaveRows ==
  \A a \in Addresses : accounts[a].row = FALSE => accounts[a].subject = NoOne

StaffInv ==
  StaffTypeOK /\ BoundApart /\ BoundHaveRows /\ \A b \in Browsers : DeskFits(b)

LEMMA IdleDeskFits ==
  \A n \in 0..MaxTickets :
    LET d == [IdleDesk EXCEPT !.token = n]
    IN d \in Desk /\ d.step = "idle" /\ d.token = n
<1>1. NoAccount \in Account
  BY DEF NoAccount, Account
<1> HIDE DEF NoAccount
<1> QED BY <1>1, StaffAssumption DEF IdleDesk, Desk, Steps

\* No statement takes a row away.
RowsStay ==
  /\ accounts' \in [Addresses -> Account]
  /\ \A a \in Addresses : accounts[a].row = TRUE => accounts'[a].row = TRUE

\* One desk moves and fits; the accounts and the tickets stay typed.
LEMMA OneDeskMoves ==
  ASSUME StaffInv, NEW b \in Browsers, NEW d \in Desk,
         desks' = [desks EXCEPT ![b] = d],
         d.step \notin {"idle", "add"} =>
           d.ticket \in 1..MaxTickets /\ d.address \in Addresses,
         d.step \in {"allow", "bind", "mint"} => d.subject \in Subjects,
         d.step = "add" => d.address \in Addresses /\ d.role \in Roles,
         d.step = "bind" => accounts[d.address].row = TRUE, RowsStay
  PROVE  /\ desks' \in [Browsers -> Desk]
         /\ \A c \in Browsers : DeskFits(c)'
<1>1. /\ desks' \in [Browsers -> Desk] /\ desks'[b] = d
      /\ \A c \in Browsers \ {b} : desks'[c] = desks[c]
  BY DEF StaffInv, StaffTypeOK
<1>2. DeskFits(b)'
  <2>1. AtDesk(b, "bind")' => d.address \in Addresses /\ accounts[d.address].row = TRUE
    BY <1>1 DEF AtDesk
  <2> QED BY <1>1, <2>1 DEF DeskFits, AtDesk, RowsStay
<1>3. ASSUME NEW c \in Browsers \ {b} PROVE DeskFits(c)'
  <2>1. desks'[c] = desks[c] /\ DeskFits(c)
    BY <1>1, <1>3 DEF StaffInv
  <2>2. AtDesk(c, "bind") => desks[c].address \in Addresses
    BY <2>1 DEF DeskFits, AtDesk
  <2>3. \A a \in Addresses : accounts[a] \in Account
    BY DEF StaffInv, StaffTypeOK
  <2>4. AtDesk(c, "bind") => accounts[desks[c].address].row = TRUE
    BY <2>1, <2>2, <2>3 DEF DeskFits, Account
  <2>5. AtDesk(c, "bind") => accounts'[desks[c].address].row = TRUE
    BY <2>2, <2>4 DEF RowsStay
  <2> QED BY <2>1, <2>5 DEF DeskFits, AtDesk
<1> QED BY <1>1, <1>2, <1>3

\* The request that has ended leaves an idle desk.
LEMMA DeskLeft ==
  ASSUME StaffInv, NEW b \in Browsers, NEW n \in 0..MaxTickets, LeaveDesk(b, n), RowsStay
  PROVE  /\ desks' \in [Browsers -> Desk]
         /\ \A c \in Browsers : DeskFits(c)'
<1> DEFINE d == [IdleDesk EXCEPT !.token = n]
<1>1. d \in Desk /\ d.step = "idle"
  BY IdleDeskFits
<1>2. desks' = [desks EXCEPT ![b] = d]
  BY DEF LeaveDesk
<1> HIDE DEF d
<1> QED BY <1>1, <1>2, OneDeskMoves

LEMMA DeskIs ==
  ASSUME StaffInv, NEW b \in Browsers
  PROVE  /\ desks[b] \in Desk /\ DeskFits(b)
         /\ desks[b].ticket \in 0..MaxTickets /\ desks[b].token \in 0..MaxTickets
         /\ desks[b].step \in Steps
         /\ desks[b].address \in Addresses \cup {NoOne}
         /\ desks[b].subject \in Subjects \cup {NoOne}
         /\ desks[b].read \in Account /\ desks[b].role \in Roles \cup {NoOne}
BY DEF StaffInv, StaffTypeOK, Desk

LEMMA StaffInitInv == StaffInit => StaffInv
<1> SUFFICES ASSUME StaffInit PROVE StaffInv
  OBVIOUS
<1>1. NoAccount \in Account /\ NoAccount.subject = NoOne
  BY DEF NoAccount, Account
<1>2. PICK a \in Addresses, r \in Roles :
        accounts = [x \in Addresses |->
          IF x = a THEN [NoAccount EXCEPT !.row = TRUE, !.role = r] ELSE NoAccount]
  BY DEF StaffInit
<1> DEFINE first == [NoAccount EXCEPT !.row = TRUE, !.role = r]
<1>3. first \in Account /\ first.subject = NoOne
  BY DEF NoAccount, Account
<1>4. [IdleDesk EXCEPT !.token = 0] = IdleDesk
  BY DEF IdleDesk
<1>5. IdleDesk \in Desk /\ IdleDesk.step = "idle"
  BY <1>4, IdleDeskFits, StaffAssumption
<1> HIDE DEF first, NoAccount, IdleDesk
<1>6. accounts \in [Addresses -> Account] /\ \A x \in Addresses : accounts[x].subject = NoOne
  BY <1>1, <1>2, <1>3 DEF first
<1>7. StaffTypeOK
  <2>1. redirects \in 0..MaxTickets /\ hour \in 0..MaxHour
    BY StaffAssumption DEF StaffInit
  <2> QED BY <1>5, <1>6, <2>1 DEF StaffInit, StaffTypeOK
<1>8. \A b \in Browsers : DeskFits(b)
  BY <1>5 DEF StaffInit, DeskFits, AtDesk
<1> QED BY <1>6, <1>7, <1>8 DEF StaffInv, BoundApart, BoundHaveRows

\* The statements of a request that write no account.
DeskSteps(b) ==
  \/ AuthStart(b) \/ ExchangeCode(b) \/ ReadAllowlist(b)
  \/ MintSession(b) \/ TouchSession(b) \/ Logout(b)
  \/ \E a \in Addresses :
       \/ \E t \in 1..MaxTickets : AuthCallback(b, t, a)
       \/ \E r \in Roles : AddOperator(b, a, r)

LEMMA DeskStepsInv ==
  ASSUME StaffInv, NEW b \in Browsers, DeskSteps(b)
  PROVE  StaffInv' /\ accounts' = accounts
<1>d. /\ desks[b] \in Desk /\ DeskFits(b)
      /\ desks[b].ticket \in 0..MaxTickets /\ desks[b].token \in 0..MaxTickets
      /\ desks[b].step \in Steps /\ desks[b].read \in Account
      /\ desks[b].address \in Addresses \cup {NoOne}
      /\ desks[b].subject \in Subjects \cup {NoOne}
      /\ desks[b].role \in Roles \cup {NoOne}
  BY DeskIs
<1>0. accounts' = accounts /\ RowsStay
  BY DEF DeskSteps, AuthStart, ExchangeCode, ReadAllowlist, MintSession,
         TouchSession, Logout, AuthCallback, AddOperator, RowsStay, StaffInv, StaffTypeOK
<1>s. SUFFICES /\ desks' \in [Browsers -> Desk] /\ \A c \in Browsers : DeskFits(c)'
               /\ holders' \in [Addresses -> Subjects] /\ redirects' \in 0..MaxTickets
               /\ spentCodes' \subseteq 1..MaxTickets /\ logins' \subseteq Login
               /\ hour' \in 0..MaxHour
  BY <1>0 DEF StaffInv, StaffTypeOK, BoundApart, BoundHaveRows
<1>h. holders' = holders /\ hour' = hour
  BY DEF DeskSteps, AuthStart, ExchangeCode, ReadAllowlist, MintSession,
         TouchSession, Logout, AuthCallback, AddOperator
<1>1. CASE AuthStart(b)
  <2> DEFINE d == [desks[b] EXCEPT !.ticket = redirects + 1]
  <2>1. redirects + 1 \in 0..MaxTickets
    BY <1>1, StaffAssumption DEF AuthStart, StaffInv, StaffTypeOK
  <2>2. d \in Desk /\ d.step = "idle"
    BY <1>1, <1>d, <2>1 DEF Desk, AuthStart, AtDesk
  <2>3. desks' = [desks EXCEPT ![b] = d]
    BY <1>1 DEF AuthStart
  <2> HIDE DEF d
  <2> QED BY <1>1, <1>h, <2>1, <2>2, <2>3, <1>0, OneDeskMoves DEF AuthStart, StaffInv, StaffTypeOK
<1>2. CASE ExchangeCode(b)
  <2> DEFINE d == [desks[b] EXCEPT !.step = "allow", !.subject = holders[desks[b].address]]
  <2>1. desks[b].ticket \in 1..MaxTickets /\ desks[b].address \in Addresses
    BY <1>2, <1>d DEF DeskFits, ExchangeCode, AtDesk
  <2>2. /\ d \in Desk /\ d.step = "allow" /\ d.subject \in Subjects
        /\ d.ticket \in 1..MaxTickets /\ d.address \in Addresses
    BY <1>d, <2>1 DEF Desk, StaffInv, StaffTypeOK, Steps
  <2>3. CASE desks[b].ticket \in spentCodes
    BY <1>2, <1>d, <1>h, <2>3, <1>0, DeskLeft DEF ExchangeCode, StaffInv, StaffTypeOK
  <2>4. CASE desks[b].ticket \notin spentCodes
    <3>1. desks' = [desks EXCEPT ![b] = d] /\ spentCodes' = spentCodes \cup {desks[b].ticket}
      BY <1>2, <2>4 DEF ExchangeCode
    <3> HIDE DEF d
    <3> QED BY <1>2, <1>h, <2>1, <2>2, <3>1, <1>0, OneDeskMoves DEF ExchangeCode, StaffInv, StaffTypeOK
  <2> QED BY <2>3, <2>4
<1>3. CASE ReadAllowlist(b)
  <2> DEFINE entry == accounts[desks[b].address]
  <2>1. /\ desks[b].ticket \in 1..MaxTickets /\ desks[b].address \in Addresses
        /\ desks[b].subject \in Subjects
    BY <1>3, <1>d DEF DeskFits, ReadAllowlist, AtDesk
  <2>2. entry \in Account
    BY <2>1 DEF StaffInv, StaffTypeOK
  <2> HIDE DEF entry
  <2>3. CASE LeaveDesk(b, desks[b].token)
    BY <1>3, <1>d, <1>h, <2>3, <1>0, DeskLeft DEF ReadAllowlist, StaffInv, StaffTypeOK
  <2>4. CASE ~LeaveDesk(b, desks[b].token)
    <3>1. PICK step \in {"bind", "mint"} :
            /\ desks' = [desks EXCEPT ![b] = [desks[b] EXCEPT !.read = entry, !.step = step]]
            /\ entry.row = TRUE
      BY <1>3, <2>2, <2>4 DEF ReadAllowlist, entry, Usable, Account
    <3> DEFINE d == [desks[b] EXCEPT !.read = entry, !.step = step]
    <3>2. /\ d \in Desk /\ d.step = step /\ d.subject \in Subjects
          /\ d.ticket \in 1..MaxTickets /\ d.address \in Addresses
          /\ accounts[d.address].row = TRUE
      BY <1>d, <2>1, <2>2, <3>1 DEF Desk, Steps, entry
    <3> HIDE DEF d
    <3> QED BY <1>3, <1>h, <3>1, <3>2, <1>0, OneDeskMoves DEF d, ReadAllowlist, StaffInv, StaffTypeOK
  <2> QED BY <2>3, <2>4
<1>4. CASE MintSession(b)
  <2>1. desks[b].ticket \in 1..MaxTickets /\ desks[b].address \in Addresses
    BY <1>4, <1>d DEF DeskFits, MintSession, AtDesk
  <2>2. [id |-> desks[b].ticket, address |-> desks[b].address,
         expires |-> hour + OfficeAbsolute, seen |-> hour, revoked |-> FALSE] \in Login
    BY <2>1, StaffAssumption DEF Login, StaffInv, StaffTypeOK
  <2> QED BY <1>4, <1>d, <1>h, <2>2, <1>0, DeskLeft DEF MintSession, StaffInv, StaffTypeOK
<1>5. CASE TouchSession(b)
  <2>1. PICK l \in Granted(b) : logins' = (logins \ {l}) \cup {[l EXCEPT !.seen = hour]}
    BY <1>5 DEF TouchSession
  <2>2. l \in Login
    BY DEF Granted, StaffInv, StaffTypeOK
  <2>3. [l EXCEPT !.seen = hour] \in Login
    BY <2>2, StaffAssumption DEF Login, StaffInv, StaffTypeOK
  <2> QED BY <1>5, <1>h, <2>1, <2>3 DEF TouchSession, StaffInv, StaffTypeOK, DeskFits, AtDesk
<1>6. CASE Logout(b)
  <2> DEFINE d == [desks[b] EXCEPT !.token = 0]
  <2>1. d \in Desk /\ d.step = "idle"
    BY <1>6, <1>d, StaffAssumption DEF Desk, Logout, AtDesk
  <2>2. desks' = [desks EXCEPT ![b] = d]
    BY <1>6 DEF Logout
  <2>3. logins' \subseteq Login
    <3>1. \A l \in Login : [l EXCEPT !.revoked = TRUE] \in Login
      BY DEF Login
    <3> QED BY <1>6, <3>1 DEF Logout, StaffInv, StaffTypeOK
  <2> HIDE DEF d
  <2> QED BY <1>6, <1>h, <2>1, <2>2, <2>3, <1>0, OneDeskMoves DEF Logout, StaffInv, StaffTypeOK
<1>7. CASE \E a \in Addresses, t \in 1..MaxTickets : AuthCallback(b, t, a)
  <2>1. PICK a \in Addresses, t \in 1..MaxTickets : AuthCallback(b, t, a)
    BY <1>7
  <2> DEFINE d == [desks[b] EXCEPT !.step = "exchange", !.address = a]
  <2>2. CASE desks[b].ticket = t
    <3>1. desks' = [desks EXCEPT ![b] = d]
      BY <2>1, <2>2 DEF AuthCallback
    <3>2. d \in Desk /\ d.step = "exchange" /\ d.ticket \in 1..MaxTickets /\ d.address \in Addresses
      BY <1>d, <2>2 DEF Desk, Steps
    <3> HIDE DEF d
    <3> QED BY <1>h, <2>1, <3>1, <3>2, <1>0, OneDeskMoves DEF AuthCallback, StaffInv, StaffTypeOK
  <2>3. CASE desks[b].ticket # t
    BY <1>d, <1>h, <2>1, <2>3, <1>0, DeskLeft DEF AuthCallback, StaffInv, StaffTypeOK
  <2> QED BY <2>2, <2>3
<1>8. CASE \E a \in Addresses, r \in Roles : AddOperator(b, a, r)
  <2>1. PICK a \in Addresses, r \in Roles : AddOperator(b, a, r)
    BY <1>8
  <2> DEFINE d == [desks[b] EXCEPT !.step = "add", !.address = a, !.read = accounts[a], !.role = r]
  <2>2. desks' = [desks EXCEPT ![b] = d]
    BY <2>1 DEF AddOperator
  <2>3. accounts[a] \in Account
    BY DEF StaffInv, StaffTypeOK
  <2>4. d \in Desk /\ d.step = "add" /\ d.address \in Addresses /\ d.role \in Roles
    BY <1>d, <2>3 DEF Desk, Steps
  <2> HIDE DEF d
  <2> QED BY <1>h, <2>1, <2>2, <2>4, <1>0, OneDeskMoves DEF AddOperator, StaffInv, StaffTypeOK
<1> QED BY <1>1, <1>2, <1>3, <1>4, <1>5, <1>6, <1>7, <1>8 DEF DeskSteps

\* What a step may do to the accounts.
BoundStay ==
  \A a \in Addresses :
    accounts[a].subject # NoOne => accounts'[a].subject = accounts[a].subject

LEMMA LinkInv ==
  ASSUME StaffInv, NEW b \in Browsers, LinkLocalId(b)
  PROVE  StaffInv' /\ BoundStay
<1> DEFINE a == desks[b].address
           linked == LinksTo(accounts[a], desks[b].subject)
<1>d. /\ desks[b] \in Desk /\ DeskFits(b) /\ desks[b].token \in 0..MaxTickets
  BY DeskIs
<1>1. /\ a \in Addresses /\ desks[b].ticket \in 1..MaxTickets
      /\ desks[b].subject \in Subjects
  BY <1>d DEF DeskFits, LinkLocalId, AtDesk
<1>2. accounts[a] \in Account
  BY <1>1 DEF StaffInv, StaffTypeOK
<1>3. /\ linked \in Account /\ linked.subject # NoOne
      /\ accounts[a].subject # NoOne => linked.subject = accounts[a].subject
      /\ linked.row = TRUE /\ accounts[a].row = TRUE
  <2>1. accounts[a].row = TRUE
    BY <1>d, <1>2 DEF DeskFits, LinkLocalId, Account
  <2> QED BY <1>1, <1>2, <2>1, StaffAssumption DEF LinksTo, Linked, Account
<1>h. UNCHANGED <<holders, redirects, spentCodes, logins, hour>>
  BY DEF LinkLocalId
<1>4. CASE \E x \in Addresses \ {a} : accounts[x].subject = linked.subject
  <2>1. LeaveDesk(b, desks[b].token) /\ UNCHANGED accounts
    BY <1>4 DEF LinkLocalId
  <2>2. RowsStay
    BY <2>1 DEF RowsStay, StaffInv, StaffTypeOK
  <2>3. desks' \in [Browsers -> Desk] /\ \A c \in Browsers : DeskFits(c)'
    BY <1>d, <2>1, <2>2, DeskLeft
  <2> QED BY <1>h, <2>1, <2>3 DEF StaffInv, StaffTypeOK, BoundApart, BoundHaveRows, BoundStay
<1>5. CASE ~\E x \in Addresses \ {a} : accounts[x].subject = linked.subject
  <2>1. accounts' = [accounts EXCEPT ![a] = linked] /\ StepTo(b, "mint")
    BY <1>5 DEF LinkLocalId
  <2> DEFINE d == [desks[b] EXCEPT !.step = "mint"]
  <2>2. desks' = [desks EXCEPT ![b] = d]
    BY <2>1 DEF StepTo
  <2>3. /\ d \in Desk /\ d.step = "mint" /\ d.subject \in Subjects
        /\ d.ticket \in 1..MaxTickets /\ d.address \in Addresses
    BY <1>1, <1>d DEF Desk, Steps
  <2> HIDE DEF d, linked
  <2>4. /\ accounts' \in [Addresses -> Account] /\ accounts'[a] = linked
        /\ \A x \in Addresses \ {a} : accounts'[x] = accounts[x]
    BY <1>1, <1>3, <2>1 DEF StaffInv, StaffTypeOK
  <2>5. BoundApart' /\ BoundStay /\ BoundHaveRows' /\ RowsStay
    BY <1>1, <1>3, <1>5, <2>4
    DEF StaffInv, BoundApart, BoundStay, BoundHaveRows, RowsStay
  <2>6. desks' \in [Browsers -> Desk] /\ \A c \in Browsers : DeskFits(c)'
    BY <1>3, <2>2, <2>3, <2>5, OneDeskMoves DEF d
  <2> QED BY <1>h, <2>4, <2>5, <2>6 DEF StaffInv, StaffTypeOK
<1> QED BY <1>4, <1>5

LEMMA OperatorInv ==
  ASSUME StaffInv, NEW b \in Browsers, WriteOperator(b)
  PROVE  StaffInv' /\ BoundStay
<1> DEFINE a == desks[b].address
<1>d. /\ desks[b] \in Desk /\ DeskFits(b)
      /\ desks[b].token \in 0..MaxTickets /\ desks[b].ticket \in 0..MaxTickets
  BY DeskIs
<1>1. a \in Addresses /\ desks[b].role \in Roles
  BY <1>d DEF DeskFits, WriteOperator, AtDesk
<1>2. accounts[a] \in Account
  BY <1>1 DEF StaffInv, StaffTypeOK
<1>3. PICK entry \in Account :
        /\ accounts' = [accounts EXCEPT ![a] = entry]
        /\ \/ entry.row = accounts[a].row /\ entry.subject = accounts[a].subject
           \/ entry.row = TRUE /\ entry.subject = NoOne /\ accounts[a].row = FALSE
  <2>1. [accounts[a] EXCEPT !.role = desks[b].role] \in Account
    BY <1>1, <1>2 DEF Account
  <2>2. [NoAccount EXCEPT !.row = TRUE, !.role = desks[b].role] \in Account
    BY <1>1 DEF Account, NoAccount
  <2>3. accounts' = [accounts EXCEPT ![a] =
          IF desks[b].read.row THEN [accounts[a] EXCEPT !.role = desks[b].role]
          ELSE IF accounts[a].row THEN accounts[a]
          ELSE [NoAccount EXCEPT !.row = TRUE, !.role = desks[b].role]]
    BY DEF WriteOperator
  <2>4. CASE desks[b].read.row
    BY <1>2, <2>1, <2>3, <2>4 DEF Account
  <2>5. CASE ~desks[b].read.row /\ accounts[a].row
    BY <1>2, <2>3, <2>5 DEF Account
  <2>6. CASE ~desks[b].read.row /\ ~accounts[a].row
    BY <1>2, <2>2, <2>3, <2>6 DEF Account, NoAccount
  <2> QED BY <2>4, <2>5, <2>6
<1>4. /\ accounts' \in [Addresses -> Account] /\ accounts'[a] = entry
      /\ \A x \in Addresses \ {a} : accounts'[x] = accounts[x]
  BY <1>1, <1>3 DEF StaffInv, StaffTypeOK
<1>5. BoundStay /\ RowsStay /\ BoundHaveRows'
  BY <1>1, <1>3, <1>4 DEF StaffInv, StaffTypeOK, BoundHaveRows, BoundStay, RowsStay
<1>6. BoundApart'
  <2>1. entry.subject # NoOne => entry.subject = accounts[a].subject
    BY <1>3
  <2> HIDE DEF a
  <2> QED BY <1>1, <1>4, <2>1 DEF StaffInv, BoundApart
<1> DEFINE d == [IdleDesk EXCEPT !.token = desks[b].token, !.ticket = desks[b].ticket]
<1>7. d \in Desk /\ d.step = "idle"
  <2>1. NoAccount \in Account
    BY DEF NoAccount, Account
  <2> HIDE DEF NoAccount
  <2> QED BY <1>d, <2>1, StaffAssumption DEF IdleDesk, Desk, Steps
<1>8. desks' = [desks EXCEPT ![b] = d]
  BY DEF WriteOperator
<1> HIDE DEF d, a
<1>9. desks' \in [Browsers -> Desk] /\ \A c \in Browsers : DeskFits(c)'
  BY <1>5, <1>7, <1>8, OneDeskMoves
<1> QED BY <1>4, <1>5, <1>6, <1>9 DEF StaffInv, StaffTypeOK, WriteOperator

LEMMA WithdrawInv ==
  ASSUME StaffInv, NEW a \in Addresses, Withdraw(a)
  PROVE  StaffInv' /\ BoundStay
<1> DEFINE entry == [accounts[a] EXCEPT !.disabled = TRUE]
<1>1. accounts[a] \in Account
  BY DEF StaffInv, StaffTypeOK
<1>2. /\ entry \in Account /\ entry.row = accounts[a].row
      /\ entry.subject = accounts[a].subject
  BY <1>1 DEF Account
<1>3. accounts' = [accounts EXCEPT ![a] = entry]
  BY DEF Withdraw
<1> HIDE DEF entry
<1>4. /\ accounts' \in [Addresses -> Account] /\ accounts'[a] = entry
      /\ \A x \in Addresses \ {a} : accounts'[x] = accounts[x]
  BY <1>3, <1>2 DEF StaffInv, StaffTypeOK
<1>5. RowsStay /\ BoundStay /\ BoundApart' /\ BoundHaveRows'
  BY <1>2, <1>4 DEF StaffInv, RowsStay, BoundStay, BoundApart, BoundHaveRows
<1>6. ASSUME NEW c \in Browsers PROVE DeskFits(c)'
  <2>1. DeskFits(c) /\ desks' = desks
    BY DEF StaffInv, Withdraw
  <2>2. AtDesk(c, "bind") => desks[c].address \in Addresses
    BY <2>1 DEF DeskFits, AtDesk
  <2>3. \A x \in Addresses : accounts[x] \in Account
    BY DEF StaffInv, StaffTypeOK
  <2>4. AtDesk(c, "bind") => accounts'[desks[c].address].row = TRUE
    BY <2>1, <2>2, <2>3, <1>5 DEF DeskFits, Account, RowsStay
  <2> QED BY <2>1, <2>4 DEF DeskFits, AtDesk
<1> QED BY <1>4, <1>5, <1>6 DEF StaffInv, StaffTypeOK, Withdraw

LEMMA StaffInvNext == StaffInv /\ [StaffNext]_staffVars => StaffInv' /\ BoundStay
<1> SUFFICES ASSUME StaffInv, [StaffNext]_staffVars PROVE StaffInv' /\ BoundStay
  OBVIOUS
<1>1. CASE UNCHANGED staffVars
  BY <1>1 DEF staffVars, StaffInv, StaffTypeOK, BoundApart, BoundHaveRows, BoundStay,
              DeskFits, AtDesk
<1>2. ASSUME NEW b \in Browsers, DeskSteps(b) PROVE StaffInv' /\ BoundStay
  BY <1>2, DeskStepsInv DEF BoundStay
<1>3. ASSUME NEW a \in Addresses, NEW s \in Subjects, RecreateAddress(a, s)
      PROVE  StaffInv' /\ BoundStay
  BY <1>3 DEF RecreateAddress, StaffInv, StaffTypeOK, BoundApart, BoundHaveRows,
              BoundStay, DeskFits, AtDesk
<1>4. ASSUME StaffHourPasses PROVE StaffInv' /\ BoundStay
  <2>1. hour' \in 0..MaxHour
    BY <1>4, StaffAssumption DEF StaffHourPasses, StaffInv, StaffTypeOK
  <2> QED BY <1>4, <2>1 DEF StaffHourPasses, StaffInv, StaffTypeOK, BoundApart,
              BoundHaveRows, BoundStay, DeskFits, AtDesk
<1> QED
  BY <1>1, <1>2, <1>3, <1>4, LinkInv, OperatorInv, WithdrawInv DEF StaffNext, DeskSteps

\* The office's accounts, desks, tickets and sessions keep their types.
THEOREM StaffTypeCorrect == StaffSpec => []StaffTypeOK
<1>1. StaffInv => StaffTypeOK
  BY DEF StaffInv
<1> QED BY <1>1, StaffInitInv, StaffInvNext, PTL DEF StaffSpec

\* However many browsers come back from Google at once, whatever is withdrawn
\* or recreated meanwhile: a row that is bound stays bound to the same Google
\* account, and no Google account is bound to two rows (accounts.ts:173-179).
THEOREM AccountsAreBoundOnce == StaffSpec => RowIsBoundOnce
<1>1. StaffInv /\ StaffInv' /\ BoundStay =>
        /\ \A a \in Addresses :
             accounts[a].subject # NoOne => accounts'[a].subject = accounts[a].subject
        /\ \A a, b \in Addresses :
             a # b /\ accounts'[a].subject # NoOne => accounts'[a].subject # accounts'[b].subject
  BY DEF StaffInv, BoundApart, BoundStay
<1> QED BY <1>1, StaffInitInv, StaffInvNext, PTL DEF StaffSpec, RowIsBoundOnce

-----------------------------------------------------------------------------
(* The filings.  A filing past its reading and short of its line is owed   *)
(* to the count; a filing that reads was let in while the count, with all  *)
(* that was owed to it, was under the cap.                                 *)
AtReading == {f \in Filers : FilingAt(f, "read")}
LateSteps == {"lookup", "put", "ingest", "link", "bind", "audit"}
Owed == {f \in Filers : filings[f].at \in LateSteps}

FilingFits(f) ==
  /\ ~FilingAt(f, "idle") => filings[f].paper \in Papers /\ filings[f].place \in Places
  /\ FilingAt(f, "ingest") => Filed(filings[f].paper) \/ PathOf(f) \in objects

FilingInv ==
  /\ FilingTypeOK /\ RowHasItsObject
  /\ \A f \in Filers : FilingFits(f)
  /\ spent <= counted + thrown + Cardinality(Owed)
  /\ spent + Cardinality(AtReading) <= UploadsPerDay + Cardinality(Filers) - 1 + thrown

\* Counting the requests in hand.
LEMMA FilersCount ==
  ASSUME NEW S \in SUBSET Filers, NEW f \in Filers
  PROVE  /\ IsFiniteSet(S) /\ Cardinality(S) \in Nat
         /\ Cardinality(S) <= Cardinality(Filers) /\ Cardinality(Filers) \in Nat
         /\ Cardinality(S \cup {f}) = IF f \in S THEN Cardinality(S) ELSE Cardinality(S) + 1
         /\ Cardinality(S \ {f}) = IF f \in S THEN Cardinality(S) - 1 ELSE Cardinality(S)
<1>1. IsFiniteSet(Filers)
  BY FilingAssumption
<1>2. /\ IsFiniteSet(S) /\ Cardinality(S) <= Cardinality(Filers)
  BY <1>1, FS_Subset
<1>3. Cardinality(S) \in Nat /\ Cardinality(Filers) \in Nat
  BY <1>1, <1>2, FS_CardinalityType
<1>4. Cardinality(S \cup {f}) = IF f \in S THEN Cardinality(S) ELSE Cardinality(S) + 1
  BY <1>2, FS_AddElement
<1>5. Cardinality(S \ {f}) = IF f \in S THEN Cardinality(S) - 1 ELSE Cardinality(S)
  BY <1>2, FS_RemoveElement
<1> QED BY <1>2, <1>3, <1>4, <1>5

LEMMA FilersApart ==
  ASSUME NEW S \in SUBSET Filers, NEW T \in SUBSET Filers, S \cap T = {}
  PROVE  Cardinality(S) + Cardinality(T) <= Cardinality(Filers)
<1>1. IsFiniteSet(Filers)
  BY FilingAssumption
<1>2. IsFiniteSet(S) /\ IsFiniteSet(T)
  BY <1>1, FS_Subset
<1>3. Cardinality(S \cup T) = Cardinality(S) + Cardinality(T) - Cardinality({})
  BY <1>2, FS_Union
<1>4. Cardinality({}) = 0
  BY FS_EmptySet
<1>5. Cardinality(S \cup T) <= Cardinality(Filers)
  BY <1>1, FS_Subset
<1>6. Cardinality(S) \in Nat /\ Cardinality(T) \in Nat
  BY <1>2, FS_CardinalityType
<1> QED BY <1>3, <1>4, <1>5, <1>6

\* The requests in hand after one of them moves.
LEMMA FilerMoves ==
  ASSUME FilingTypeOK, NEW f \in Filers, NEW g \in FilingInHand,
         filings' = [filings EXCEPT ![f] = g]
  PROVE  /\ filings' \in [Filers -> FilingInHand] /\ filings'[f] = g
         /\ \A h \in Filers \ {f} : filings'[h] = filings[h]
         /\ Owed' = IF g.at \in LateSteps THEN Owed \cup {f} ELSE Owed \ {f}
         /\ AtReading' = IF g.at = "read" THEN AtReading \cup {f} ELSE AtReading \ {f}
<1>1. /\ filings' \in [Filers -> FilingInHand] /\ filings'[f] = g
      /\ \A h \in Filers \ {f} : filings'[h] = filings[h]
  BY DEF FilingTypeOK
<1> QED BY <1>1 DEF Owed, AtReading, FilingAt

\* A filing that moves to g reads, counts and throws at most once, and what it
\* reads without counting it stays owed.
NotLate(step) == IF step \in LateSteps THEN 0 ELSE 1
FilingMoves(f, g, reads, counts, throws) ==
  /\ filings' = [filings EXCEPT ![f] = g]
  /\ spent' = spent + reads /\ counted' = counted + counts /\ thrown' = thrown + throws
  /\ ~FilingAt(f, "idle") /\ g.at # "read"
  /\ reads = 1 => FilingAt(f, "read")
  /\ reads + NotLate(g.at) <= counts + throws + NotLate(filings[f].at)

LEMMA BooksOfFiling ==
  ASSUME FilingInv, NEW f \in Filers, NEW g \in FilingInHand,
         NEW reads \in {0, 1}, NEW counts \in {0, 1}, NEW throws \in {0, 1},
         FilingMoves(f, g, reads, counts, throws)
  PROVE  /\ spent' <= counted' + thrown' + Cardinality(Owed')
         /\ spent' + Cardinality(AtReading') <= UploadsPerDay + Cardinality(Filers) - 1 + thrown'
<1>1. /\ Owed' = IF g.at \in LateSteps THEN Owed \cup {f} ELSE Owed \ {f}
      /\ AtReading' = AtReading \ {f}
  BY FilerMoves DEF FilingInv, FilingMoves
<1>2. Owed \in SUBSET Filers /\ AtReading \in SUBSET Filers
  BY DEF Owed, AtReading
<1>3. f \in Owed <=> filings[f].at \in LateSteps
  BY DEF Owed
<1>4. f \in AtReading <=> FilingAt(f, "read")
  BY DEF AtReading
<1>5. counted \in Nat /\ spent \in Nat /\ thrown \in Nat
  BY FilingAssumption DEF FilingInv, FilingTypeOK
<1>6. /\ spent <= counted + thrown + Cardinality(Owed)
      /\ spent + Cardinality(AtReading) <= UploadsPerDay + Cardinality(Filers) - 1 + thrown
  BY DEF FilingInv
<1>7. UploadsPerDay \in Nat
  BY FilingAssumption
<1>8. /\ Cardinality(Owed) \in Nat /\ Cardinality(Filers) \in Nat
      /\ Cardinality(Owed \cup {f}) = IF f \in Owed THEN Cardinality(Owed) ELSE Cardinality(Owed) + 1
      /\ Cardinality(Owed \ {f}) = IF f \in Owed THEN Cardinality(Owed) - 1 ELSE Cardinality(Owed)
  BY <1>2, FilersCount
<1>9. /\ Cardinality(AtReading) \in Nat
      /\ Cardinality(AtReading \ {f}) = IF f \in AtReading THEN Cardinality(AtReading) - 1 ELSE Cardinality(AtReading)
  BY <1>2, FilersCount
<1>10. Cardinality(Owed') = Cardinality(Owed) + NotLate(filings[f].at) - NotLate(g.at)
  <2>1. CASE g.at \in LateSteps
    BY <1>1, <1>3, <1>8, <2>1 DEF NotLate
  <2>2. CASE g.at \notin LateSteps
    BY <1>1, <1>3, <1>8, <2>2 DEF NotLate
  <2> QED BY <2>1, <2>2
<1>11. NotLate(filings[f].at) \in {0, 1} /\ NotLate(g.at) \in {0, 1}
  BY DEF NotLate
<1>12. /\ spent' = spent + reads /\ counted' = counted + counts /\ thrown' = thrown + throws
       /\ reads + NotLate(g.at) <= counts + throws + NotLate(filings[f].at)
       /\ reads = 1 => f \in AtReading
  BY <1>4 DEF FilingMoves
<1>13. spent' <= counted' + thrown' + Cardinality(Owed')
  BY <1>5, <1>6, <1>8, <1>10, <1>11, <1>12
<1>14. spent' + Cardinality(AtReading') <= UploadsPerDay + Cardinality(Filers) - 1 + thrown'
  <2>1. Cardinality(AtReading') <= Cardinality(AtReading) - reads /\ Cardinality(AtReading') \in Int
    BY <1>1, <1>9, <1>12
  <2> QED BY <1>5, <1>6, <1>7, <1>8, <1>9, <1>12, <2>1
<1> QED BY <1>13, <1>14

\* What no step undoes: an object, and the place of a row.
FilesStay ==
  objects \subseteq objects' /\ \A p \in Papers : Filed(p) => documents'[p] = documents[p]

LEMMA OtherFilingsFit ==
  ASSUME FilingInv, FilesStay, NEW h \in Filers, filings'[h] = filings[h]
  PROVE  FilingFits(h)'
<1>1. FilingFits(h)
  BY DEF FilingInv
<1>2. FilingAt(h, "ingest") => Filed(filings[h].paper)' \/ PathOf(h)' \in objects'
  <2> SUFFICES ASSUME FilingAt(h, "ingest")
               PROVE  Filed(filings[h].paper)' \/ PathOf(h)' \in objects'
    OBVIOUS
  <2>1. filings[h].paper \in Papers
    BY <1>1 DEF FilingFits, FilingAt
  <2>2. CASE Filed(filings[h].paper)
    BY <2>1, <2>2 DEF FilesStay, Filed
  <2>3. CASE PathOf(h) \in objects
    BY <2>3 DEF FilesStay, PathOf
  <2> QED BY <1>1, <2>2, <2>3 DEF FilingFits
<1> QED BY <1>1, <1>2 DEF FilingFits, FilingAt

LEMMA RowsKeepObjects ==
  ASSUME RowHasItsObject, FilesStay,
         \A p \in Papers : ~Filed(p) /\ Filed(p)' => <<documents'[p], p>> \in objects'
  PROVE  RowHasItsObject'
<1> SUFFICES ASSUME NEW p \in Papers, Filed(p)'
             PROVE  <<documents'[p], p>> \in objects'
  BY DEF RowHasItsObject
<1>1. CASE Filed(p)
  BY <1>1 DEF RowHasItsObject, FilesStay
<1> QED BY <1>1

LEMMA FilingIs ==
  ASSUME FilingInv, NEW f \in Filers
  PROVE  /\ filings[f] \in FilingInHand /\ FilingFits(f)
         /\ NoFiling \in FilingInHand /\ NoFiling.at = "idle"
         /\ counted \in Nat /\ spent \in Nat /\ thrown \in 0..MaxThrown
         /\ \A step \in FilingSteps :
              /\ [filings[f] EXCEPT !.at = step] \in FilingInHand
              /\ [filings[f] EXCEPT !.at = step].at = step
              /\ [filings[f] EXCEPT !.at = step].paper = filings[f].paper
              /\ [filings[f] EXCEPT !.at = step].place = filings[f].place
BY DEF FilingInv, FilingTypeOK, FilingInHand, NoFiling, FilingSteps

\* The state after one filing has moved to g.
LEMMA FilingStepInv ==
  ASSUME FilingInv, NEW f \in Filers, NEW g \in FilingInHand,
         filings' = [filings EXCEPT ![f] = g],
         g.at # "idle" => g.paper \in Papers /\ g.place \in Places,
         g.at = "ingest" => Filed(g.paper)' \/ <<g.place, g.paper>> \in objects',
         FilesStay, \A p \in Papers : ~Filed(p) /\ Filed(p)' => <<documents'[p], p>> \in objects',
         objects' \subseteq Places \X Papers,
         documents' \in [Papers -> Places \cup {Nowhere}],
         subjects' \in [Papers -> SUBSET Flats],
         bounded' \subseteq Papers, extracts' \subseteq Papers,
         counted' \in Nat, spent' \in Nat, thrown' \in 0..MaxThrown,
         spent' <= counted' + thrown' + Cardinality(Owed'),
         spent' + Cardinality(AtReading') <= UploadsPerDay + Cardinality(Filers) - 1 + thrown'
  PROVE  FilingInv'
<1>1. /\ filings' \in [Filers -> FilingInHand] /\ filings'[f] = g
      /\ \A h \in Filers \ {f} : filings'[h] = filings[h]
  BY FilerMoves DEF FilingInv
<1>2. FilingFits(f)'
  BY <1>1 DEF FilingFits, FilingAt, PathOf
<1>3. \A h \in Filers : FilingFits(h)'
  BY <1>1, <1>2, OtherFilingsFit
<1>4. FilingTypeOK'
  BY <1>1 DEF FilingTypeOK
<1>5. RowHasItsObject'
  BY RowsKeepObjects DEF FilingInv
<1> QED BY <1>3, <1>4, <1>5 DEF FilingInv

\* The steps that write neither an object nor a row.
LEMMA UnwrittenInv ==
  ASSUME FilingInv, NEW f \in Filers, NEW g \in FilingInHand,
         filings' = [filings EXCEPT ![f] = g], UNCHANGED <<objects, documents>>,
         g.at # "idle" => g.paper \in Papers /\ g.place \in Places,
         g.at = "ingest" => Filed(g.paper) \/ <<g.place, g.paper>> \in objects,
         subjects' \in [Papers -> SUBSET Flats],
         bounded' \subseteq Papers, extracts' \subseteq Papers,
         counted' \in Nat, spent' \in Nat, thrown' \in 0..MaxThrown,
         spent' <= counted' + thrown' + Cardinality(Owed'),
         spent' + Cardinality(AtReading') <= UploadsPerDay + Cardinality(Filers) - 1 + thrown'
  PROVE  FilingInv'
<1>1. FilesStay /\ \A p \in Papers : Filed(p)' <=> Filed(p)
  BY DEF FilesStay, Filed
<1>2. g.at = "ingest" => Filed(g.paper)' \/ <<g.place, g.paper>> \in objects'
  BY DEF Filed
<1>3. objects' \subseteq Places \X Papers /\ documents' \in [Papers -> Places \cup {Nowhere}]
  BY DEF FilingInv, FilingTypeOK
<1> QED BY <1>1, <1>2, <1>3, FilingStepInv

LEMMA FilingInitInv == FilingInit => FilingInv
<1> SUFFICES ASSUME FilingInit PROVE FilingInv
  OBVIOUS
<1>1. NoFiling \in FilingInHand /\ NoFiling.at = "idle"
  BY DEF NoFiling, FilingInHand, FilingSteps
<1> HIDE DEF NoFiling
<1>2. FilingTypeOK
  BY <1>1, FilingAssumption DEF FilingInit, FilingTypeOK
<1>3. \A f \in Filers : FilingFits(f) /\ filings[f].at = "idle"
  BY <1>1 DEF FilingInit, FilingFits, FilingAt
<1>4. Owed = {} /\ AtReading = {}
  BY <1>3 DEF Owed, LateSteps, AtReading, FilingAt
<1>5. Cardinality({}) = 0 /\ Cardinality(Filers) \in Nat
  BY FS_EmptySet, FS_CardinalityType, FilingAssumption
<1>6. /\ spent <= counted + thrown + Cardinality(Owed)
      /\ spent + Cardinality(AtReading) <= UploadsPerDay + Cardinality(Filers) - 1 + thrown
  BY <1>4, <1>5, FilingAssumption DEF FilingInit
<1>7. RowHasItsObject
  BY DEF FilingInit, RowHasItsObject, Filed
<1> QED BY <1>2, <1>3, <1>6, <1>7 DEF FilingInv

LEMMA UploadInv ==
  ASSUME FilingInv, NEW f \in Filers, NEW p \in Papers, NEW place \in Places,
         NEW form \in BOOLEAN, Upload(f, p, place, form)
  PROVE  FilingInv'
<1> DEFINE g == [at |-> "read", paper |-> p, place |-> place, letting |-> form]
<1>1. /\ g \in FilingInHand /\ g.at = "read" /\ g.paper \in Papers /\ g.place \in Places
  BY DEF FilingInHand, FilingSteps
<1>2. filings' = [filings EXCEPT ![f] = g]
  BY DEF Upload
<1> HIDE DEF g
<1>3. Owed' = Owed \ {f} /\ AtReading' = AtReading \cup {f}
  BY <1>1, <1>2, FilerMoves DEF FilingInv, LateSteps
<1>4. f \notin Owed /\ f \notin AtReading
  BY DEF Owed, LateSteps, AtReading, FilingAt, Upload
<1>5. Owed \in SUBSET Filers /\ AtReading \cup {f} \in SUBSET Filers
  BY DEF Owed, AtReading
<1>6. Owed \cap (AtReading \cup {f}) = {}
  BY <1>4 DEF Owed, AtReading, LateSteps, FilingAt
<1>7. Cardinality(Owed) + Cardinality(AtReading \cup {f}) <= Cardinality(Filers)
  BY <1>5, <1>6, FilersApart
<1>8. /\ Cardinality(Owed) \in Nat /\ Cardinality(Filers) \in Nat
      /\ Cardinality(AtReading \cup {f}) \in Nat
      /\ Owed' = Owed
  <2>1. Cardinality(Owed) \in Nat /\ Cardinality(Filers) \in Nat
    BY <1>5, FilersCount
  <2>2. Cardinality(AtReading \cup {f}) \in Nat
    BY <1>5, FilersCount
  <2>3. Owed' = Owed
    BY <1>3, <1>4
  <2> QED BY <2>1, <2>2, <2>3
<1>9. /\ spent <= counted + thrown + Cardinality(Owed)
      /\ counted < UploadsPerDay /\ UploadsPerDay \in Nat
      /\ counted \in Nat /\ spent \in Nat /\ thrown \in Nat
  BY FilingAssumption DEF FilingInv, FilingTypeOK, Upload, UnderTheCap
<1>10. counted' = counted /\ spent' = spent /\ thrown' = thrown
  BY DEF Upload
<1>11. /\ spent' <= counted' + thrown' + Cardinality(Owed')
       /\ spent' + Cardinality(AtReading') <= UploadsPerDay + Cardinality(Filers) - 1 + thrown'
  <2>1. Cardinality(AtReading') = Cardinality(AtReading \cup {f})
    BY <1>3
  <2>2. Cardinality(Owed') = Cardinality(Owed)
    BY <1>8
  <2>3. spent' <= counted' + thrown' + Cardinality(Owed')
    BY <1>9, <1>10, <2>2
  <2>4. spent + Cardinality(AtReading \cup {f}) <= counted + thrown + Cardinality(Filers)
    BY <1>7, <1>8, <1>9
  <2>5. spent + Cardinality(AtReading \cup {f}) <= UploadsPerDay + Cardinality(Filers) - 1 + thrown
    BY <1>8, <1>9, <2>4
  <2> QED BY <1>10, <2>1, <2>3, <2>5
<1>12. /\ UNCHANGED <<objects, documents>> /\ subjects' \in [Papers -> SUBSET Flats]
       /\ bounded' \subseteq Papers /\ extracts' \subseteq Papers
       /\ counted' \in Nat /\ spent' \in Nat /\ thrown' \in 0..MaxThrown
  BY DEF FilingInv, FilingTypeOK, Upload, Unwritten
<1> QED BY <1>1, <1>2, <1>11, <1>12, UnwrittenInv

\* The steps that end a filing, or let it go on, and write no row.
EndsOrGoesOn(f) ==
  \/ LeaseDoorKnows(f) \/ LeaseDoorRefuses(f) \/ ReadPaper(f) \/ RefusedReading(f)
  \/ LookUp(f) \/ PutRefused(f) \/ AuditFiling(f) \/ CutOff(f)

LEMMA EndsOrGoesOnInv ==
  ASSUME FilingInv, NEW f \in Filers, EndsOrGoesOn(f)
  PROVE  FilingInv'
<1>i. /\ filings[f] \in FilingInHand /\ FilingFits(f)
      /\ NoFiling \in FilingInHand /\ NoFiling.at = "idle"
      /\ counted \in Nat /\ spent \in Nat /\ thrown \in 0..MaxThrown
      /\ \A step \in FilingSteps :
           /\ [filings[f] EXCEPT !.at = step] \in FilingInHand
           /\ [filings[f] EXCEPT !.at = step].at = step
           /\ [filings[f] EXCEPT !.at = step].paper = filings[f].paper
           /\ [filings[f] EXCEPT !.at = step].place = filings[f].place
  BY FilingIs
<1>m. MaxThrown \in Nat /\ thrown \in Nat
  BY <1>i, FilingAssumption
<1>u. /\ UNCHANGED <<objects, documents>> /\ subjects' \in [Papers -> SUBSET Flats]
      /\ bounded' \subseteq Papers /\ extracts' \subseteq Papers
  BY DEF FilingInv, FilingTypeOK, EndsOrGoesOn, LeaseDoorKnows, LeaseDoorRefuses, ReadPaper,
         RefusedReading, LookUp, PutRefused, AuditFiling, CutOff, Unwritten
<1> HIDE DEF NoFiling
<1>1. PICK g \in FilingInHand, reads \in {0, 1}, counts \in {0, 1}, throws \in {0, 1} :
        /\ FilingMoves(f, g, reads, counts, throws)
        /\ thrown' \in 0..MaxThrown
        /\ g.at # "idle" => g.paper \in Papers /\ g.place \in Places
        /\ g.at = "ingest" => Filed(g.paper) \/ <<g.place, g.paper>> \in objects
  <2>1. CASE LeaseDoorKnows(f) \/ LeaseDoorRefuses(f)
    <3> DEFINE g == NoFiling
    <3>1. g \in FilingInHand /\ g.at = "idle"
      BY <1>i
    <3>2. filings' = [filings EXCEPT ![f] = g] /\ FilingAt(f, "read")
      BY <2>1 DEF LeaseDoorKnows, LeaseDoorRefuses, FilingEnds
    <3>n. NotLate(g.at) = 1 /\ NotLate(filings[f].at) \in {1}
      BY <3>1, <3>2 DEF FilingAt, NotLate, LateSteps
    <3>g. g.at # "read"
      BY <3>1
    <3>3. spent' = spent /\ counted' = counted /\ thrown' = thrown
      BY <2>1 DEF LeaseDoorKnows, LeaseDoorRefuses
    <3> HIDE DEF g
    <3>4. FilingMoves(f, g, 0, 0, 0)
      <4>1. ~FilingAt(f, "idle")
        BY <3>2 DEF FilingAt
      <4>2. spent' = spent + 0 /\ counted' = counted + 0 /\ thrown' = thrown + 0
        BY <1>i, <1>m, <3>3
      <4>3. 0 + NotLate(g.at) <= 0 + 0 + NotLate(filings[f].at)
        BY <3>n
      <4> QED BY <3>2, <3>g, <4>1, <4>2, <4>3 DEF FilingMoves
    <3>5. thrown' \in 0..MaxThrown
      BY <1>i, <3>3
    <3> QED BY <3>1, <3>4, <3>5
  <2>2. CASE ReadPaper(f)
    <3> DEFINE g == [filings[f] EXCEPT !.at = "lookup"]
    <3>1. /\ g \in FilingInHand /\ g.at = "lookup"
          /\ g.paper = filings[f].paper /\ g.place = filings[f].place
      BY <1>i DEF FilingSteps
    <3>2. filings' = [filings EXCEPT ![f] = g] /\ FilingAt(f, "read")
      BY <2>2 DEF ReadPaper, FilingGoes
    <3>n. NotLate(g.at) = 0 /\ NotLate(filings[f].at) = 1
      BY <3>1, <3>2 DEF FilingAt, NotLate, LateSteps
    <3>g. g.at # "read" /\ g.at # "idle"
      BY <3>1
    <3>3. spent' = spent + 1 /\ counted' = counted /\ thrown' = thrown
      BY <2>2 DEF ReadPaper
    <3> HIDE DEF g
    <3>4. FilingMoves(f, g, 1, 0, 0)
      <4>1. ~FilingAt(f, "idle")
        BY <3>2 DEF FilingAt
      <4>2. spent' = spent + 1 /\ counted' = counted + 0 /\ thrown' = thrown + 0
        BY <1>i, <1>m, <3>3
      <4>3. 1 + NotLate(g.at) <= 0 + 0 + NotLate(filings[f].at)
        BY <3>n
      <4> QED BY <3>2, <3>g, <4>1, <4>2, <4>3 DEF FilingMoves
    <3>5. thrown' \in 0..MaxThrown
      BY <1>i, <3>3
    <3>6. /\ g.paper \in Papers /\ g.place \in Places
          /\ g.at = "ingest" => Filed(g.paper)
      BY <1>i, <3>1, <3>2 DEF FilingFits, FilingAt
    <3> QED BY <3>1, <3>4, <3>5, <3>6
  <2>3. CASE RefusedReading(f)
    <3> DEFINE g == NoFiling
    <3>1. g \in FilingInHand /\ g.at = "idle"
      BY <1>i
    <3>2. filings' = [filings EXCEPT ![f] = g] /\ FilingAt(f, "read")
      BY <2>3 DEF RefusedReading, FilingEnds
    <3>n. NotLate(g.at) = 1 /\ NotLate(filings[f].at) \in {1}
      BY <3>1, <3>2 DEF FilingAt, NotLate, LateSteps
    <3>g. g.at # "read"
      BY <3>1
    <3>3. spent' = spent + 1 /\ counted' = counted + 1 /\ thrown' = thrown
      BY <2>3 DEF RefusedReading
    <3> HIDE DEF g
    <3>4. FilingMoves(f, g, 1, 1, 0)
      <4>1. ~FilingAt(f, "idle")
        BY <3>2 DEF FilingAt
      <4>2. spent' = spent + 1 /\ counted' = counted + 1 /\ thrown' = thrown + 0
        BY <1>i, <1>m, <3>3
      <4>3. 1 + NotLate(g.at) <= 1 + 0 + NotLate(filings[f].at)
        BY <3>n
      <4> QED BY <3>2, <3>g, <4>1, <4>2, <4>3 DEF FilingMoves
    <3>5. thrown' \in 0..MaxThrown
      BY <1>i, <3>3
    <3> QED BY <3>1, <3>4, <3>5
  <2>4. CASE LookUp(f) /\ AnchoredElsewhere(f)
    <3> DEFINE g == NoFiling
    <3>1. g \in FilingInHand /\ g.at = "idle"
      BY <1>i
    <3>2. filings' = [filings EXCEPT ![f] = g] /\ FilingAt(f, "lookup")
      BY <2>4 DEF LookUp, FilingEnds
    <3>n. NotLate(g.at) = 1 /\ NotLate(filings[f].at) \in {0, 1}
      BY <3>1, <3>2 DEF FilingAt, NotLate, LateSteps
    <3>g. g.at # "read"
      BY <3>1
    <3>3. spent' = spent /\ counted' = counted + 1 /\ thrown' = thrown
      BY <2>4 DEF LookUp
    <3> HIDE DEF g
    <3>4. FilingMoves(f, g, 0, 1, 0)
      <4>1. ~FilingAt(f, "idle")
        BY <3>2 DEF FilingAt
      <4>2. spent' = spent + 0 /\ counted' = counted + 1 /\ thrown' = thrown + 0
        BY <1>i, <1>m, <3>3
      <4>3. 0 + NotLate(g.at) <= 1 + 0 + NotLate(filings[f].at)
        BY <3>n
      <4> QED BY <3>2, <3>g, <4>1, <4>2, <4>3 DEF FilingMoves
    <3>5. thrown' \in 0..MaxThrown
      BY <1>i, <3>3
    <3> QED BY <3>1, <3>4, <3>5
  <2>5. CASE LookUp(f) /\ ~AnchoredElsewhere(f)
    <3>0. PICK step \in {"ingest", "put"} :
            FilingGoes(f, step) /\ (step = "ingest" => Filed(filings[f].paper))
      BY <2>5 DEF LookUp, AfterLookup
    <3> DEFINE g == [filings[f] EXCEPT !.at = step]
    <3>1. /\ g \in FilingInHand /\ g.at = step
          /\ g.paper = filings[f].paper /\ g.place = filings[f].place
      BY <1>i DEF FilingSteps
    <3>2. filings' = [filings EXCEPT ![f] = g] /\ FilingAt(f, "lookup")
      BY <2>5, <3>0 DEF LookUp, FilingGoes
    <3>n. NotLate(g.at) = 0 /\ NotLate(filings[f].at) = 0
      BY <3>1, <3>2 DEF FilingAt, NotLate, LateSteps
    <3>g. g.at # "read" /\ g.at # "idle"
      BY <3>1
    <3>3. spent' = spent /\ counted' = counted /\ thrown' = thrown
      BY <2>5 DEF LookUp
    <3> HIDE DEF g
    <3>4. FilingMoves(f, g, 0, 0, 0)
      <4>1. ~FilingAt(f, "idle")
        BY <3>2 DEF FilingAt
      <4>2. spent' = spent + 0 /\ counted' = counted + 0 /\ thrown' = thrown + 0
        BY <1>i, <1>m, <3>3
      <4>3. 0 + NotLate(g.at) <= 0 + 0 + NotLate(filings[f].at)
        BY <3>n
      <4> QED BY <3>2, <3>g, <4>1, <4>2, <4>3 DEF FilingMoves
    <3>5. thrown' \in 0..MaxThrown
      BY <1>i, <3>3
    <3>6. /\ g.paper \in Papers /\ g.place \in Places
          /\ g.at = "ingest" => Filed(g.paper)
      BY <1>i, <3>0, <3>1, <3>2 DEF FilingFits, FilingAt
    <3> QED BY <3>1, <3>4, <3>5, <3>6
  <2>6. CASE PutRefused(f)
    <3> DEFINE g == NoFiling
    <3>1. g \in FilingInHand /\ g.at = "idle"
      BY <1>i
    <3>2. filings' = [filings EXCEPT ![f] = g] /\ FilingAt(f, "put")
      BY <2>6 DEF PutRefused, FilingEnds
    <3>n. NotLate(g.at) = 1 /\ NotLate(filings[f].at) \in {0, 1}
      BY <3>1, <3>2 DEF FilingAt, NotLate, LateSteps
    <3>g. g.at # "read"
      BY <3>1
    <3>3. spent' = spent /\ counted' = counted /\ thrown' = thrown + 1
      BY <2>6 DEF PutRefused
    <3> HIDE DEF g
    <3>4. FilingMoves(f, g, 0, 0, 1)
      <4>1. ~FilingAt(f, "idle")
        BY <3>2 DEF FilingAt
      <4>2. spent' = spent + 0 /\ counted' = counted + 0 /\ thrown' = thrown + 1
        BY <1>i, <1>m, <3>3
      <4>3. 0 + NotLate(g.at) <= 0 + 1 + NotLate(filings[f].at)
        BY <3>n
      <4> QED BY <3>2, <3>g, <4>1, <4>2, <4>3 DEF FilingMoves
    <3>5. thrown' \in 0..MaxThrown
      BY <1>i, <1>m, <2>6, <3>3 DEF PutRefused
    <3> QED BY <3>1, <3>4, <3>5
  <2>7. CASE AuditFiling(f)
    <3> DEFINE g == [filings[f] EXCEPT !.at = "work"]
    <3>1. /\ g \in FilingInHand /\ g.at = "work"
          /\ g.paper = filings[f].paper /\ g.place = filings[f].place
      BY <1>i DEF FilingSteps
    <3>2. filings' = [filings EXCEPT ![f] = g] /\ FilingAt(f, "audit")
      BY <2>7 DEF AuditFiling, FilingGoes
    <3>n. NotLate(g.at) = 1 /\ NotLate(filings[f].at) = 0
      BY <3>1, <3>2 DEF FilingAt, NotLate, LateSteps
    <3>g. g.at # "read" /\ g.at # "idle"
      BY <3>1
    <3>3. spent' = spent /\ counted' = counted + 1 /\ thrown' = thrown
      BY <2>7 DEF AuditFiling
    <3> HIDE DEF g
    <3>4. FilingMoves(f, g, 0, 1, 0)
      <4>1. ~FilingAt(f, "idle")
        BY <3>2 DEF FilingAt
      <4>2. spent' = spent + 0 /\ counted' = counted + 1 /\ thrown' = thrown + 0
        BY <1>i, <1>m, <3>3
      <4>3. 0 + NotLate(g.at) <= 1 + 0 + NotLate(filings[f].at)
        BY <3>n
      <4> QED BY <3>2, <3>g, <4>1, <4>2, <4>3 DEF FilingMoves
    <3>5. thrown' \in 0..MaxThrown
      BY <1>i, <3>3
    <3>6. /\ g.paper \in Papers /\ g.place \in Places
          /\ g.at = "ingest" => Filed(g.paper)
      BY <1>i, <3>1, <3>2 DEF FilingFits, FilingAt
    <3> QED BY <3>1, <3>4, <3>5, <3>6
  <2>8. CASE CutOff(f)
    <3> DEFINE g == NoFiling
    <3>1. g \in FilingInHand /\ g.at = "idle"
      BY <1>i
    <3>2. filings' = [filings EXCEPT ![f] = g] /\ filings[f].at \notin {"idle", "read"}
      BY <2>8 DEF CutOff, FilingEnds
    <3>n. NotLate(g.at) = 1 /\ NotLate(filings[f].at) \in {0, 1}
      BY <3>1, <3>2 DEF FilingAt, NotLate, LateSteps
    <3>g. g.at # "read"
      BY <3>1
    <3>3. spent' = spent /\ counted' = counted /\ thrown' = thrown + 1
      BY <2>8 DEF CutOff
    <3> HIDE DEF g
    <3>4. FilingMoves(f, g, 0, 0, 1)
      <4>1. ~FilingAt(f, "idle")
        BY <3>2 DEF FilingAt
      <4>2. spent' = spent + 0 /\ counted' = counted + 0 /\ thrown' = thrown + 1
        BY <1>i, <1>m, <3>3
      <4>3. 0 + NotLate(g.at) <= 0 + 1 + NotLate(filings[f].at)
        BY <3>n
      <4> QED BY <3>2, <3>g, <4>1, <4>2, <4>3 DEF FilingMoves
    <3>5. thrown' \in 0..MaxThrown
      BY <1>i, <1>m, <2>8, <3>3 DEF CutOff
    <3> QED BY <3>1, <3>4, <3>5
  <2> QED BY <2>1, <2>2, <2>3, <2>4, <2>5, <2>6, <2>7, <2>8 DEF EndsOrGoesOn
<1>2. counted' \in Nat /\ spent' \in Nat
  BY <1>i, <1>1 DEF FilingMoves
<1>3. /\ spent' <= counted' + thrown' + Cardinality(Owed')
      /\ spent' + Cardinality(AtReading') <= UploadsPerDay + Cardinality(Filers) - 1 + thrown'
  BY <1>1, BooksOfFiling
<1>4. filings' = [filings EXCEPT ![f] = g]
  BY <1>1 DEF FilingMoves
<1> QED BY <1>1, <1>2, <1>3, <1>4, <1>u, UnwrittenInv

\* The steps that write the object, the row and what hangs on it.
Writes(f) ==
  \/ PutPaper(f) \/ IngestDocument(f) \/ LinkPlace(f) \/ BindLetting(f) \/ ScheduleExtract(f)

LEMMA WritesInv ==
  ASSUME FilingInv, NEW f \in Filers, Writes(f)
  PROVE  FilingInv'
<1> DEFINE p == filings[f].paper
           place == filings[f].place
<1>i. /\ filings[f] \in FilingInHand /\ FilingFits(f)
      /\ NoFiling \in FilingInHand /\ NoFiling.at = "idle"
      /\ counted \in Nat /\ spent \in Nat /\ thrown \in 0..MaxThrown
      /\ \A step \in FilingSteps :
           /\ [filings[f] EXCEPT !.at = step] \in FilingInHand
           /\ [filings[f] EXCEPT !.at = step].at = step
           /\ [filings[f] EXCEPT !.at = step].paper = filings[f].paper
           /\ [filings[f] EXCEPT !.at = step].place = filings[f].place
  BY FilingIs
<1>m. MaxThrown \in Nat
  BY FilingAssumption
<1>t. /\ objects \subseteq Places \X Papers
      /\ documents \in [Papers -> Places \cup {Nowhere}]
      /\ subjects \in [Papers -> SUBSET Flats]
      /\ bounded \subseteq Papers /\ extracts \subseteq Papers
  BY DEF FilingInv, FilingTypeOK
<1> HIDE DEF NoFiling
<1>1. /\ p \in Papers /\ place \in Places /\ filings[f].at \in LateSteps \cup {"work"}
      /\ ~FilingAt(f, "idle") /\ ~FilingAt(f, "read")
      /\ counted' = counted /\ spent' = spent /\ thrown' = thrown
  BY <1>i DEF Writes, PutPaper, IngestDocument, LinkPlace, BindLetting, ScheduleExtract,
              FilingFits, FilingAt, LateSteps
<1>2. PICK g \in FilingInHand :
        /\ filings' = [filings EXCEPT ![f] = g]
        /\ g.at # "idle" => g.paper = p /\ g.place = place
        /\ g.at \in LateSteps \/ (g.at = "idle" /\ filings[f].at = "work")
        /\ g.at = "ingest" => PutPaper(f)
  <2>1. CASE ScheduleExtract(f)
    <3>1. filings' = [filings EXCEPT ![f] = NoFiling] /\ filings[f].at = "work"
      BY <2>1 DEF ScheduleExtract, FilingEnds, FilingAt
    <3>2. NoFiling \in FilingInHand /\ NoFiling.at = "idle"
      BY <1>i
    <3> QED BY <3>1, <3>2
  <2>2. CASE ~ScheduleExtract(f)
    <3>1. PICK step \in {"ingest", "link", "bind", "audit"} :
            FilingGoes(f, step) /\ (step = "ingest" => PutPaper(f))
      BY <2>2 DEF Writes, PutPaper, IngestDocument, LinkPlace, BindLetting
    <3> DEFINE g == [filings[f] EXCEPT !.at = step]
    <3>2. /\ g \in FilingInHand /\ g.at = step
          /\ g.paper = filings[f].paper /\ g.place = filings[f].place
      BY <1>i DEF FilingSteps
    <3>3. filings' = [filings EXCEPT ![f] = g]
      BY <2>2, <3>1 DEF Writes, PutPaper, IngestDocument, LinkPlace, BindLetting, FilingGoes
    <3> HIDE DEF g
    <3> QED BY <3>1, <3>2, <3>3 DEF LateSteps
  <2> QED BY <2>1, <2>2
<1>3. /\ spent' <= counted' + thrown' + Cardinality(Owed')
      /\ spent' + Cardinality(AtReading') <= UploadsPerDay + Cardinality(Filers) - 1 + thrown'
  <2>1. g.at # "read"
    BY <1>2 DEF LateSteps
  <2>2. NotLate(g.at) <= NotLate(filings[f].at)
    BY <1>2 DEF NotLate, LateSteps
  <2>3. NotLate(g.at) \in {0, 1} /\ NotLate(filings[f].at) \in {0, 1}
    BY DEF NotLate
  <2>4. 0 + NotLate(g.at) <= 0 + 0 + NotLate(filings[f].at)
    BY <2>2, <2>3
  <2>5. spent' = spent + 0 /\ counted' = counted + 0 /\ thrown' = thrown + 0
    BY <1>i, <1>1, <1>m
  <2>6. FilingMoves(f, g, 0, 0, 0)
    BY <1>1, <1>2, <2>1, <2>4, <2>5 DEF FilingMoves
  <2> QED BY <2>6, BooksOfFiling
<1>4. /\ g.at # "idle" => g.paper \in Papers /\ g.place \in Places
      /\ counted' \in Nat /\ spent' \in Nat /\ thrown' \in 0..MaxThrown
  BY <1>i, <1>1, <1>2
<1>5. CASE PutPaper(f)
  <2>1. /\ objects' = objects \cup {<<place, p>>} /\ UNCHANGED documents
        /\ UNCHANGED <<subjects, bounded, extracts>>
    BY <1>5 DEF PutPaper, PathOf
  <2>2. FilesStay /\ \A q \in Papers : Filed(q)' <=> Filed(q)
    BY <2>1 DEF FilesStay, Filed
  <2>3. objects' \subseteq Places \X Papers
    BY <1>t, <1>1, <2>1
  <2>4. g.at = "ingest" => Filed(g.paper)' \/ <<g.place, g.paper>> \in objects'
    BY <1>2, <2>1
  <2> HIDE DEF p, place
  <2> QED BY <1>2, <1>3, <1>4, <1>t, <2>1, <2>2, <2>3, <2>4, FilingStepInv
<1>6. CASE IngestDocument(f)
  <2>1. /\ documents' = IF Filed(p) THEN documents ELSE [documents EXCEPT ![p] = place]
        /\ UNCHANGED <<objects, subjects, bounded, extracts>>
    BY <1>6 DEF IngestDocument
  <2>2. Filed(p) \/ <<place, p>> \in objects
    BY <1>i, <1>6 DEF FilingFits, IngestDocument, PathOf
  <2>3. g.at # "ingest"
    BY <1>2, <1>6 DEF PutPaper, IngestDocument, FilingAt
  <2> HIDE DEF p, place
  <2>4. /\ documents' \in [Papers -> Places \cup {Nowhere}]
        /\ \A q \in Papers \ {p} : documents'[q] = documents[q]
        /\ documents'[p] = documents[p] \/ (~Filed(p) /\ documents'[p] = place)
    BY <1>t, <1>1, <2>1
  <2>5. FilesStay
    BY <2>1, <2>4 DEF FilesStay
  <2>6. \A q \in Papers : ~Filed(q) /\ Filed(q)' => <<documents'[q], q>> \in objects'
    BY <2>1, <2>2, <2>4 DEF Filed
  <2> QED BY <1>2, <1>3, <1>4, <1>t, <2>1, <2>3, <2>4, <2>5, <2>6, FilingStepInv
<1>7. CASE LinkPlace(f) \/ BindLetting(f) \/ ScheduleExtract(f)
  <2>1. UNCHANGED <<objects, documents>>
    BY <1>7 DEF LinkPlace, BindLetting, ScheduleExtract
  <2>2. g.at # "ingest"
    BY <1>2, <1>7 DEF PutPaper, LinkPlace, BindLetting, ScheduleExtract, FilingAt
  <2>3. /\ subjects' \in [Papers -> SUBSET Flats]
        /\ bounded' \subseteq Papers /\ extracts' \subseteq Papers
    <3>1. CASE LinkPlace(f)
      <4>1. place = Loose \/ place \in Flats
        BY <1>1 DEF Places
      <4>2. subjects' = IF place = Loose THEN subjects
                        ELSE [subjects EXCEPT ![p] = subjects[p] \cup {place}]
        BY <3>1 DEF LinkPlace
      <4> QED BY <1>1, <1>t, <3>1, <4>1, <4>2 DEF LinkPlace
    <3>2. CASE BindLetting(f)
      BY <1>1, <1>t, <3>2 DEF BindLetting
    <3>3. CASE ScheduleExtract(f)
      BY <1>1, <1>t, <3>3 DEF ScheduleExtract
    <3> QED BY <1>7, <3>1, <3>2, <3>3
  <2> HIDE DEF p, place
  <2> QED BY <1>2, <1>3, <1>4, <2>1, <2>2, <2>3, UnwrittenInv
<1> QED BY <1>5, <1>6, <1>7 DEF Writes

LEMMA AnchorInv ==
  ASSUME FilingInv, NEW p \in Papers, NEW flat \in Flats, AnchorOfLoose(p, flat)
  PROVE  FilingInv'
<1>1. UNCHANGED <<objects, documents, extracts, filings, counted, spent, thrown>>
  BY DEF AnchorOfLoose
<1>2. subjects' \in [Papers -> SUBSET Flats] /\ bounded' \subseteq Papers
  BY DEF AnchorOfLoose, FilingInv, FilingTypeOK
<1>3. Owed' = Owed /\ AtReading' = AtReading
  BY <1>1 DEF Owed, AtReading, FilingAt
<1> QED BY <1>1, <1>2, <1>3 DEF FilingInv, FilingTypeOK, RowHasItsObject, Filed,
                                FilingFits, FilingAt, PathOf

LEMMA FilingInvNext == FilingInv /\ [FilingNext]_filingVars => FilingInv'
<1> SUFFICES ASSUME FilingInv, [FilingNext]_filingVars PROVE FilingInv'
  OBVIOUS
<1>1. CASE UNCHANGED filingVars
  <2>1. Owed' = Owed /\ AtReading' = AtReading
    BY <1>1 DEF filingVars, Owed, AtReading, FilingAt
  <2> QED BY <1>1, <2>1 DEF filingVars, FilingInv, FilingTypeOK, RowHasItsObject, Filed,
                            FilingFits, FilingAt, PathOf
<1>2. ASSUME NEW f \in Filers, NEW p \in Papers, NEW flat \in Flats, UploadProtocol(f, p, flat)
      PROVE  FilingInv'
  BY <1>2, UploadInv DEF UploadProtocol, Places
<1> QED BY <1>1, <1>2, UploadInv, EndsOrGoesOnInv, WritesInv, AnchorInv
        DEF FilingNext, EndsOrGoesOn, Writes

\* However many filings run, throw and are cut off at once: a row names an
\* object that was put, and the day's readings pass the cap by no more than
\* the other requests in hand and the filings that threw.
THEOREM FilingsHold == FilingSpec => []FilingHolds
<1>1. FilingInv => FilingHolds
  <2> SUFFICES ASSUME FilingInv PROVE FilingHolds
    OBVIOUS
  <2>1. AtReading \in SUBSET Filers
    BY DEF AtReading
  <2>2. IsFiniteSet(AtReading) /\ Cardinality(AtReading) \in Nat /\ Cardinality(Filers) \in Nat
    BY <2>1, FilingAssumption, FS_Subset, FS_CardinalityType
  <2>3. spent + Cardinality(AtReading) <= UploadsPerDay + Cardinality(Filers) - 1 + thrown
    BY DEF FilingInv
  <2>4. spent \in Nat /\ thrown \in Nat /\ UploadsPerDay \in Nat
    BY FilingAssumption DEF FilingInv, FilingTypeOK
  <2> QED BY <2>2, <2>3, <2>4 DEF FilingInv, FilingHolds, ReadingsAreRationed
<1> QED BY <1>1, FilingInitInv, FilingInvNext, PTL DEF FilingSpec

-----------------------------------------------------------------------------
(* The office's thread.  A question in hand is stored nowhere and is       *)
(* earlier than none; an ordinal in hand is above every turn that was      *)
(* stored when its question was put.                                       *)
InTheRoom(t) == ~AskAt(t, "idle")

QuestionFits(t) ==
  /\ InTheRoom(t) =>
       /\ asks[t].ask \in DOMAIN earlier
       /\ \A u \in turns : u.ask # asks[t].ask
       /\ \A q \in DOMAIN earlier : asks[t].ask \notin earlier[q]
  /\ AskAt(t, "ordinal") \/ AskAt(t, "insert") => asks[t].thread \in 1..made
  /\ AskAt(t, "insert") =>
       \A u \in turns :
         u.thread = asks[t].thread /\ u.ask \in earlier[asks[t].ask] =>
           u.ordinal < asks[t].ordinal

AsksApart(s, t) == InTheRoom(s) /\ InTheRoom(t) => asks[s].ask # asks[t].ask

QuestionsAreNumbered ==
  /\ \E n \in Nat : DOMAIN earlier = 1..n
  /\ \A q \in DOMAIN earlier : earlier[q] \subseteq DOMAIN earlier

TurnsFit ==
  /\ thread <= made
  /\ \A u \in turns : u.thread = thread /\ u.ask \in DOMAIN earlier
  /\ answered = {u.ask : u \in turns}
  /\ \A u, v \in turns : u.ask = v.ask => u = v
  /\ \A u, v \in turns : u.ask \in earlier[v.ask] => u.ordinal < v.ordinal

SomeTurnIsLatest == turns # {} => \E last \in turns : \A u \in turns : u.ordinal <= last.ordinal

OfficeThreadInv ==
  /\ OfficeThreadTypeOK /\ QuestionsAreNumbered /\ TurnsFit /\ SomeTurnIsLatest
  /\ \A t \in AskTabs : QuestionFits(t)
  /\ \A s, t \in AskTabs : s # t => AsksApart(s, t)

LEMMA NotAskingFits == NotAsking \in Asking /\ NotAsking.step = "idle"
BY OfficeThreadAssumption DEF NotAsking, Asking

\* The questions in hand after one tab moves.
LEMMA TabMoves ==
  ASSUME OfficeThreadTypeOK, NEW t \in AskTabs, NEW a \in Asking,
         asks' = [asks EXCEPT ![t] = a]
  PROVE  /\ asks' \in [AskTabs -> Asking] /\ asks'[t] = a
         /\ \A s \in AskTabs \ {t} : asks'[s] = asks[s]
BY DEF OfficeThreadTypeOK

\* A step of one tab that stores no turn and puts no question.
LEMMA TabStepInv ==
  ASSUME OfficeThreadInv, NEW t \in AskTabs, NEW a \in Asking,
         asks' = [asks EXCEPT ![t] = a],
         UNCHANGED <<turns, earlier, answered>>,
         thread' \in 0..MaxThreads, made' \in 0..MaxThreads,
         thread' <= made', made <= made', turns # {} => thread' = thread,
         a.step # "idle" => InTheRoom(t) /\ a.ask = asks[t].ask,
         a.step \in {"ordinal", "insert"} => a.thread \in 1..made',
         a.step = "insert" =>
           \A u \in turns :
             u.thread = a.thread /\ u.ask \in earlier[a.ask] => u.ordinal < a.ordinal
  PROVE  OfficeThreadInv'
<1>1. /\ asks' \in [AskTabs -> Asking] /\ asks'[t] = a
      /\ \A s \in AskTabs \ {t} : asks'[s] = asks[s]
  BY TabMoves DEF OfficeThreadInv
<1>2. QuestionFits(t)'
  BY <1>1 DEF OfficeThreadInv, QuestionFits, InTheRoom, AskAt
<1>3. ASSUME NEW s \in AskTabs \ {t} PROVE QuestionFits(s)'
  <2>1. asks'[s] = asks[s] /\ QuestionFits(s)
    BY <1>1 DEF OfficeThreadInv
  <2>2. made \in Nat /\ made' \in Nat
    BY OfficeThreadAssumption DEF OfficeThreadInv, OfficeThreadTypeOK
  <2> QED BY <2>1, <2>2 DEF QuestionFits, InTheRoom, AskAt
<1>4. \A r, s \in AskTabs : r # s => AsksApart(r, s)'
  BY <1>1 DEF OfficeThreadInv, AsksApart, InTheRoom, AskAt
<1>5. OfficeThreadTypeOK'
  BY <1>1 DEF OfficeThreadInv, OfficeThreadTypeOK
<1>6. QuestionsAreNumbered' /\ TurnsFit' /\ SomeTurnIsLatest'
  BY DEF OfficeThreadInv, QuestionsAreNumbered, TurnsFit, SomeTurnIsLatest
<1> QED BY <1>2, <1>3, <1>4, <1>5, <1>6 DEF OfficeThreadInv

LEMMA OfficeThreadInitInv == OfficeThreadInit => OfficeThreadInv
<1> SUFFICES ASSUME OfficeThreadInit PROVE OfficeThreadInv
  OBVIOUS
<1>1. NotAsking \in Asking /\ NotAsking.step = "idle"
  BY NotAskingFits
<1> HIDE DEF NotAsking
<1>2. DOMAIN earlier = {} /\ DOMAIN earlier = 1..0
  BY DEF OfficeThreadInit
<1>3. OfficeThreadTypeOK
  BY <1>1, <1>2, OfficeThreadAssumption DEF OfficeThreadInit, OfficeThreadTypeOK
<1>4. QuestionsAreNumbered
  BY <1>2 DEF QuestionsAreNumbered
<1>5. TurnsFit /\ SomeTurnIsLatest
  BY DEF OfficeThreadInit, TurnsFit, SomeTurnIsLatest
<1>6. \A t \in AskTabs : AskAt(t, "idle")
  BY <1>1 DEF OfficeThreadInit, AskAt
<1>7. \A t \in AskTabs : QuestionFits(t) /\ ~InTheRoom(t)
  BY <1>6 DEF QuestionFits, InTheRoom, AskAt
<1> QED BY <1>3, <1>4, <1>5, <1>7 DEF OfficeThreadInv, AsksApart

LEMMA AskingAnew ==
  ASSUME NEW q \in 1..MaxAsks
  PROVE  /\ [NotAsking EXCEPT !.step = "model", !.ask = q] \in Asking
         /\ [NotAsking EXCEPT !.step = "model", !.ask = q].step = "model"
         /\ [NotAsking EXCEPT !.step = "model", !.ask = q].ask = q
<1>1. q \in 0..MaxAsks
  BY OfficeThreadAssumption
<1>2. NotAsking \in Asking
  BY NotAskingFits
<1> HIDE DEF NotAsking
<1> QED BY <1>1, <1>2 DEF Asking

LEMMA PutQuestionInv ==
  ASSUME OfficeThreadInv, NEW t \in AskTabs, PutQuestion(t)
  PROVE  OfficeThreadInv'
<1>1. PICK n \in Nat : DOMAIN earlier = 1..n
  BY DEF OfficeThreadInv, QuestionsAreNumbered
<1> DEFINE q == n + 1
           a == [NotAsking EXCEPT !.step = "model", !.ask = q]
           stored == {u.ask : u \in turns}
<1>2. Cardinality(DOMAIN earlier) = n
  BY <1>1, FS_Interval
<1>3. /\ q \in 1..MaxAsks /\ asks' = [asks EXCEPT ![t] = a]
      /\ earlier' = [x \in 1..q |-> IF x = q THEN stored ELSE earlier[x]]
      /\ UNCHANGED <<thread, made, turns, answered>> /\ AskAt(t, "idle")
  <2>1. /\ AskAt(t, "idle") /\ q <= MaxAsks /\ asks' = [asks EXCEPT ![t] = a]
        /\ earlier' = [x \in 1..q |-> IF x = q THEN stored ELSE earlier[x]]
        /\ UNCHANGED <<thread, made, turns, answered>>
    BY <1>2 DEF PutQuestion
  <2>2. MaxAsks \in Nat
    BY OfficeThreadAssumption
  <2>3. q \in 1..MaxAsks
    BY <1>1, <2>1, <2>2
  <2> QED BY <2>1, <2>3
<1>4. a \in Asking /\ a.step = "model" /\ a.ask = q
  BY <1>3, AskingAnew
<1>5. stored \subseteq 1..n /\ \A x \in 1..n : earlier[x] \subseteq 1..n
  BY <1>1 DEF OfficeThreadInv, TurnsFit, QuestionsAreNumbered
<1>6. 1..q = 1..n \cup {q} /\ q \notin 1..n
  OBVIOUS
<1> HIDE DEF q, a, stored
<1>7. /\ DOMAIN earlier' = 1..q /\ earlier'[q] = stored
      /\ \A x \in 1..n : earlier'[x] = earlier[x]
  BY <1>3, <1>6
<1>8. /\ asks' \in [AskTabs -> Asking] /\ asks'[t] = a
      /\ \A s \in AskTabs \ {t} : asks'[s] = asks[s]
  BY <1>3, <1>4, TabMoves DEF OfficeThreadInv
<1>9. \A u \in turns : u.ask \in stored /\ u.ask \in 1..n
  BY <1>5 DEF stored
<1>10. QuestionFits(t)'
  <2>1. \A u \in turns' : u.ask # asks'[t].ask
    BY <1>3, <1>4, <1>6, <1>8, <1>9
  <2>2. \A x \in DOMAIN earlier' : asks'[t].ask \notin earlier'[x]
    BY <1>4, <1>5, <1>6, <1>7, <1>8
  <2>3. asks'[t].ask \in DOMAIN earlier' /\ asks'[t].step = "model"
    BY <1>4, <1>6, <1>7, <1>8
  <2> QED BY <2>1, <2>2, <2>3 DEF QuestionFits, InTheRoom, AskAt
<1>11. ASSUME NEW s \in AskTabs \ {t} PROVE QuestionFits(s)'
  <2>1. asks'[s] = asks[s] /\ QuestionFits(s)
    BY <1>8 DEF OfficeThreadInv
  <2>2. InTheRoom(s) => /\ asks[s].ask \in 1..n
                        /\ asks[s].ask \notin stored
                        /\ \A x \in 1..n : asks[s].ask \notin earlier[x]
    BY <2>1, <1>1 DEF QuestionFits, stored
  <2>3. InTheRoom(s) => /\ asks[s].ask \in DOMAIN earlier'
                        /\ earlier'[asks[s].ask] = earlier[asks[s].ask]
                        /\ \A x \in DOMAIN earlier' : asks[s].ask \notin earlier'[x]
    BY <2>2, <1>6, <1>7
  <2>4. AskAt(s, "insert") => InTheRoom(s)
    BY DEF AskAt, InTheRoom
  <2> QED BY <2>1, <2>3, <2>4, <1>3 DEF QuestionFits, InTheRoom, AskAt
<1>12. \A r, s \in AskTabs : r # s => AsksApart(r, s)'
  <2>1. \A s \in AskTabs \ {t} : InTheRoom(s) => asks[s].ask # q
    BY <1>1, <1>6 DEF OfficeThreadInv, QuestionFits
  <2> QED BY <2>1, <1>4, <1>8 DEF OfficeThreadInv, AsksApart, InTheRoom, AskAt
<1>13. QuestionsAreNumbered'
  <2>1. \A x \in DOMAIN earlier' : earlier'[x] \subseteq DOMAIN earlier'
    BY <1>5, <1>6, <1>7
  <2>2. q \in Nat
    BY DEF q
  <2> QED BY <1>7, <2>1, <2>2 DEF QuestionsAreNumbered
<1>14. TurnsFit' /\ SomeTurnIsLatest'
  <2>1. \A u \in turns : u.ask \in DOMAIN earlier' /\ earlier'[u.ask] = earlier[u.ask]
    BY <1>6, <1>7, <1>9
  <2>2. TurnsFit'
    BY <1>3, <2>1 DEF OfficeThreadInv, TurnsFit
  <2>3. SomeTurnIsLatest'
    BY <1>3 DEF OfficeThreadInv, SomeTurnIsLatest
  <2> QED BY <2>2, <2>3
<1>15. OfficeThreadTypeOK'
  <2>1. DOMAIN earlier' \subseteq 1..MaxAsks
    BY <1>3, <1>7, OfficeThreadAssumption DEF q
  <2>2. \A x \in DOMAIN earlier' : earlier'[x] \subseteq 1..MaxAsks
    BY <1>13, <2>1 DEF QuestionsAreNumbered
  <2> QED BY <1>3, <1>8, <2>1, <2>2 DEF OfficeThreadInv, OfficeThreadTypeOK
<1> QED BY <1>10, <1>11, <1>12, <1>13, <1>14, <1>15 DEF OfficeThreadInv

LEMMA AskingIs ==
  ASSUME OfficeThreadInv, NEW t \in AskTabs
  PROVE  /\ asks[t] \in Asking /\ QuestionFits(t)
         /\ thread \in 0..MaxThreads /\ made \in 0..MaxThreads /\ thread <= made
         /\ MaxThreads \in Nat /\ NotAsking \in Asking /\ NotAsking.step = "idle"
BY NotAskingFits, OfficeThreadAssumption DEF OfficeThreadInv, OfficeThreadTypeOK, TurnsFit

LEMMA AskEndsInv ==
  ASSUME OfficeThreadInv, NEW t \in AskTabs, AskEnds(t),
         UNCHANGED <<thread, made, turns, earlier, answered>>
  PROVE  OfficeThreadInv'
<1>1. /\ NotAsking \in Asking /\ NotAsking.step = "idle"
      /\ thread \in 0..MaxThreads /\ made \in 0..MaxThreads /\ thread <= made
      /\ MaxThreads \in Nat
  BY AskingIs
<1>2. asks' = [asks EXCEPT ![t] = NotAsking]
  BY DEF AskEnds
<1>3. thread' \in 0..MaxThreads /\ made' \in 0..MaxThreads /\ thread' <= made' /\ made <= made'
  BY <1>1
<1> HIDE DEF NotAsking
<1> QED BY <1>1, <1>2, <1>3, TabStepInv

LEMMA ModelAnswersInv ==
  ASSUME OfficeThreadInv, NEW t \in AskTabs, ModelAnswers(t)
  PROVE  OfficeThreadInv'
<1> DEFINE a == [asks[t] EXCEPT !.step = "ensure"]
<1>1. /\ asks[t] \in Asking
      /\ thread \in 0..MaxThreads /\ made \in 0..MaxThreads /\ thread <= made
  BY AskingIs
<1>2. a \in Asking /\ a.step = "ensure" /\ a.ask = asks[t].ask
  BY <1>1 DEF Asking
<1>3. asks' = [asks EXCEPT ![t] = a] /\ InTheRoom(t) /\ UNCHANGED <<thread, made, turns, earlier, answered>>
  BY DEF ModelAnswers, AskGoes, AskAt, InTheRoom
<1>4. thread' \in 0..MaxThreads /\ made' \in 0..MaxThreads /\ thread' <= made' /\ made <= made'
  BY <1>1, <1>3, OfficeThreadAssumption
<1> HIDE DEF a
<1> QED BY <1>2, <1>3, <1>4, TabStepInv

LEMMA EnsureThreadInv ==
  ASSUME OfficeThreadInv, NEW t \in AskTabs, EnsureThread(t)
  PROVE  OfficeThreadInv'
<1>1. /\ asks[t] \in Asking
      /\ thread \in 0..MaxThreads /\ made \in 0..MaxThreads /\ thread <= made
  BY AskingIs
<1>2. PICK step \in {"make", "ordinal"} :
        /\ asks' = [asks EXCEPT ![t] = [asks[t] EXCEPT !.thread = thread, !.step = step]]
        /\ step = "ordinal" => thread # 0
  BY DEF EnsureThread
<1> DEFINE a == [asks[t] EXCEPT !.thread = thread, !.step = step]
<1>3. a \in Asking /\ a.step = step /\ a.ask = asks[t].ask /\ a.thread = thread
  BY <1>1 DEF Asking
<1>4. InTheRoom(t) /\ UNCHANGED <<thread, made, turns, earlier, answered>>
  BY DEF EnsureThread, AskAt, InTheRoom
<1>5. /\ thread' \in 0..MaxThreads /\ made' \in 0..MaxThreads /\ thread' <= made' /\ made <= made'
      /\ step = "ordinal" => thread \in 1..made'
  BY <1>1, <1>2, <1>4, OfficeThreadAssumption
<1> HIDE DEF a
<1> QED BY <1>2, <1>3, <1>4, <1>5, TabStepInv DEF a

LEMMA MakeThreadInv ==
  ASSUME OfficeThreadInv, NEW t \in AskTabs, MakeThread(t)
  PROVE  OfficeThreadInv'
<1>1. CASE thread # 0
  BY <1>1, AskEndsInv DEF MakeThread
<1>2. CASE thread = 0
  <2> DEFINE a == [asks[t] EXCEPT !.thread = made + 1, !.step = "ordinal"]
  <2>1. asks[t] \in Asking /\ made \in 0..MaxThreads /\ MaxThreads \in Nat
    BY AskingIs
  <2>2. /\ made < MaxThreads /\ made' = made + 1 /\ thread' = made + 1
        /\ asks' = [asks EXCEPT ![t] = a] /\ InTheRoom(t)
        /\ UNCHANGED <<turns, earlier, answered>>
    BY <1>2 DEF MakeThread, AskAt, InTheRoom
  <2>3. /\ made + 1 \in 0..MaxThreads /\ made <= made' /\ made + 1 \in 1..made'
        /\ thread' <= made'
    BY <2>1, <2>2
  <2>4. /\ a \in Asking /\ a.step = "ordinal" /\ a.ask = asks[t].ask
        /\ a.thread = made + 1
    BY <2>1, <2>3 DEF Asking
  <2>5. turns = {}
    <3> SUFFICES ASSUME NEW u \in turns PROVE FALSE
      OBVIOUS
    <3>1. u.thread = 0 /\ u \in OfficeTurn
      BY <1>2 DEF OfficeThreadInv, TurnsFit, OfficeThreadTypeOK
    <3> QED BY <3>1 DEF OfficeTurn
  <2> HIDE DEF a
  <2> QED BY <2>2, <2>3, <2>4, <2>5, TabStepInv
<1> QED BY <1>1, <1>2

\* COALESCE(MAX(ordinal) + 1, 0) is above every turn of the thread.
LEMMA NextIsAfterTheLast ==
  ASSUME OfficeThreadInv, NEW h
  PROVE  /\ NextOrdinal(h) \in Nat
         /\ \A u \in turns : u.thread = h => u.ordinal < NextOrdinal(h)
<1>1. CASE TurnsOf(h) = {}
  BY <1>1 DEF NextOrdinal, AfterTheLast, TurnsOf
<1>2. CASE TurnsOf(h) # {}
  <2>1. h = thread /\ TurnsOf(h) = turns
    BY <1>2 DEF TurnsOf, OfficeThreadInv, TurnsFit
  <2>2. PICK last \in turns : \A u \in turns : u.ordinal <= last.ordinal
    BY <1>2, <2>1 DEF OfficeThreadInv, SomeTurnIsLatest
  <2>3. \A u \in turns : u.ordinal \in Nat
    BY DEF OfficeThreadInv, OfficeThreadTypeOK, OfficeTurn
  <2> DEFINE S == Ordinals(h)
  <2>4. S \subseteq Nat /\ last.ordinal \in S /\ \A y \in S : last.ordinal >= y
    BY <2>1, <2>2, <2>3 DEF Ordinals
  <2> HIDE DEF S
  <2>5. Max(S) \in S /\ \A y \in S : Max(S) >= y
    BY <2>4 DEF Max
  <2>6. NextOrdinal(h) = Max(S) + 1
    BY <1>2 DEF NextOrdinal, AfterTheLast, S
  <2>7. \A u \in turns : u.ordinal \in S
    BY <2>1 DEF S, Ordinals
  <2>8. PICK m \in Nat : m = Max(S)
    BY <2>4, <2>5
  <2>9. \A u \in turns : u.ordinal < m + 1
    BY <2>3, <2>5, <2>7, <2>8
  <2> QED BY <2>6, <2>8, <2>9
<1> QED BY <1>1, <1>2

LEMMA ReadOrdinalInv ==
  ASSUME OfficeThreadInv, NEW t \in AskTabs, ReadOrdinal(t)
  PROVE  OfficeThreadInv'
<1> DEFINE o == NextOrdinal(asks[t].thread)
           a == [asks[t] EXCEPT !.ordinal = o, !.step = "insert"]
<1>1. /\ asks[t] \in Asking /\ QuestionFits(t)
      /\ thread \in 0..MaxThreads /\ made \in 0..MaxThreads /\ thread <= made
  BY AskingIs
<1>2. o \in Nat /\ \A u \in turns : u.thread = asks[t].thread => u.ordinal < o
  BY NextIsAfterTheLast
<1>3. asks' = [asks EXCEPT ![t] = a] /\ InTheRoom(t) /\ UNCHANGED <<thread, made, turns, earlier, answered>>
  BY DEF ReadOrdinal, AskAt, InTheRoom
<1>4. asks[t].thread \in 1..made
  BY <1>1 DEF QuestionFits, ReadOrdinal
<1> HIDE DEF o
<1>5. /\ a \in Asking /\ a.step = "insert" /\ a.ask = asks[t].ask
      /\ a.thread = asks[t].thread /\ a.ordinal = o
  BY <1>1, <1>2 DEF Asking
<1>6. thread' \in 0..MaxThreads /\ made' \in 0..MaxThreads /\ thread' <= made' /\ made <= made'
  BY <1>1, <1>3, OfficeThreadAssumption
<1> HIDE DEF a
<1> QED BY <1>2, <1>3, <1>4, <1>5, <1>6, TabStepInv

LEMMA InsertTurnInv ==
  ASSUME OfficeThreadInv, NEW t \in AskTabs, InsertTurn(t)
  PROVE  OfficeThreadInv'
<1> DEFINE a == asks[t]
<1>1. /\ a \in Asking /\ QuestionFits(t) /\ NotAsking \in Asking /\ NotAsking.step = "idle"
      /\ made \in 0..MaxThreads /\ MaxThreads \in Nat
  BY AskingIs
<1>2. AskAt(t, "insert") /\ AskEnds(t) /\ UNCHANGED <<thread, made, earlier>>
  BY DEF InsertTurn
<1>3. CASE a.thread # thread
  BY <1>2, <1>3, AskEndsInv DEF InsertTurn
<1>4. CASE a.thread = thread
  <2>1. PICK id \in (1..MaxAsks) \ {u.id : u \in turns} :
          turns' = turns \cup {[id |-> id, thread |-> a.thread,
                                ordinal |-> a.ordinal, ask |-> a.ask]}
    BY <1>4 DEF InsertTurn
  <2>2. answered' = answered \cup {a.ask}
    BY <1>4 DEF InsertTurn
  <2> DEFINE new == [id |-> id, thread |-> a.thread, ordinal |-> a.ordinal, ask |-> a.ask]
  <2>3. /\ a.ask \in DOMAIN earlier /\ \A u \in turns : u.ask # a.ask
        /\ \A q \in DOMAIN earlier : a.ask \notin earlier[q]
        /\ a.thread \in 1..made
        /\ \A u \in turns : u.thread = a.thread /\ u.ask \in earlier[a.ask] =>
              u.ordinal < a.ordinal
    BY <1>1, <1>2 DEF QuestionFits, InTheRoom, AskAt
  <2>4. a.ask \in 1..MaxAsks /\ a.thread \in 1..MaxThreads /\ a.ordinal \in Nat
    BY <1>1, <2>3, OfficeThreadAssumption DEF OfficeThreadInv, OfficeThreadTypeOK, Asking
  <2>5. /\ new \in OfficeTurn /\ new.ask = a.ask /\ new.thread = thread
        /\ new.ordinal = a.ordinal
    BY <1>4, <2>4 DEF OfficeTurn
  <2>6. turns' = turns \cup {new}
    BY <2>1
  <2>7. asks' = [asks EXCEPT ![t] = NotAsking]
    BY <1>2 DEF AskEnds
  <2> HIDE DEF new, a, NotAsking
  <2>8. /\ asks' \in [AskTabs -> Asking] /\ asks'[t] = NotAsking
        /\ \A s \in AskTabs \ {t} : asks'[s] = asks[s]
    BY <1>1, <2>7, TabMoves DEF OfficeThreadInv
  <2>9. OfficeThreadTypeOK'
    BY <1>2, <2>2, <2>4, <2>5, <2>6, <2>8 DEF OfficeThreadInv, OfficeThreadTypeOK
  <2>10. QuestionsAreNumbered'
    BY <1>2 DEF OfficeThreadInv, QuestionsAreNumbered
  <2>11. TurnsFit'
    <3>1. /\ thread' <= made'
          /\ \A u \in turns' : u.thread = thread' /\ u.ask \in DOMAIN earlier'
      BY <1>2, <2>3, <2>5, <2>6 DEF OfficeThreadInv, TurnsFit
    <3>2. answered' = {u.ask : u \in turns'}
      BY <2>2, <2>5, <2>6 DEF OfficeThreadInv, TurnsFit
    <3>3. \A u, v \in turns' : u.ask = v.ask => u = v
      BY <2>3, <2>5, <2>6 DEF OfficeThreadInv, TurnsFit
    <3>4. \A u, v \in turns' : u.ask \in earlier'[v.ask] => u.ordinal < v.ordinal
      <4> SUFFICES ASSUME NEW u \in turns', NEW v \in turns', u.ask \in earlier[v.ask]
                   PROVE  u.ordinal < v.ordinal
        BY <1>2
      <4>1. v.ask \in DOMAIN earlier
        BY <1>2, <3>1
      <4>2. u \in turns
        BY <2>3, <2>5, <2>6, <4>1
      <4>3. CASE v \in turns
        BY <4>2, <4>3 DEF OfficeThreadInv, TurnsFit
      <4>4. CASE v = new
        BY <1>4, <2>3, <2>5, <4>2, <4>4 DEF OfficeThreadInv, TurnsFit
      <4> QED BY <2>6, <4>3, <4>4
    <3> QED BY <3>1, <3>2, <3>3, <3>4 DEF TurnsFit
  <2>12. SomeTurnIsLatest'
    <3>1. \A u \in turns' : u.ordinal \in Nat
      BY <2>9 DEF OfficeThreadTypeOK, OfficeTurn
    <3>2. CASE \A u \in turns : u.ordinal <= new.ordinal
      BY <2>6, <3>1, <3>2 DEF SomeTurnIsLatest
    <3>3. CASE ~\A u \in turns : u.ordinal <= new.ordinal
      <4>1. PICK u \in turns : ~(u.ordinal <= new.ordinal)
        BY <3>3
      <4>2. PICK last \in turns : \A v \in turns : v.ordinal <= last.ordinal
        BY <4>1 DEF OfficeThreadInv, SomeTurnIsLatest
      <4>3. \A v \in turns' : v.ordinal <= last.ordinal
        BY <2>6, <3>1, <4>1, <4>2
      <4> QED BY <2>6, <4>2, <4>3 DEF SomeTurnIsLatest
    <3> QED BY <3>2, <3>3
  <2>13. QuestionFits(t)'
    BY <1>1, <2>8 DEF QuestionFits, InTheRoom, AskAt
  <2>14. ASSUME NEW s \in AskTabs \ {t} PROVE QuestionFits(s)'
    <3>1. asks'[s] = asks[s] /\ QuestionFits(s) /\ AsksApart(s, t)
      BY <2>8 DEF OfficeThreadInv
    <3>2. InTheRoom(s) => asks[s].ask # new.ask
      BY <1>2, <2>5, <3>1 DEF AsksApart, InTheRoom, AskAt, a
    <3>3. InTheRoom(s) => new.ask \notin earlier[asks[s].ask]
      BY <2>3, <2>5, <3>1 DEF QuestionFits
    <3>4. AskAt(s, "insert") => InTheRoom(s)
      BY DEF AskAt, InTheRoom
    <3>5. InTheRoom(s)' <=> InTheRoom(s)
      BY <3>1 DEF InTheRoom, AskAt
    <3>6. InTheRoom(s) => /\ asks[s].ask \in DOMAIN earlier
                          /\ \A u \in turns' : u.ask # asks[s].ask
                          /\ \A q \in DOMAIN earlier : asks[s].ask \notin earlier[q]
      BY <2>6, <3>1, <3>2 DEF QuestionFits
    <3>7. AskAt(s, "insert") =>
            \A u \in turns' :
              u.thread = asks[s].thread /\ u.ask \in earlier[asks[s].ask] =>
                u.ordinal < asks[s].ordinal
      BY <2>6, <3>1, <3>3, <3>4 DEF QuestionFits
    <3> QED BY <1>2, <3>1, <3>5, <3>6, <3>7 DEF QuestionFits, AskAt
  <2>15. \A r, s \in AskTabs : r # s => AsksApart(r, s)'
    BY <1>1, <2>8 DEF OfficeThreadInv, AsksApart, InTheRoom, AskAt
  <2> QED BY <2>9, <2>10, <2>11, <2>12, <2>13, <2>14, <2>15 DEF OfficeThreadInv
<1> QED BY <1>3, <1>4

LEMMA ClearThreadInv ==
  ASSUME OfficeThreadInv, ClearThread
  PROVE  OfficeThreadInv'
<1>1. /\ thread' = 0 /\ answered' = {} /\ UNCHANGED <<made, asks, earlier>>
      /\ turns' = turns \ TurnsOf(thread)
  BY DEF ClearThread
<1>2. turns' = {}
  BY <1>1 DEF OfficeThreadInv, TurnsFit, TurnsOf
<1>3. OfficeThreadTypeOK' /\ TurnsFit'
  BY <1>1, <1>2, OfficeThreadAssumption
  DEF OfficeThreadInv, OfficeThreadTypeOK, TurnsFit
<1>4. \A t \in AskTabs : QuestionFits(t)'
  BY <1>1, <1>2 DEF OfficeThreadInv, QuestionFits, InTheRoom, AskAt
<1> QED BY <1>1, <1>2, <1>3, <1>4
        DEF OfficeThreadInv, QuestionsAreNumbered, SomeTurnIsLatest, AsksApart, InTheRoom, AskAt

LEMMA OfficeThreadInvNext ==
  OfficeThreadInv /\ [OfficeThreadNext]_threadVars => OfficeThreadInv'
<1> SUFFICES ASSUME OfficeThreadInv, [OfficeThreadNext]_threadVars PROVE OfficeThreadInv'
  OBVIOUS
<1>1. CASE UNCHANGED threadVars
  BY <1>1 DEF threadVars, OfficeThreadInv, OfficeThreadTypeOK, QuestionsAreNumbered, TurnsFit,
              SomeTurnIsLatest, QuestionFits, AsksApart, InTheRoom, AskAt
<1>2. ASSUME NEW t \in AskTabs, ModelFails(t) PROVE OfficeThreadInv'
  BY <1>2, AskEndsInv DEF ModelFails
<1> QED BY <1>1, <1>2, PutQuestionInv, ModelAnswersInv, EnsureThreadInv, MakeThreadInv,
           ReadOrdinalInv, InsertTurnInv, ClearThreadInv DEF OfficeThreadNext

\* The thread, its turns and the questions in hand keep their types.
THEOREM OfficeThreadTypeCorrect == OfficeThreadSpec => []OfficeThreadTypeOK
<1>1. OfficeThreadInv => OfficeThreadTypeOK
  BY DEF OfficeThreadInv
<1> QED BY <1>1, OfficeThreadInitInv, OfficeThreadInvNext, PTL DEF OfficeThreadSpec

\* Whichever tabs ask, wait and clear at once, and in whatever order ids are
\* minted: the page lists every answered question once until a clear, and a
\* question put after a turn was stored is listed after it.
THEOREM ThreadsTellTheirTurns == OfficeThreadSpec => []ThreadTellsItsTurns
<1>1. OfficeThreadInv => ThreadTellsItsTurns
  <2> SUFFICES ASSUME OfficeThreadInv PROVE ThreadTellsItsTurns
    OBVIOUS
  <2>1. TurnsOf(thread) = turns
    BY DEF OfficeThreadInv, TurnsFit, TurnsOf
  <2> QED BY <2>1 DEF OfficeThreadInv, TurnsFit, ThreadTellsItsTurns, ReadsBefore
<1> QED BY <1>1, OfficeThreadInitInv, OfficeThreadInvNext, PTL DEF OfficeThreadSpec

-----------------------------------------------------------------------------
(* The library.  The committed versions follow one another from the first  *)
(* day on and one of them is open; what an upload has ended is the open    *)
(* one, and nobody else has ended it.                                      *)
VersionsFollow ==
  /\ \A v, w \in versions : v # w => ~Overlap(v, w)
  /\ \A v \in versions : \A day \in TermDays : day >= v.from => InForce(day) # {}
  /\ versions # {} => \E v \in versions : v.to = Never

UploadFits(u) ==
  /\ upload[u].pc \in {"embedding", "closing", "inserting", "inserted"} =>
       /\ upload[u].from \in TermDays
       /\ upload[u].current.on =>
            upload[u].current.from \in TermDays /\ upload[u].current.from < upload[u].from
  /\ Uploading(u, "closing") => upload[u].current.on
  /\ Ended(u) \subseteq versions
  /\ Uploading(u, "inserted") =>
       \A v \in versions \ Ended(u) : ~Overlap(v, OpenFrom(upload[u].from))

UploadsApart(u, w) ==
  Ended(u) \cap Ended(w) = {} /\ ~(Uploading(u, "inserted") /\ Uploading(w, "inserted"))

LibraryInv ==
  /\ LibraryTypeOK /\ VersionsFollow
  /\ \A u \in Uploads : UploadFits(u)
  /\ \A u, w \in Uploads : u # w => UploadsApart(u, w)

LEMMA DaysAreNumbers ==
  /\ TermDays \subseteq Nat /\ Never \in Nat /\ Never \notin TermDays
  /\ \A d \in TermDays : d < Never
BY LibraryAssumption

LEMMA UploadMoves ==
  ASSUME LibraryTypeOK, NEW u \in Uploads, NEW p \in PolicyUpload,
         upload' = [upload EXCEPT ![u] = p]
  PROVE  /\ upload' \in [Uploads -> PolicyUpload] /\ upload'[u] = p
         /\ \A w \in Uploads \ {u} : upload'[w] = upload[w]
BY DEF LibraryTypeOK

\* An upload moves to a step in which it has ended nothing.
LEMMA EndsNothingInv ==
  ASSUME LibraryInv, NEW u \in Uploads, NEW p \in PolicyUpload,
         upload' = [upload EXCEPT ![u] = p], versions' = versions,
         p.pc \notin {"inserting", "inserted"} \/ p.current.on = FALSE,
         p.pc \in {"embedding", "closing", "inserting"} =>
           /\ p.from \in TermDays
           /\ p.current.on => p.current.from \in TermDays /\ p.current.from < p.from,
         p.pc = "closing" => p.current.on, p.pc # "inserted"
  PROVE  LibraryInv'
<1>1. /\ upload' \in [Uploads -> PolicyUpload] /\ upload'[u] = p
      /\ \A w \in Uploads \ {u} : upload'[w] = upload[w]
  BY UploadMoves DEF LibraryInv
<1>2. Ended(u)' = {}
  BY <1>1 DEF Ended
<1>3. UploadFits(u)'
  BY <1>1, <1>2 DEF UploadFits, Uploading
<1>4. ASSUME NEW w \in Uploads \ {u} PROVE UploadFits(w)' /\ Ended(w)' = Ended(w)
  BY <1>1 DEF LibraryInv, UploadFits, Uploading, Ended
<1>5. \A v, w \in Uploads : v # w => UploadsApart(v, w)'
  BY <1>1, <1>2, <1>4 DEF LibraryInv, UploadsApart, Uploading
<1>6. LibraryTypeOK' /\ VersionsFollow'
  BY <1>1 DEF LibraryInv, LibraryTypeOK, VersionsFollow, InForce
<1> QED BY <1>3, <1>4, <1>5, <1>6 DEF LibraryInv

LEMMA LibraryInitInv == LibraryInit => LibraryInv
<1> SUFFICES ASSUME LibraryInit PROVE LibraryInv
  OBVIOUS
<1> DEFINE p == [pc |-> "idle", from |-> Never, current |-> None]
<1>1. p \in PolicyUpload /\ p.pc = "idle"
  BY DEF PolicyUpload, None, OpenVersion
<1>2. upload = [u \in Uploads |-> p] /\ versions = {}
  BY DEF LibraryInit
<1> HIDE DEF p
<1>3. LibraryTypeOK /\ VersionsFollow
  BY <1>1, <1>2 DEF LibraryTypeOK, VersionsFollow
<1>4. \A u \in Uploads : UploadFits(u) /\ Ended(u) = {} /\ ~Uploading(u, "inserted")
  BY <1>1, <1>2 DEF UploadFits, Ended, Uploading
<1> QED BY <1>3, <1>4 DEF LibraryInv, UploadsApart

LEMMA UploadIs ==
  ASSUME LibraryInv, NEW u \in Uploads
  PROVE  /\ upload[u] \in PolicyUpload /\ UploadFits(u)
         /\ \A step \in {"embedding", "closing", "inserting", "inserted", "done", "refused"} :
              /\ [upload[u] EXCEPT !.pc = step] \in PolicyUpload
              /\ [upload[u] EXCEPT !.pc = step].pc = step
              /\ [upload[u] EXCEPT !.pc = step].from = upload[u].from
              /\ [upload[u] EXCEPT !.pc = step].current = upload[u].current
<1>1. upload[u] \in PolicyUpload /\ UploadFits(u)
  BY DEF LibraryInv, LibraryTypeOK
<1> QED BY <1>1 DEF PolicyUpload

\* An upload is refused, or rolled back.
LEMMA ConflictInv ==
  ASSUME LibraryInv, NEW u \in Uploads, Conflict(u)
  PROVE  LibraryInv'
<1> DEFINE p == [upload[u] EXCEPT !.pc = "refused"]
<1>1. p \in PolicyUpload /\ p.pc = "refused"
  BY UploadIs
<1>2. upload' = [upload EXCEPT ![u] = p] /\ versions' = versions
  BY DEF Conflict, Proceed
<1> HIDE DEF p
<1> QED BY <1>1, <1>2, EndsNothingInv

LEMMA ReadCurrentInv ==
  ASSUME LibraryInv, NEW u \in Uploads, ReadCurrent(u)
  PROVE  LibraryInv'
<1> DEFINE open == {v \in versions : v.to = Never}
           current == IF open = {} THEN None
                      ELSE [on |-> TRUE, from |-> (CHOOSE v \in open : TRUE).from]
<1>1. PICK from \in TermDays :
        upload' = [upload EXCEPT ![u] =
          [pc |-> IF StartsLater(u, from, current) THEN "embedding" ELSE "refused",
           from |-> from, current |-> current]]
  BY DEF ReadCurrent
<1> DEFINE p == [pc |-> IF StartsLater(u, from, current) THEN "embedding" ELSE "refused",
                 from |-> from, current |-> current]
<1>2. /\ current \in OpenVersion
      /\ current.on => current.from \in TermDays
  <2>1. CASE open = {}
    BY <2>1 DEF None, OpenVersion
  <2>2. CASE open # {}
    <3>1. PICK v : v = CHOOSE w \in open : TRUE
      OBVIOUS
    <3>2. v \in open
      BY <2>2, <3>1
    <3>3. v \in Version
      BY <3>2 DEF LibraryInv, LibraryTypeOK
    <3>4. current = [on |-> TRUE, from |-> v.from]
      BY <2>2, <3>1
    <3>5. v.from \in TermDays
      BY <3>3 DEF Version
    <3> HIDE DEF current, open
    <3> QED BY <3>4, <3>5 DEF OpenVersion
  <2> QED BY <2>1, <2>2
<1> HIDE DEF current
<1>3. /\ p \in PolicyUpload /\ p.pc \in {"embedding", "refused"}
      /\ p.from \in TermDays /\ p.current = current
      /\ p.pc = "embedding" => ~current.on \/ current.from < from
      /\ p.from = from
  BY <1>2 DEF PolicyUpload, StartsLater
<1>4. upload' = [upload EXCEPT ![u] = p] /\ versions' = versions
  BY <1>1 DEF ReadCurrent
<1> HIDE DEF p
<1> QED BY <1>2, <1>3, <1>4, EndsNothingInv

LEMMA EmbedInv ==
  ASSUME LibraryInv, NEW u \in Uploads, Embed(u)
  PROVE  LibraryInv'
<1>1. PICK step \in {"closing", "inserting", "refused"} :
        /\ Proceed(u, step)
        /\ step = "closing" => upload[u].current.on
        /\ step = "inserting" => upload[u].current.on = FALSE
  <2>1. upload[u].current.on \in BOOLEAN
    BY UploadIs DEF PolicyUpload, OpenVersion
  <2> QED BY <2>1 DEF Embed
<1> DEFINE p == [upload[u] EXCEPT !.pc = step]
<1>2. /\ p \in PolicyUpload /\ p.pc = step /\ p.from = upload[u].from
      /\ p.current = upload[u].current /\ UploadFits(u)
  BY UploadIs
<1>3. upload' = [upload EXCEPT ![u] = p] /\ versions' = versions
  BY <1>1 DEF Proceed, Embed
<1>4. upload[u].pc = "embedding"
  BY DEF Embed, Uploading
<1> HIDE DEF p
<1> QED BY <1>1, <1>2, <1>3, <1>4, EndsNothingInv DEF UploadFits

LEMMA CloseCurrentInv ==
  ASSUME LibraryInv, NEW u \in Uploads, CloseCurrent(u)
  PROVE  LibraryInv'
<1> DEFINE ended == OpenFrom(upload[u].current.from)
           p == [upload[u] EXCEPT !.pc = "inserting"]
<1>1. CASE ended \notin versions
  BY <1>1, ConflictInv DEF CloseCurrent
<1>2. CASE ended \in versions
  <2>1. /\ p \in PolicyUpload /\ p.pc = "inserting" /\ p.from = upload[u].from
        /\ p.current = upload[u].current /\ UploadFits(u)
    BY UploadIs
  <2>2. upload' = [upload EXCEPT ![u] = p] /\ versions' = versions
    BY <1>2 DEF CloseCurrent, Proceed
  <2>3. /\ \A w \in Uploads : ended \notin Ended(w)
        /\ upload[u].pc = "closing"
    BY DEF CloseCurrent, Uploading
  <2> HIDE DEF p
  <2>4. /\ upload' \in [Uploads -> PolicyUpload] /\ upload'[u] = p
        /\ \A w \in Uploads \ {u} : upload'[w] = upload[w]
    BY <2>1, <2>2, UploadMoves DEF LibraryInv
  <2>5. Ended(u)' = {ended}
    BY <2>1, <2>3, <2>4 DEF Ended, UploadFits, Uploading
  <2>6. UploadFits(u)'
    BY <1>2, <2>1, <2>2, <2>3, <2>4, <2>5 DEF UploadFits, Uploading
  <2>7. ASSUME NEW w \in Uploads \ {u} PROVE UploadFits(w)' /\ Ended(w)' = Ended(w)
    BY <2>2, <2>4 DEF LibraryInv, UploadFits, Uploading, Ended
  <2>8. \A v, w \in Uploads : v # w => UploadsApart(v, w)'
    BY <2>1, <2>3, <2>4, <2>5, <2>7 DEF LibraryInv, UploadsApart, Uploading
  <2>9. LibraryTypeOK' /\ VersionsFollow'
    BY <2>2, <2>4 DEF LibraryInv, LibraryTypeOK, VersionsFollow, InForce
  <2> QED BY <2>6, <2>7, <2>8, <2>9 DEF LibraryInv
<1> QED BY <1>1, <1>2

LEMMA InsertVersionInv ==
  ASSUME LibraryInv, NEW u \in Uploads, InsertVersion(u)
  PROVE  LibraryInv'
<1> DEFINE new == OpenFrom(upload[u].from)
           p == [upload[u] EXCEPT !.pc = "inserted"]
<1>1. CASE \E v \in versions \ Ended(u) : Overlap(v, new)
  BY <1>1, ConflictInv DEF InsertVersion
<1>2. CASE ~\E v \in versions \ Ended(u) : Overlap(v, new)
  <2>1. /\ p \in PolicyUpload /\ p.pc = "inserted" /\ p.from = upload[u].from
        /\ p.current = upload[u].current /\ UploadFits(u)
    BY UploadIs
  <2>2. upload' = [upload EXCEPT ![u] = p] /\ versions' = versions
    BY <1>2 DEF InsertVersion, Proceed
  <2>3. /\ \A w \in Uploads : ~Uploading(w, "inserted")
        /\ upload[u].pc = "inserting"
    BY DEF InsertVersion, Uploading
  <2> HIDE DEF p
  <2>4. /\ upload' \in [Uploads -> PolicyUpload] /\ upload'[u] = p
        /\ \A w \in Uploads \ {u} : upload'[w] = upload[w]
    BY <2>1, <2>2, UploadMoves DEF LibraryInv
  <2>5. Ended(u)' = Ended(u)
    BY <2>1, <2>3, <2>4 DEF Ended
  <2>6. UploadFits(u)'
    BY <1>2, <2>1, <2>2, <2>3, <2>4, <2>5 DEF UploadFits, Uploading
  <2>7. ASSUME NEW w \in Uploads \ {u} PROVE UploadFits(w)' /\ Ended(w)' = Ended(w)
    BY <2>2, <2>4 DEF LibraryInv, UploadFits, Uploading, Ended
  <2>8. \A v, w \in Uploads : v # w => UploadsApart(v, w)'
    BY <2>1, <2>3, <2>4, <2>5, <2>7 DEF LibraryInv, UploadsApart, Uploading
  <2>9. LibraryTypeOK' /\ VersionsFollow'
    BY <2>2, <2>4 DEF LibraryInv, LibraryTypeOK, VersionsFollow, InForce
  <2> QED BY <2>6, <2>7, <2>8, <2>9 DEF LibraryInv
<1> QED BY <1>1, <1>2

\* The first version of a title: nothing was open, so nothing is there.
LEMMA FirstVersionFollows ==
  ASSUME LibraryInv, NEW d \in TermDays,
         \A v \in versions : ~Overlap(v, OpenFrom(d)), versions' = versions \cup {OpenFrom(d)}
  PROVE  VersionsFollow' /\ versions = {}
<1> DEFINE new == OpenFrom(d)
<1>1. new = [from |-> d, to |-> Never] /\ d < Never /\ d \in Nat /\ Never \in Nat
  BY DaysAreNumbers DEF OpenFrom
<1>2. versions = {}
  <2> SUFFICES ASSUME versions # {} PROVE FALSE
    OBVIOUS
  <2>1. PICK v \in versions : v.to = Never
    BY DEF LibraryInv, VersionsFollow
  <2>2. v.from \in TermDays
    BY DEF LibraryInv, LibraryTypeOK, Version
  <2>3. v.from < Never
    BY <2>2, DaysAreNumbers
  <2> QED BY <1>1, <2>1, <2>3 DEF Overlap
<1>3. versions' = {new}
  BY <1>2
<1>4. \A day \in TermDays : day >= d => InForce(day)' # {}
  BY <1>1, <1>3, DaysAreNumbers DEF InForce
<1> QED BY <1>1, <1>2, <1>3, <1>4 DEF VersionsFollow

\* The next version of a title: the open one ends where it begins.
LEMMA NextVersionFollows ==
  ASSUME LibraryInv, NEW c \in TermDays, NEW d \in TermDays, c < d,
         OpenFrom(c) \in versions,
         versions' = (versions \ {OpenFrom(c)}) \cup {[from |-> c, to |-> d]} \cup {OpenFrom(d)}
  PROVE  VersionsFollow'
<1> DEFINE open == OpenFrom(c)
           new == OpenFrom(d)
           closed == [from |-> c, to |-> d]
<1>1. /\ c \in Nat /\ d \in Nat /\ Never \in Nat /\ c < Never /\ d < Never
      /\ open.from = c /\ open.to = Never /\ new.from = d /\ new.to = Never
      /\ closed.from = c /\ closed.to = d
  BY DaysAreNumbers DEF OpenFrom
<1> HIDE DEF open, new, closed
<1>2. open \in versions /\ versions' = (versions \ {open}) \cup {closed} \cup {new}
  BY DEF open, new, closed
<1>3. \A v \in versions : v.from \in Nat /\ v.to \in Nat /\ v.from < Never
  <2> SUFFICES ASSUME NEW v \in versions PROVE v.from \in Nat /\ v.to \in Nat /\ v.from < Never
    OBVIOUS
  <2>1. v.from \in TermDays /\ v.to \in TermDays \cup {Never}
    BY DEF LibraryInv, LibraryTypeOK, Version
  <2> QED BY <2>1, DaysAreNumbers
<1>4. ASSUME NEW v \in versions \ {open} PROVE v.to <= c
  <2>1. ~Overlap(v, open)
    BY <1>2 DEF LibraryInv, VersionsFollow
  <2> QED BY <1>1, <1>3, <2>1 DEF Overlap
<1>5. ASSUME NEW v \in versions', NEW w \in versions', v # w PROVE ~Overlap(v, w)
  <2>1. CASE v \in versions \ {open} /\ w \in versions \ {open}
    BY <2>1, <1>5 DEF LibraryInv, VersionsFollow
  <2>2. CASE v \in versions \ {open} /\ w \in {closed, new}
    BY <1>1, <1>3, <1>4, <2>2 DEF Overlap
  <2>3. CASE v \in {closed, new} /\ w \in versions \ {open}
    BY <1>1, <1>3, <1>4, <2>3 DEF Overlap
  <2>4. CASE v \in {closed, new} /\ w \in {closed, new}
    BY <1>1, <1>5, <2>4 DEF Overlap
  <2> QED BY <1>2, <2>1, <2>2, <2>3, <2>4
<1>6. ASSUME NEW day \in TermDays, day >= c PROVE InForce(day)' # {}
  <2>1. day \in Nat /\ day < Never
    BY DaysAreNumbers
  <2>2. CASE day < d
    BY <1>1, <1>2, <1>6, <2>1, <2>2 DEF InForce
  <2>3. CASE d <= day
    BY <1>1, <1>2, <2>1, <2>3 DEF InForce
  <2> QED BY <1>1, <2>1, <2>2, <2>3
<1>7. ASSUME NEW v \in versions', NEW day \in TermDays, day >= v.from
      PROVE  InForce(day)' # {}
  <2>1. day \in Nat
    BY DaysAreNumbers
  <2>2. CASE day >= c
    BY <1>6, <2>2
  <2>3. CASE day < c
    <3>1. v \in versions
      BY <1>1, <1>2, <1>7, <2>1, <2>3
    <3>2. PICK w \in versions : w.from <= day /\ day < w.to
      BY <1>7, <3>1 DEF LibraryInv, VersionsFollow, InForce
    <3>3. w # open
      BY <1>1, <2>1, <2>3, <3>2
    <3> QED BY <1>2, <3>2, <3>3 DEF InForce
  <2> QED BY <1>1, <2>1, <2>2, <2>3
<1> QED BY <1>1, <1>2, <1>5, <1>7 DEF VersionsFollow

LEMMA CommitUploadInv ==
  ASSUME LibraryInv, NEW u \in Uploads, CommitUpload(u)
  PROVE  LibraryInv'
<1> DEFINE d == upload[u].from
           c == upload[u].current.from
           p == [upload[u] EXCEPT !.pc = "done"]
<1>1. /\ p \in PolicyUpload /\ p.pc = "done" /\ upload[u] \in PolicyUpload /\ UploadFits(u)
  BY UploadIs
<1>2. upload' = [upload EXCEPT ![u] = p] /\ upload[u].pc = "inserted"
  BY DEF CommitUpload, Proceed, Uploading
<1> HIDE DEF p
<1>3. /\ upload' \in [Uploads -> PolicyUpload] /\ upload'[u] = p
      /\ \A w \in Uploads \ {u} : upload'[w] = upload[w]
  BY <1>1, <1>2, UploadMoves DEF LibraryInv
<1>4. /\ d \in TermDays /\ Ended(u) \subseteq versions
      /\ \A v \in versions \ Ended(u) : ~Overlap(v, OpenFrom(d))
      /\ upload[u].current.on => c \in TermDays /\ c < d
      /\ upload[u].current.on \in BOOLEAN
  BY <1>1, <1>2 DEF UploadFits, Uploading, PolicyUpload, OpenVersion
<1>5. versions' = (versions \ Ended(u)) \cup Closed(u) \cup {OpenFrom(d)}
  BY DEF CommitUpload
<1>6. VersionsFollow' /\ versions' \subseteq Version
  <2>1. OpenFrom(d) \in Version /\ versions \subseteq Version
    BY <1>4 DEF OpenFrom, Version, LibraryInv, LibraryTypeOK
  <2>2. CASE upload[u].current.on = FALSE
    <3>1. Ended(u) = {} /\ Closed(u) = {}
      BY <2>2 DEF Ended, Closed
    <3> QED BY <1>4, <1>5, <2>1, <3>1, FirstVersionFollows
  <2>3. CASE upload[u].current.on = TRUE
    <3>1. Ended(u) = {OpenFrom(c)}
      BY <1>2, <2>3 DEF Ended
    <3>2. Closed(u) = {[from |-> c, to |-> d]}
      BY <3>1 DEF Closed, OpenFrom
    <3>3. [from |-> c, to |-> d] \in Version
      BY <1>4, <2>3 DEF Version
    <3> HIDE DEF c, d
    <3> QED BY <1>4, <1>5, <2>1, <2>3, <3>1, <3>2, <3>3, NextVersionFollows
  <2> QED BY <1>4, <2>2, <2>3
<1>7. Ended(u)' = {} /\ UploadFits(u)'
  BY <1>1, <1>3 DEF Ended, UploadFits, Uploading
<1>8. ASSUME NEW w \in Uploads \ {u} PROVE UploadFits(w)' /\ Ended(w)' = Ended(w)
  <2>1. UploadFits(w) /\ UploadsApart(w, u)
    BY DEF LibraryInv
  <2>2. Ended(w)' = Ended(w)
    BY <1>3 DEF Ended
  <2>3. Ended(w) \subseteq versions'
    BY <1>5, <2>1 DEF UploadFits, UploadsApart
  <2>4. ~Uploading(w, "inserted")
    BY <1>2, <2>1 DEF UploadsApart, Uploading
  <2> QED BY <1>3, <2>1, <2>2, <2>3, <2>4 DEF UploadFits, Uploading
<1>9. \A v, w \in Uploads : v # w => UploadsApart(v, w)'
  BY <1>1, <1>3, <1>7, <1>8 DEF LibraryInv, UploadsApart, Uploading
<1> QED BY <1>3, <1>6, <1>7, <1>8, <1>9 DEF LibraryInv, LibraryTypeOK

LEMMA LibraryInvNext == LibraryInv /\ [LibraryNext]_libraryVars => LibraryInv'
<1> SUFFICES ASSUME LibraryInv, [LibraryNext]_libraryVars PROVE LibraryInv'
  OBVIOUS
<1>1. CASE UNCHANGED libraryVars
  BY <1>1 DEF libraryVars, LibraryInv, LibraryTypeOK, VersionsFollow, InForce, UploadFits,
              UploadsApart, Uploading, Ended
<1>2. ASSUME NEW u \in Uploads, RollBack(u) PROVE LibraryInv'
  BY <1>2, ConflictInv DEF RollBack
<1> QED BY <1>1, <1>2, ReadCurrentInv, EmbedInv, CloseCurrentInv, InsertVersionInv, CommitUploadInv
        DEF LibraryNext

LEMMA OneIsInForce == LibraryInv => OneVersionInForce
<1> SUFFICES ASSUME LibraryInv, NEW v \in versions, NEW day \in TermDays, day >= v.from
             PROVE  Cardinality(InForce(day)) = 1
  BY DEF OneVersionInForce
<1>1. PICK w : w \in InForce(day)
  BY DEF LibraryInv, VersionsFollow
<1>2. ASSUME NEW x \in InForce(day) PROVE x = w
  <2>1. /\ x \in versions /\ x.from <= day /\ day < x.to
        /\ w \in versions /\ w.from <= day /\ day < w.to
    BY <1>1, <1>2 DEF InForce
  <2>2. /\ x \in Version /\ w \in Version
    BY <2>1 DEF LibraryInv, LibraryTypeOK
  <2>3. /\ x.from \in Nat /\ x.to \in Nat /\ w.from \in Nat /\ w.to \in Nat
    BY <2>2, DaysAreNumbers DEF Version
  <2>4. day \in Nat
    BY DaysAreNumbers
  <2>5. Overlap(x, w)
    BY <2>1, <2>3, <2>4 DEF Overlap
  <2> QED BY <2>1, <2>5 DEF LibraryInv, VersionsFollow
<1>3. InForce(day) = {w}
  BY <1>1, <1>2
<1> QED BY <1>3, FS_Singleton

-----------------------------------------------------------------------------
(* The declarations of a document type.  A field nobody retired has a      *)
(* declaration without an end that has begun: a later day is governed too. *)
HasLasting(key) ==
  \E d \in DOMAIN declarations :
    d[1] = key /\ d[2] <= declDay /\ declarations[d] = Forever

CatalogueInv ==
  /\ CatalogueTypeOK
  /\ \A e \in Editors : edits[e].at # "idle" => edits[e].on <= declDay
  /\ SeededKeys \X {0} \subseteq DOMAIN declarations
  /\ \A d \in DOMAIN declarations : d[1] \in retired \/ HasLasting(d[1])

LEMMA DaysOfDeclarations ==
  /\ LastDeclDay \in Nat /\ Forever \in Nat /\ DeclDays \subseteq Nat
  /\ 0 \in DeclDays /\ 1 \in DeclDays /\ \A d \in DeclDays : d < Forever
BY CatalogueAssumption DEF Forever, DeclDays

LEMMA NoEditIsOne == NoEdit \in Edit /\ NoEdit.at = "idle"
<1>1. PICK k : k = CHOOSE x \in FieldKeys : TRUE
  OBVIOUS
<1>2. k \in FieldKeys
  BY <1>1, CatalogueAssumption
<1>3. NoEdit = [at |-> "idle", key |-> k, retire |-> FALSE, on |-> 0]
  BY <1>1 DEF NoEdit
<1> QED BY <1>2, <1>3, DaysOfDeclarations DEF Edit

\* A request moves to a step that is idle or keeps its day.
LEMMA EditMoves ==
  ASSUME CatalogueInv, NEW e \in Editors, NEW n \in Edit,
         edits' = [edits EXCEPT ![e] = n], n.at # "idle" => n.on <= declDay,
         declDay' = declDay
  PROVE  /\ edits' \in [Editors -> Edit]
         /\ \A x \in Editors : edits'[x].at # "idle" => edits'[x].on <= declDay'
BY DEF CatalogueInv, CatalogueTypeOK

LEMMA CatalogueInitInv == CatalogueInit => CatalogueInv
<1> SUFFICES ASSUME CatalogueInit PROVE CatalogueInv
  OBVIOUS
<1>1. /\ declarations = [d \in SeededKeys \X {0} |-> Forever]
      /\ edits = [e \in Editors |-> NoEdit] /\ declDay = 1 /\ retired = {}
  BY DEF CatalogueInit
<1>2. NoEdit \in Edit /\ NoEdit.at = "idle"
  BY NoEditIsOne
<1> HIDE DEF NoEdit
<1>3. DOMAIN declarations = SeededKeys \X {0}
  BY <1>1
<1>4. \A d \in DOMAIN declarations :
        d \in FieldKeys \X DeclDays /\ d[2] = 0 /\ declarations[d] = Forever
  BY <1>1, <1>3, CatalogueAssumption, DaysOfDeclarations
<1>5. \A d \in DOMAIN declarations : declarations[d] \in d[2]..Forever
  BY <1>4, DaysOfDeclarations
<1>6. CatalogueTypeOK
  BY <1>1, <1>2, <1>4, <1>5, DaysOfDeclarations DEF CatalogueTypeOK
<1>7. \A d \in DOMAIN declarations : HasLasting(d[1])
  BY <1>1, <1>4 DEF HasLasting
<1> QED BY <1>1, <1>2, <1>3, <1>6, <1>7 DEF CatalogueInv

\* The declarations stay: a request asks, looks or ends.
LEMMA EditOnlyInv ==
  ASSUME CatalogueInv, NEW e \in Editors, NEW n \in Edit,
         edits' = [edits EXCEPT ![e] = n], n.at # "idle" => n.on <= declDay,
         UNCHANGED <<declarations, declDay, retired>>
  PROVE  CatalogueInv'
<1>1. /\ edits' \in [Editors -> Edit]
      /\ \A x \in Editors : edits'[x].at # "idle" => edits'[x].on <= declDay'
  BY EditMoves
<1> QED BY <1>1 DEF CatalogueInv, CatalogueTypeOK, HasLasting

LEMMA EditIs ==
  ASSUME CatalogueInv, NEW e \in Editors
  PROVE  /\ edits[e] \in Edit /\ edits[e].key \in FieldKeys /\ edits[e].on \in DeclDays
         /\ edits[e].at # "idle" => edits[e].on <= declDay
BY DEF CatalogueInv, CatalogueTypeOK, Edit

LEMMA AskEditInv ==
  ASSUME CatalogueInv, NEW e \in Editors, NEW key \in FieldKeys, NEW retire \in BOOLEAN,
         AskEdit(e, key, retire)
  PROVE  CatalogueInv'
<1> DEFINE n == [at |-> "asked", key |-> key, retire |-> retire, on |-> declDay]
<1>1. declDay \in DeclDays
  BY DEF CatalogueInv, CatalogueTypeOK
<1>2. n \in Edit /\ n.on <= declDay
  BY <1>1, DaysOfDeclarations DEF Edit
<1>3. edits' = [edits EXCEPT ![e] = n] /\ UNCHANGED <<declarations, declDay, retired>>
  BY DEF AskEdit
<1> HIDE DEF n
<1> QED BY <1>2, <1>3, EditOnlyInv

LEMMA LockLiveInv ==
  ASSUME CatalogueInv, NEW e \in Editors, LockLive(e)
  PROVE  CatalogueInv'
<1>1. UNCHANGED <<declarations, declDay, retired>> /\ edits[e].at = "asked"
  BY DEF LockLive
<1>2. CASE EditEnds(e)
  BY <1>1, <1>2, NoEditIsOne, EditOnlyInv DEF EditEnds
<1>3. CASE ~EditEnds(e)
  <2>1. PICK step \in {"fresh", "locked"} : edits' = [edits EXCEPT ![e] = [edits[e] EXCEPT !.at = step]]
    BY <1>3 DEF LockLive
  <2> DEFINE n == [edits[e] EXCEPT !.at = step]
  <2>2. n \in Edit /\ n.on <= declDay
    BY <1>1, EditIs DEF Edit
  <2> HIDE DEF n
  <2> QED BY <1>1, <2>1, <2>2, EditOnlyInv DEF n
<1> QED BY <1>2, <1>3

\* closeLiveDeclarations touches the rows of one field only, and inverts none.
LEMMA ClosedAtKeeps ==
  ASSUME CatalogueTypeOK, NEW key \in FieldKeys, NEW on \in DeclDays,
         <<key, on>> \notin Live(key, on)
  PROVE  /\ DOMAIN ClosedAt(key, on) = DOMAIN declarations
         /\ \A d \in DOMAIN declarations :
              /\ ClosedAt(key, on)[d] \in d[2]..Forever
              /\ d[1] # key => ClosedAt(key, on)[d] = declarations[d]
<1>1. DOMAIN ClosedAt(key, on) = DOMAIN declarations
  BY DEF ClosedAt
<1>2. ASSUME NEW d \in DOMAIN declarations
      PROVE  /\ ClosedAt(key, on)[d] \in d[2]..Forever
             /\ d[1] # key => ClosedAt(key, on)[d] = declarations[d]
  <2>1. /\ d \in FieldKeys \X DeclDays /\ declarations[d] \in d[2]..Forever
        /\ d = <<d[1], d[2]>> /\ d[2] \in Nat /\ on \in Nat /\ on < Forever /\ Forever \in Nat
    <3>1. d \in FieldKeys \X DeclDays /\ declarations[d] \in d[2]..Forever
      BY DEF CatalogueTypeOK
    <3>2. d = <<d[1], d[2]>> /\ d[2] \in DeclDays
      BY <3>1
    <3> QED BY <3>1, <3>2, DaysOfDeclarations
  <2>2. CASE d \in Live(key, on)
    <3>1. d[1] = key /\ d[2] <= on /\ ClosedAt(key, on)[d] = on - 1
      BY <2>2 DEF Live, Governs, ClosedAt
    <3>2. d[2] # on
      BY <2>1, <2>2, <3>1
    <3> QED BY <2>1, <3>1, <3>2
  <2>3. CASE d \notin Live(key, on)
    BY <2>1, <2>3 DEF ClosedAt
  <2> QED BY <2>2, <2>3
<1> QED BY <1>1, <1>2

LEMMA DeclareInv ==
  ASSUME CatalogueInv, NEW e \in Editors, Declare(e)
  PROVE  CatalogueInv'
<1> DEFINE key == edits[e].key
           on == edits[e].on
           closed == IF edits[e].at = "locked" THEN ClosedAt(key, on) ELSE declarations
           opens == <<key, on>>
<1>1. /\ key \in FieldKeys /\ on \in DeclDays /\ on <= declDay
      /\ opens \notin DOMAIN declarations /\ declarations' = Opened(closed, key, on)
      /\ retired' = retired \ {key} /\ EditEnds(e) /\ declDay' = declDay
  BY EditIs DEF Declare, OpensOn
<1>2. opens \notin Live(key, on)
  BY <1>1 DEF Live
<1>3. /\ DOMAIN closed = DOMAIN declarations
      /\ \A d \in DOMAIN declarations :
           closed[d] \in d[2]..Forever /\ (d[1] # key => closed[d] = declarations[d])
  BY <1>1, <1>2, ClosedAtKeeps DEF CatalogueInv, CatalogueTypeOK
<1> HIDE DEF closed
<1>4. /\ DOMAIN declarations' = DOMAIN declarations \cup {opens}
      /\ declarations'[opens] = Forever
      /\ \A d \in DOMAIN declarations : declarations'[d] = closed[d]
  BY <1>1, <1>3 DEF Opened
<1>5. opens \in FieldKeys \X DeclDays /\ opens[1] = key /\ opens[2] = on /\ on \in Nat
      /\ on \in DeclDays /\ Forever \in on..Forever
  <2>1. opens \in FieldKeys \X DeclDays /\ opens[1] = key /\ opens[2] = on
    BY <1>1
  <2>2. on \in Nat /\ on < Forever /\ Forever \in Nat
    BY <1>1, DaysOfDeclarations
  <2> HIDE DEF on, opens
  <2> QED BY <1>1, <2>1, <2>2
<1> HIDE DEF opens
<1>6. CatalogueTypeOK'
  <2>1. edits' \in [Editors -> Edit]
    BY <1>1, NoEditIsOne, EditMoves DEF EditEnds
  <2>2. DOMAIN declarations' \subseteq FieldKeys \X DeclDays
    BY <1>4, <1>5 DEF CatalogueInv, CatalogueTypeOK
  <2>3. \A d \in DOMAIN declarations' : declarations'[d] \in d[2]..Forever
    <3> SUFFICES ASSUME NEW d \in DOMAIN declarations' PROVE declarations'[d] \in d[2]..Forever
      OBVIOUS
    <3> HIDE DEF on
    <3>1. CASE d = opens
      BY <1>4, <1>5, <3>1
    <3>2. CASE d # opens
      BY <1>3, <1>4, <3>2
    <3> QED BY <3>1, <3>2
  <2> QED BY <1>1, <2>1, <2>2, <2>3 DEF CatalogueInv, CatalogueTypeOK
<1>7. \A x \in Editors : edits'[x].at # "idle" => edits'[x].on <= declDay'
  BY <1>1, NoEditIsOne, EditMoves DEF EditEnds
<1>8. ASSUME NEW k, k = key PROVE HasLasting(k)'
  <2>1. opens \in DOMAIN declarations' /\ declarations'[opens] = Forever
    BY <1>4
  <2>2. opens[1] = key /\ opens[2] <= declDay'
    BY <1>1, <1>5
  <2> QED BY <1>8, <2>1, <2>2 DEF HasLasting
<1>9. ASSUME NEW d \in DOMAIN declarations', d[1] # key
      PROVE  d[1] \in retired' \/ HasLasting(d[1])'
  <2>1. d \in DOMAIN declarations
    BY <1>4, <1>5, <1>9
  <2>2. CASE d[1] \in retired
    BY <1>1, <1>9, <2>2
  <2>3. CASE HasLasting(d[1])
    <3>1. PICK f \in DOMAIN declarations :
            f[1] = d[1] /\ f[2] <= declDay /\ declarations[f] = Forever
      BY <2>3 DEF HasLasting
    <3> QED BY <1>1, <1>3, <1>4, <1>9, <3>1 DEF HasLasting
  <2> QED BY <2>1, <2>2, <2>3 DEF CatalogueInv
<1>10. \A d \in DOMAIN declarations' : d[1] = key => HasLasting(d[1])'
  BY <1>8
<1> QED BY <1>4, <1>6, <1>7, <1>9, <1>10 DEF CatalogueInv

LEMMA RetireFieldInv ==
  ASSUME CatalogueInv, NEW e \in Editors, RetireField(e)
  PROVE  CatalogueInv'
<1> DEFINE key == edits[e].key
           on == edits[e].on
<1>1. /\ key \in FieldKeys /\ on \in DeclDays /\ <<key, on>> \notin Live(key, on)
      /\ declarations' = ClosedAt(key, on)
      /\ retired' = retired \cup {key} /\ EditEnds(e) /\ declDay' = declDay
  BY EditIs DEF RetireField
<1> HIDE DEF key, on
<1>2. /\ DOMAIN declarations' = DOMAIN declarations
      /\ \A d \in DOMAIN declarations :
           declarations'[d] \in d[2]..Forever /\ (d[1] # key => declarations'[d] = declarations[d])
  BY <1>1, ClosedAtKeeps DEF CatalogueInv
<1>3. /\ edits' \in [Editors -> Edit]
      /\ \A x \in Editors : edits'[x].at # "idle" => edits'[x].on <= declDay'
  BY <1>1, NoEditIsOne, EditMoves DEF EditEnds
<1>4. CatalogueTypeOK'
  BY <1>1, <1>2, <1>3 DEF CatalogueInv, CatalogueTypeOK
<1>5. ASSUME NEW d \in DOMAIN declarations', d[1] \notin retired'
      PROVE  HasLasting(d[1])'
  <2>1. d \in DOMAIN declarations /\ d[1] \notin retired /\ d[1] # key
    BY <1>1, <1>2, <1>5
  <2>2. PICK f \in DOMAIN declarations :
          f[1] = d[1] /\ f[2] <= declDay /\ declarations[f] = Forever
    BY <2>1 DEF CatalogueInv, HasLasting
  <2> QED BY <1>1, <1>2, <2>1, <2>2 DEF HasLasting
<1> QED BY <1>2, <1>3, <1>4, <1>5 DEF CatalogueInv

LEMMA ApplySeedInv ==
  ASSUME CatalogueInv, ApplySeed
  PROVE  CatalogueInv'
<1>1. /\ declarations' = [d \in DOMAIN declarations |->
           IF d \in SeededKeys \X {0} THEN Forever ELSE declarations[d]]
      /\ retired' = retired \ SeededKeys /\ UNCHANGED <<edits, declDay>>
  BY DEF ApplySeed
<1>2. /\ DOMAIN declarations' = DOMAIN declarations
      /\ \A d \in DOMAIN declarations :
           declarations'[d] = Forever \/ declarations'[d] = declarations[d]
      /\ \A d \in SeededKeys \X {0} : declarations'[d] = Forever
  BY <1>1 DEF CatalogueInv
<1>3. \A d \in DOMAIN declarations' : declarations'[d] \in d[2]..Forever
  <2> SUFFICES ASSUME NEW d \in DOMAIN declarations PROVE declarations'[d] \in d[2]..Forever
    BY <1>2
  <2>1. declarations[d] \in d[2]..Forever /\ d[2] \in DeclDays
    BY DEF CatalogueInv, CatalogueTypeOK
  <2>2. d[2] \in Nat /\ d[2] < Forever /\ Forever \in Nat
    BY <2>1, DaysOfDeclarations
  <2>3. Forever \in d[2]..Forever
    BY <2>2
  <2> QED BY <1>2, <2>1, <2>3
<1>4. CatalogueTypeOK'
  BY <1>1, <1>2, <1>3 DEF CatalogueInv, CatalogueTypeOK
<1>5. ASSUME NEW d \in DOMAIN declarations', d[1] \notin retired'
      PROVE  HasLasting(d[1])'
  <2>1. CASE d[1] \in SeededKeys
    <3>1. /\ <<d[1], 0>> \in SeededKeys \X {0} /\ <<d[1], 0>> \in DOMAIN declarations
          /\ <<d[1], 0>>[1] = d[1] /\ <<d[1], 0>>[2] = 0
      BY <2>1 DEF CatalogueInv
    <3>2. 0 <= declDay
      BY DaysOfDeclarations DEF CatalogueInv, CatalogueTypeOK
    <3> QED BY <1>1, <1>2, <3>1, <3>2 DEF HasLasting
  <2>2. CASE d[1] \notin SeededKeys
    <3>1. d[1] \notin retired
      BY <1>1, <1>5, <2>2
    <3>2. PICK f \in DOMAIN declarations :
            f[1] = d[1] /\ f[2] <= declDay /\ declarations[f] = Forever
      BY <1>2, <3>1 DEF CatalogueInv, HasLasting
    <3> QED BY <1>1, <1>2, <3>2 DEF HasLasting
  <2> QED BY <2>1, <2>2
<1> QED BY <1>1, <1>2, <1>4, <1>5 DEF CatalogueInv

LEMMA MidnightInv ==
  ASSUME CatalogueInv, Midnight
  PROVE  CatalogueInv'
<1>1. declDay \in Nat /\ declDay' = declDay + 1 /\ declDay' \in DeclDays
  BY CatalogueAssumption DEF Midnight, CatalogueInv, CatalogueTypeOK, DeclDays
<1>2. UNCHANGED <<declarations, edits, retired>>
  BY DEF Midnight
<1>3. \A d \in DOMAIN declarations : d[2] \in Nat
  BY DaysOfDeclarations DEF CatalogueInv, CatalogueTypeOK
<1>4. \A e \in Editors : edits[e].on \in Nat
  BY EditIs, DaysOfDeclarations
<1>5. CatalogueTypeOK'
  BY <1>1, <1>2 DEF CatalogueInv, CatalogueTypeOK
<1>6. \A d \in DOMAIN declarations : HasLasting(d[1]) => HasLasting(d[1])'
  BY <1>1, <1>2, <1>3 DEF HasLasting
<1>7. \A e \in Editors : edits'[e].at # "idle" => edits'[e].on <= declDay'
  BY <1>1, <1>2, <1>4 DEF CatalogueInv
<1> QED BY <1>2, <1>5, <1>6, <1>7 DEF CatalogueInv

LEMMA CatalogueInvNext == CatalogueInv /\ [CatalogueNext]_catalogueVars => CatalogueInv'
<1> SUFFICES ASSUME CatalogueInv, [CatalogueNext]_catalogueVars PROVE CatalogueInv'
  OBVIOUS
<1>1. CASE UNCHANGED catalogueVars
  BY <1>1 DEF catalogueVars, CatalogueInv, CatalogueTypeOK, HasLasting
<1>2. ASSUME NEW e \in Editors, EditRolledBack(e) PROVE CatalogueInv'
  BY <1>2, NoEditIsOne, EditOnlyInv DEF EditRolledBack, EditEnds
<1> QED BY <1>1, <1>2, AskEditInv, LockLiveInv, DeclareInv, RetireFieldInv, ApplySeedInv,
           MidnightInv DEF CatalogueNext

LEMMA FieldsAreDeclared == CatalogueInv => DeclaredUntilRetired
<1> SUFFICES ASSUME CatalogueInv, NEW d \in DOMAIN declarations, d[1] \notin retired
             PROVE  Live(d[1], declDay) # {}
  BY DEF DeclaredUntilRetired
<1>1. PICK f \in DOMAIN declarations :
        f[1] = d[1] /\ f[2] <= declDay /\ declarations[f] = Forever
  BY DEF CatalogueInv, HasLasting
<1>2. declDay <= Forever
  BY DaysOfDeclarations DEF CatalogueInv, CatalogueTypeOK
<1> QED BY <1>1, <1>2 DEF Live, Governs

\* The versions and the uploads keep their types.
THEOREM LibraryTypeCorrect == LibrarySpec => []LibraryTypeOK
<1>1. LibraryInv => LibraryTypeOK
  BY DEF LibraryInv
<1> QED BY <1>1, LibraryInitInv, LibraryInvNext, PTL DEF LibrarySpec

\* The declarations keep their types, and no window ends before it begins.
THEOREM CatalogueTypeCorrect == CatalogueSpec => []CatalogueTypeOK
<1>1. CatalogueInv => CatalogueTypeOK
  BY DEF CatalogueInv
<1> QED BY <1>1, CatalogueInitInv, CatalogueInvNext, PTL DEF CatalogueSpec

\* However uploads cross, fail and are refused, from a title's first version
\* on every day has one version in force; and however corrections, midnights
\* and the seed fall, a field governs every later day until it is retired.
THEOREM OneIsAlwaysInForce == LibrarySpec /\ CatalogueSpec => []InForceHolds
<1>1. LibraryInv /\ CatalogueInv => InForceHolds
  BY OneIsInForce, FieldsAreDeclared DEF InForceHolds
<1> QED BY <1>1, LibraryInitInv, LibraryInvNext, CatalogueInitInv, CatalogueInvNext, PTL
        DEF LibrarySpec, CatalogueSpec

-----------------------------------------------------------------------------
(* The spaces of a building.  A request that takes a bay off, or assigns   *)
(* it, names a bay, and the letting it is for stands.                      *)
HandFits(h) ==
  /\ HandAt(h, "remove") => hands[h].bay \in BayNames
  /\ HandAt(h, "assign") => hands[h].bay \in BayNames /\ hands[h].lease \in DOMAIN leases

SpacesInv == SpacesTypeOK /\ SpacesHold /\ \A h \in Hands : HandFits(h)

LEMMA IdleHandIsOne ==
  /\ IdleHand \in Hand /\ IdleHand.at = "idle"
  /\ AnyLease \in Leases
<1>1. PICK k : k = CHOOSE l \in Leases : TRUE
  OBVIOUS
<1>2. k \in Leases
  BY <1>1, SpacesAssumption
<1>3. /\ IdleHand = [at |-> "idle", spaces |-> {}, lease |-> k, bay |-> NoBay]
      /\ AnyLease = k
  BY <1>1 DEF IdleHand, AnyLease
<1> QED BY <1>2, <1>3 DEF Hand

LEMMA HandMoves ==
  ASSUME SpacesInv, NEW h \in Hands, NEW n \in Hand, hands' = [hands EXCEPT ![h] = n],
         DOMAIN leases \subseteq DOMAIN leases',
         n.at = "remove" => n.bay \in BayNames,
         n.at = "assign" => n.bay \in BayNames /\ n.lease \in DOMAIN leases'
  PROVE  hands' \in [Hands -> Hand] /\ \A g \in Hands : HandFits(g)'
<1>1. /\ hands' \in [Hands -> Hand] /\ hands'[h] = n
      /\ \A g \in Hands \ {h} : hands'[g] = hands[g]
  BY DEF SpacesInv, SpacesTypeOK
<1> QED BY <1>1 DEF SpacesInv, HandFits, HandAt

LEMMA HandIsFreed ==
  ASSUME SpacesInv, NEW h \in Hands, HandFree(h), DOMAIN leases \subseteq DOMAIN leases'
  PROVE  hands' \in [Hands -> Hand] /\ \A g \in Hands : HandFits(g)'
<1>1. IdleHand \in Hand /\ IdleHand.at = "idle" /\ hands' = [hands EXCEPT ![h] = IdleHand]
  BY IdleHandIsOne DEF HandFree
<1> HIDE DEF IdleHand
<1> QED BY <1>1, HandMoves

LEMMA SpacesInitInv == SpacesInit => SpacesInv
<1> SUFFICES ASSUME SpacesInit PROVE SpacesInv
  OBVIOUS
<1>1. IdleHand \in Hand /\ IdleHand.at = "idle"
  BY IdleHandIsOne
<1> HIDE DEF IdleHand
<1>2. DOMAIN built = {} /\ DOMAIN leases = {}
  BY DEF SpacesInit
<1>3. SpacesTypeOK /\ SpacesHold
  BY <1>1, <1>2 DEF SpacesInit, SpacesTypeOK, SpacesHold, HeldSpacesStand, MintedOnce
<1>4. \A h \in Hands : HandFits(h)
  BY <1>1 DEF SpacesInit, HandFits, HandAt
<1> QED BY <1>3, <1>4 DEF SpacesInv

\* A request reads, and nothing else.
LEMMA AsksInv ==
  ASSUME SpacesInv, NEW h \in Hands, NEW step \in {"mint", "add", "remove", "take", "assign"},
         NEW S \in SUBSET SpaceNames, NEW lease \in Leases, NEW bay \in BayNames \cup {NoBay},
         Asks(h, step, S, lease, bay),
         step \in {"remove", "assign"} => bay \in BayNames,
         step = "assign" => lease \in DOMAIN leases
  PROVE  SpacesInv'
<1> DEFINE n == [at |-> step, spaces |-> S, lease |-> lease, bay |-> bay]
<1>1. n \in Hand /\ n.at = step /\ n.bay = bay /\ n.lease = lease
  BY DEF Hand
<1>2. hands' = [hands EXCEPT ![h] = n] /\ UNCHANGED <<spaces, built, leases, fitted, mints, named>>
  BY DEF Asks
<1> HIDE DEF n
<1>3. hands' \in [Hands -> Hand] /\ \A g \in Hands : HandFits(g)'
  BY <1>1, <1>2, HandMoves
<1> QED BY <1>2, <1>3 DEF SpacesInv, SpacesTypeOK, SpacesHold, HeldSpacesStand, MintedOnce

\* The state after a step that has freed its hand or left the hands alone.
LEMMA SpacesFromParts ==
  ASSUME SpacesInv, hands' \in [Hands -> Hand], \A g \in Hands : HandFits(g)',
         spaces' \subseteq SpaceNames, fitted' \subseteq SpaceNames, named' \subseteq SpaceNames,
         DOMAIN built' \subseteq FlatNames,
         \A u \in DOMAIN built' : built'[u] \in BayNames \cup {NoBay},
         DOMAIN leases' \subseteq Leases,
         \A l \in DOMAIN leases' : leases'[l] \in FlatNames \X (BayNames \cup {NoBay}),
         mints' \in 0..1, HeldSpacesStand'
  PROVE  SpacesInv'
BY DEF SpacesInv, SpacesTypeOK, SpacesHold, MintedOnce

LEMMA SpacesAre ==
  ASSUME SpacesInv
  PROVE  /\ spaces \subseteq SpaceNames /\ fitted \subseteq SpaceNames /\ named \subseteq SpaceNames
         /\ DOMAIN built \subseteq FlatNames
         /\ \A u \in DOMAIN built : built[u] \in BayNames \cup {NoBay}
         /\ DOMAIN leases \subseteq Leases
         /\ \A l \in DOMAIN leases : leases[l] \in FlatNames \X (BayNames \cup {NoBay})
         /\ mints \in 0..1 /\ HeldSpacesStand
         /\ \A h \in Hands : hands[h] \in Hand /\ hands[h].spaces \subseteq SpaceNames
BY DEF SpacesInv, SpacesTypeOK, SpacesHold, MintedOnce, Hand

\* upsertSpaces and upsertUnits strand nobody.
LEMMA UpsertStands ==
  ASSUME SpacesInv, NEW S \in SUBSET SpaceNames, Upsert(S, NoBay), UNCHANGED <<leases, fitted>>
  PROVE  /\ HeldSpacesStand' /\ spaces' \subseteq SpaceNames /\ DOMAIN built' \subseteq FlatNames
         /\ \A u \in DOMAIN built' : built'[u] \in BayNames \cup {NoBay}
<1>1. /\ spaces' = spaces \cup S /\ DOMAIN built' = DOMAIN built \cup (S \cap FlatNames)
      /\ \A u \in DOMAIN built' : built'[u] = IF u \in S THEN NoBay ELSE built[u]
  BY DEF Upsert
<1>2. \A u \in DOMAIN built' : u \in S \/ u \in DOMAIN built
  BY <1>1
<1> QED BY <1>1, <1>2, SpacesAre DEF HeldSpacesStand

LEMMA MintInventoryInv ==
  ASSUME SpacesInv, NEW h \in Hands, MintInventory(h)
  PROVE  SpacesInv'
<1>1. /\ Upsert(hands[h].spaces, NoBay) /\ TellMint(hands[h].spaces) /\ HandFree(h)
      /\ UNCHANGED <<leases, fitted>> /\ hands[h].spaces \in SUBSET SpaceNames
  BY SpacesAre DEF MintInventory
<1>2. mints' \in 0..1 /\ named' \subseteq SpaceNames
  BY <1>1, SpacesAre DEF TellMint, MintedBefore
<1>3. hands' \in [Hands -> Hand] /\ \A g \in Hands : HandFits(g)'
  BY <1>1, HandIsFreed
<1>4. /\ HeldSpacesStand' /\ spaces' \subseteq SpaceNames /\ DOMAIN built' \subseteq FlatNames
      /\ \A u \in DOMAIN built' : built'[u] \in BayNames \cup {NoBay}
  BY <1>1, UpsertStands
<1> QED BY <1>1, <1>2, <1>3, <1>4, SpacesAre, SpacesFromParts

LEMMA AddSpacesInv ==
  ASSUME SpacesInv, NEW h \in Hands, AddSpaces(h)
  PROVE  SpacesInv'
<1>1. /\ Upsert(hands[h].spaces, NoBay) /\ HandFree(h) /\ mints' = mints
      /\ UNCHANGED <<leases, fitted>> /\ hands[h].spaces \in SUBSET SpaceNames
      /\ named' = named \cup hands[h].spaces
  BY SpacesAre DEF AddSpaces
<1>2. mints' \in 0..1 /\ named' \subseteq SpaceNames
  BY <1>1, SpacesAre
<1>3. hands' \in [Hands -> Hand] /\ \A g \in Hands : HandFits(g)'
  BY <1>1, HandIsFreed
<1>4. /\ HeldSpacesStand' /\ spaces' \subseteq SpaceNames /\ DOMAIN built' \subseteq FlatNames
      /\ \A u \in DOMAIN built' : built'[u] \in BayNames \cup {NoBay}
  BY <1>1, UpsertStands
<1> QED BY <1>1, <1>2, <1>3, <1>4, SpacesAre, SpacesFromParts

LEMMA AddFlatInv ==
  ASSUME SpacesInv, NEW h \in Hands, NEW f \in FlatNames, NEW bay \in BayNames \cup {NoBay},
         AddFlat(h, f, bay)
  PROVE  SpacesInv'
<1>1. /\ spaces' = spaces \cup {f} \cup ({bay} \ {NoBay})
      /\ DOMAIN built' = DOMAIN built \cup {f}
      /\ \A v \in DOMAIN built' : built'[v] = IF v = f THEN bay ELSE built[v]
      /\ UNCHANGED <<leases, fitted, hands, mints, named>>
  BY DEF AddFlat
<1>2. HeldSpacesStand'
  BY <1>1, SpacesAre DEF HeldSpacesStand
<1>3. /\ spaces' \subseteq SpaceNames /\ DOMAIN built' \subseteq FlatNames
      /\ \A u \in DOMAIN built' : built'[u] \in BayNames \cup {NoBay}
  BY <1>1, SpacesAre DEF SpaceNames
<1>4. hands' \in [Hands -> Hand] /\ \A g \in Hands : HandFits(g)'
  BY <1>1 DEF SpacesInv, SpacesTypeOK, HandFits, HandAt
<1> QED BY <1>1, <1>2, <1>3, <1>4, SpacesAre, SpacesFromParts

LEMMA DetachAndDeleteInv ==
  ASSUME SpacesInv, NEW h \in Hands, DetachAndDelete(h)
  PROVE  SpacesInv'
<1> DEFINE bay == hands[h].bay
<1>1. /\ AssignedTo(bay) = {} /\ bay \notin fitted /\ spaces' = spaces \ {bay}
      /\ DOMAIN built' = DOMAIN built
      /\ \A u \in DOMAIN built : built'[u] = IF built[u] = bay THEN NoBay ELSE built[u]
      /\ HandFree(h) /\ UNCHANGED <<leases, fitted, mints, named>>
  BY DEF DetachAndDelete, NoKeyNames
<1>2. bay \in BayNames
  BY DEF SpacesInv, HandFits, DetachAndDelete
<1> HIDE DEF bay
<1>3. bay \notin DOMAIN built /\ \A l \in DOMAIN leases : leases[l][2] # bay
  BY <1>1, <1>2, SpacesAre, SpacesAssumption DEF AssignedTo
<1>4. HeldSpacesStand'
  BY <1>1, <1>3, SpacesAre DEF HeldSpacesStand
<1>5. hands' \in [Hands -> Hand] /\ \A g \in Hands : HandFits(g)'
  BY <1>1, HandIsFreed
<1>6. /\ spaces' \subseteq SpaceNames /\ DOMAIN built' \subseteq FlatNames
      /\ \A u \in DOMAIN built' : built'[u] \in BayNames \cup {NoBay}
  BY <1>1, SpacesAre
<1> QED BY <1>1, <1>4, <1>5, <1>6, SpacesAre, SpacesFromParts

LEMMA TakeSpaceInv ==
  ASSUME SpacesInv, NEW h \in Hands, TakeSpace(h)
  PROVE  SpacesInv'
<1> DEFINE S == hands[h].spaces
<1>1. /\ \A s \in S : AssignedTo(s) = {} /\ s \notin fitted /\ LetOnFlat(s) = {} /\ BuiltOn(s) = {}
      /\ spaces' = spaces \ S /\ DOMAIN built' = DOMAIN built \ S
      /\ \A u \in DOMAIN built' : built'[u] = built[u]
      /\ named' = named \cup S /\ HandFree(h) /\ UNCHANGED <<leases, fitted, mints>>
  BY DEF TakeSpace, NoKeyNames
<1>2. S \subseteq SpaceNames
  BY SpacesAre
<1> HIDE DEF S
<1>3. /\ \A l \in DOMAIN leases : leases[l][1] \notin S /\ leases[l][2] \notin S
      /\ \A u \in DOMAIN built : built[u] \notin S
  BY <1>1 DEF AssignedTo, LetOnFlat, BuiltOn
<1>4. HeldSpacesStand'
  BY <1>1, <1>3, SpacesAre DEF HeldSpacesStand
<1>5. hands' \in [Hands -> Hand] /\ \A g \in Hands : HandFits(g)'
  BY <1>1, HandIsFreed
<1>6. /\ spaces' \subseteq SpaceNames /\ DOMAIN built' \subseteq FlatNames
      /\ \A u \in DOMAIN built' : built'[u] \in BayNames \cup {NoBay}
      /\ named' \subseteq SpaceNames
  BY <1>1, <1>2, SpacesAre
<1> QED BY <1>1, <1>4, <1>5, <1>6, SpacesAre, SpacesFromParts

LEMMA AssignBayInv ==
  ASSUME SpacesInv, NEW h \in Hands, AssignBay(h)
  PROVE  SpacesInv'
<1> DEFINE bay == hands[h].bay
           l == hands[h].lease
<1>1. /\ bay \in spaces /\ bay \in BayNames /\ l \in DOMAIN leases
      /\ leases' = [leases EXCEPT ![l] = [leases[l] EXCEPT ![2] = bay]]
      /\ HandFree(h) /\ UNCHANGED <<spaces, built, fitted, mints, named>>
  BY DEF AssignBay, BayStands, SpacesInv, HandFits
<1> HIDE DEF bay, l
<1>2. DOMAIN leases' = DOMAIN leases
  BY <1>1
<1>3. leases[l] \in FlatNames \X (BayNames \cup {NoBay})
  BY <1>1, SpacesAre
<1>4. [leases[l] EXCEPT ![2] = bay] = <<leases[l][1], bay>>
  BY <1>3
<1>5. /\ leases'[l] = <<leases[l][1], bay>>
      /\ \A k \in DOMAIN leases \ {l} : leases'[k] = leases[k]
  BY <1>1, <1>4
<1>6. HeldSpacesStand'
  BY <1>1, <1>2, <1>5, SpacesAre DEF HeldSpacesStand
<1>7. hands' \in [Hands -> Hand] /\ \A g \in Hands : HandFits(g)'
  BY <1>1, <1>2, HandIsFreed
<1>8. \A k \in DOMAIN leases' : leases'[k] \in FlatNames \X (BayNames \cup {NoBay})
  BY <1>1, <1>2, <1>3, <1>5, SpacesAre
<1> QED BY <1>1, <1>2, <1>6, <1>7, <1>8, SpacesAre, SpacesFromParts

LEMMA OpenLeaseInv ==
  ASSUME SpacesInv, NEW l \in Leases, NEW u \in FlatNames, OpenLease(l, u)
  PROVE  SpacesInv'
<1>1. /\ u \in DOMAIN built /\ DOMAIN leases' = DOMAIN leases \cup {l}
      /\ \A k \in DOMAIN leases' : leases'[k] = IF k = l THEN <<u, NoBay>> ELSE leases[k]
      /\ UNCHANGED <<spaces, built, fitted, hands, mints, named>>
  BY DEF OpenLease
<1>2. HeldSpacesStand'
  BY <1>1, SpacesAre DEF HeldSpacesStand
<1>3. hands' \in [Hands -> Hand] /\ \A g \in Hands : HandFits(g)'
  BY <1>1 DEF SpacesInv, SpacesTypeOK, HandFits, HandAt
<1>4. /\ DOMAIN leases' \subseteq Leases
      /\ \A k \in DOMAIN leases' : leases'[k] \in FlatNames \X (BayNames \cup {NoBay})
  BY <1>1, SpacesAre
<1> QED BY <1>1, <1>2, <1>3, <1>4, SpacesAre, SpacesFromParts

LEMMA FitAssetInv ==
  ASSUME SpacesInv, NEW s \in SpaceNames, FitAsset(s)
  PROVE  SpacesInv'
<1>1. /\ fitted' = fitted \cup {s} /\ s \in spaces
      /\ UNCHANGED <<spaces, built, leases, hands, mints, named>>
  BY DEF FitAsset
<1>2. HeldSpacesStand'
  BY <1>1, SpacesAre DEF HeldSpacesStand
<1>3. hands' \in [Hands -> Hand] /\ \A g \in Hands : HandFits(g)'
  BY <1>1 DEF SpacesInv, SpacesTypeOK, HandFits, HandAt
<1>4. fitted' \subseteq SpaceNames
  BY <1>1, SpacesAre
<1> QED BY <1>1, <1>2, <1>3, <1>4, SpacesAre, SpacesFromParts

LEMMA SpacesInvNext == SpacesInv /\ [SpacesNext]_spacesVars => SpacesInv'
<1> SUFFICES ASSUME SpacesInv, [SpacesNext]_spacesVars PROVE SpacesInv'
  OBVIOUS
<1>1. CASE UNCHANGED spacesVars
  BY <1>1 DEF spacesVars, SpacesInv, SpacesTypeOK, SpacesHold, HeldSpacesStand, MintedOnce,
              HandFits, HandAt
<1>l. AnyLease \in Leases
  BY IdleHandIsOne
<1> HIDE DEF AnyLease
<1>2. ASSUME NEW h \in Hands, NEW S \in SUBSET SpaceNames, AskMint(h, S) \/ AskAdd(h, S)
      PROVE  SpacesInv'
  BY <1>l, <1>2, AsksInv DEF AskMint, AskAdd
<1>3. ASSUME NEW h \in Hands, NEW bay \in BayNames, CountHolders(h, bay) PROVE SpacesInv'
  <2>1. {bay} \in SUBSET SpaceNames
    BY DEF SpaceNames
  <2> QED BY <1>l, <1>3, <2>1, AsksInv DEF CountHolders
<1>4. ASSUME NEW h \in Hands, NEW s \in SpaceNames, CountUses(h, s) PROVE SpacesInv'
  BY <1>l, <1>4, AsksInv DEF CountUses
<1>5. ASSUME NEW h \in Hands, NEW l \in Leases, NEW bay \in BayNames, FindBay(h, l, bay)
      PROVE  SpacesInv'
  BY <1>5, AsksInv DEF FindBay
<1>6. ASSUME NEW h \in Hands, SpaceRefused(h) PROVE SpacesInv'
  <2>1. /\ HandFree(h) /\ UNCHANGED <<spaces, built, leases, fitted, mints, named>>
    BY <1>6 DEF SpaceRefused
  <2>2. hands' \in [Hands -> Hand] /\ \A g \in Hands : HandFits(g)'
    BY <2>1, HandIsFreed
  <2> QED BY <2>1, <2>2 DEF SpacesInv, SpacesTypeOK, SpacesHold, HeldSpacesStand, MintedOnce
<1> QED BY <1>1, <1>2, <1>3, <1>4, <1>5, <1>6, MintInventoryInv, AddSpacesInv, AddFlatInv,
           DetachAndDeleteInv, TakeSpaceInv, AssignBayInv, OpenLeaseInv, FitAssetInv
        DEF SpacesNext

-----------------------------------------------------------------------------
(* The purge.  What its statements have deleted is named by nobody: the    *)
(* key refused the statement while a row named it, and since then no       *)
(* writer beside it has found it.                                          *)
PurgeGone ==
  /\ purge.at \in {"none", "papers", "guards"} => purge.gone = {}
  /\ purge.at \in {"sheets", "homes", "orphans", "people"} => Taken("lettings")
  /\ purge.at \in {"orphans", "people"} => Taken("homes")

PurgeUnnamed ==
  purge.keys = TRUE =>
    /\ Taken("lettings") => \A c \in complaints : c[2] \notin purge.lettings
    /\ Taken("homes") =>
         \A l \in DOMAIN households \ purge.lettings : households[l].home \notin purge.homes

PurgeInv ==
  /\ PurgeTypeOK /\ NothingIsStranded
  /\ purge.keys = FALSE => bypassed
  /\ PurgeGone /\ PurgeUnnamed

LEMMA NoPurgeIsOne ==
  /\ NoPurge \in Bag /\ NoPurge.at = "none" /\ NoPurge.keys = TRUE /\ NoPurge.gone = {}
<1> QED BY DEF NoPurge, Bag

LEMMA PurgeInitInv == PurgeInit => PurgeInv
<1> SUFFICES ASSUME PurgeInit PROVE PurgeInv
  OBVIOUS
<1>1. /\ homes = Homes /\ people = Signers /\ DOMAIN households = {} /\ DOMAIN sheets = {}
      /\ complaints = {} /\ purge = NoPurge /\ bypassed = FALSE
  BY DEF PurgeInit
<1> HIDE DEF NoPurge, Bag
<1>2. PurgeTypeOK /\ NothingIsStranded
  BY <1>1, NoPurgeIsOne DEF PurgeTypeOK, NothingIsStranded
<1>3. PurgeGone /\ PurgeUnnamed
  BY <1>1, NoPurgeIsOne DEF PurgeGone, PurgeUnnamed, Taken
<1> QED BY <1>1, <1>2, <1>3, NoPurgeIsOne DEF PurgeInv

\* The purge is given up: every row stays.
LEMMA RollBackInv ==
  ASSUME PurgeInv, RollBackPurge
  PROVE  PurgeInv'
<1>1. /\ purge' = NoPurge
      /\ UNCHANGED <<homes, people, households, sheets, complaints, bypassed>>
  BY DEF RollBackPurge
<1> HIDE DEF NoPurge, Bag
<1>2. PurgeTypeOK' /\ NothingIsStranded'
  BY <1>1, NoPurgeIsOne DEF PurgeInv, PurgeTypeOK, NothingIsStranded
<1>3. PurgeGone' /\ PurgeUnnamed'
  BY <1>1, NoPurgeIsOne DEF PurgeGone, PurgeUnnamed, Taken
<1> QED BY <1>1, <1>2, <1>3, NoPurgeIsOne DEF PurgeInv

\* A statement that changes nothing but what the purge holds in hand.
LEMMA PurgeGoesOn ==
  ASSUME PurgeInv, purge' \in Bag, bypassed' \in BOOLEAN, bypassed => bypassed',
         UNCHANGED <<homes, people, households, sheets, complaints>>,
         purge'.keys = FALSE => bypassed', PurgeGone', PurgeUnnamed'
  PROVE  PurgeInv'
<1> HIDE DEF Bag
<1> QED BY DEF PurgeInv, PurgeTypeOK, NothingIsStranded

LEMMA LetInv ==
  ASSUME PurgeInv, NEW l \in LettingIds, NEW u \in Homes, NEW P \in SUBSET Signers,
         Let(l, u, P)
  PROVE  PurgeInv'
<1>1. /\ l \notin DOMAIN households /\ u \in homes /\ P \subseteq people
      /\ Taken("homes") => u \notin purge.homes
      /\ DOMAIN households' = DOMAIN households \cup {l}
      /\ households'[l] = [home |-> u, people |-> P]
      /\ \A k \in DOMAIN households : households'[k] = households[k]
      /\ UNCHANGED <<homes, people, sheets, complaints, purge, bypassed>>
  BY DEF Let, HomesToName
<1>2. /\ households'[l].home = u /\ households'[l].people = P
      /\ households'[l] \in [home: Homes, people: SUBSET Signers]
  BY <1>1
<1>3. PurgeTypeOK'
  BY <1>1, <1>2 DEF PurgeInv, PurgeTypeOK
<1>4. NothingIsStranded'
  BY <1>1, <1>2 DEF PurgeInv, NothingIsStranded
<1>5. PurgeUnnamed'
  BY <1>1, <1>2 DEF PurgeInv, PurgeUnnamed, Taken
<1> QED BY <1>1, <1>3, <1>4, <1>5 DEF PurgeInv, PurgeGone, Taken

LEMMA LinkSheetInv ==
  ASSUME PurgeInv, NEW d \in Sheets, NEW u \in Homes, LinkSheet(d, u)
  PROVE  PurgeInv'
<1>1. /\ DOMAIN sheets' = DOMAIN sheets \cup {d}
      /\ \A k \in DOMAIN sheets' : sheets'[k] =
           IF k # d THEN sheets[k] ELSE IF d \in DOMAIN sheets THEN sheets[d] \cup {u} ELSE {u}
      /\ UNCHANGED <<homes, people, households, complaints, purge, bypassed>>
  BY DEF LinkSheet
<1>2. PurgeTypeOK'
  BY <1>1 DEF PurgeInv, PurgeTypeOK
<1> QED BY <1>1, <1>2 DEF PurgeInv, PurgeGone, PurgeUnnamed, Taken, NothingIsStranded

LEMMA ComplainInv ==
  ASSUME PurgeInv, NEW p \in Signers, NEW l \in LettingIds \cup {NoLetting}, Complain(p, l)
  PROVE  PurgeInv'
<1>1. /\ p \in people /\ complaints' = complaints \cup {<<p, l>>}
      /\ l = NoLetting \/ l \in DOMAIN households
      /\ Taken("lettings") => l = NoLetting \/ l \notin purge.lettings
      /\ UNCHANGED <<homes, people, households, sheets, purge, bypassed>>
  BY DEF Complain, LettingsToName
<1>2. purge.lettings \subseteq LettingIds
  BY DEF PurgeInv, PurgeTypeOK, Bag
<1>3. PurgeTypeOK'
  BY <1>1 DEF PurgeInv, PurgeTypeOK
<1>4. NothingIsStranded'
  BY <1>1 DEF PurgeInv, NothingIsStranded
<1>5. l \notin purge.lettings \/ ~Taken("lettings")
  BY <1>1, <1>2, PurgeAssumption
<1>6. PurgeUnnamed'
  BY <1>1, <1>5 DEF PurgeInv, PurgeUnnamed, Taken
<1> QED BY <1>1, <1>3, <1>4, <1>6 DEF PurgeInv, PurgeGone, Taken

LEMMA CollectInv ==
  ASSUME PurgeInv,
         (\E H \in SUBSET Homes : CollectPlaces(H)) \/ CollectPapers
         \/ \E keys \in BOOLEAN : BypassGuards(keys)
  PROVE  PurgeInv'
<1>1. ASSUME NEW H \in SUBSET Homes, CollectPlaces(H) PROVE PurgeInv'
  <2>1. PICK S \in SUBSET LettingIds :
          S = {l \in DOMAIN households : households[l].home \in H}
    BY DEF PurgeInv, PurgeTypeOK
  <2>2. UNION {households[l].people : l \in S} \in SUBSET Signers
    BY <2>1 DEF PurgeInv, PurgeTypeOK
  <2>3. PICK P \in SUBSET Signers : P = UNION {households[l].people : l \in S}
    BY <2>2
  <2>4. /\ purge' = [at |-> "papers", keys |-> TRUE, homes |-> H, lettings |-> S,
                     sheets |-> {}, people |-> P, gone |-> {}]
        /\ UNCHANGED <<homes, people, households, sheets, complaints, bypassed>>
    BY <1>1, <2>1, <2>3 DEF CollectPlaces, NoPurge
  <2>5. /\ purge' \in Bag /\ purge'.at = "papers" /\ purge'.keys = TRUE /\ purge'.gone = {}
    BY <2>4 DEF Bag
  <2>6. PurgeGone' /\ PurgeUnnamed'
    BY <2>5 DEF PurgeGone, PurgeUnnamed, Taken
  <2> QED BY <2>4, <2>5, <2>6, PurgeGoesOn DEF PurgeInv, PurgeTypeOK
<1>2. ASSUME CollectPapers PROVE PurgeInv'
  <2>1. PICK D \in SUBSET Sheets :
          purge' = [purge EXCEPT !.at = "guards", !.sheets = D]
    <3>1. PICK D :
            D = {d \in DOMAIN sheets : sheets[d] # {} /\ sheets[d] \subseteq purge.homes}
      OBVIOUS
    <3>2. D \in SUBSET Sheets
      BY <3>1 DEF PurgeInv, PurgeTypeOK
    <3>3. purge' = [purge EXCEPT !.at = "guards", !.sheets = D]
      BY <1>2, <3>1, Zenon DEF CollectPapers
    <3> QED BY <3>2, <3>3
  <2>2. /\ purge \in Bag /\ bypassed \in BOOLEAN /\ purge.at = "papers"
        /\ UNCHANGED <<homes, people, households, sheets, complaints, bypassed>>
    BY <1>2 DEF CollectPapers, PurgeInv, PurgeTypeOK
  <2>3. /\ purge' \in Bag /\ purge'.at = "guards" /\ purge'.keys = purge.keys
        /\ purge'.gone = purge.gone /\ purge'.lettings = purge.lettings
        /\ purge'.homes = purge.homes
    BY <2>1, <2>2 DEF Bag
  <2>4. PurgeGone' /\ PurgeUnnamed'
    BY <2>2, <2>3 DEF PurgeInv, PurgeGone, PurgeUnnamed, Taken
  <2> QED BY <2>2, <2>3, <2>4, PurgeGoesOn DEF PurgeInv
<1>3. ASSUME NEW keys \in BOOLEAN, BypassGuards(keys) PROVE PurgeInv'
  <2>1. /\ purge \in Bag /\ purge.at = "guards" /\ bypassed \in BOOLEAN
        /\ purge' = [purge EXCEPT !.at = "lettings", !.keys = keys]
        /\ bypassed' = (bypassed \/ ~keys)
        /\ UNCHANGED <<homes, people, households, sheets, complaints>>
    BY <1>3 DEF BypassGuards, PurgeInv, PurgeTypeOK
  <2>2. /\ purge' \in Bag /\ purge'.at = "lettings" /\ purge'.keys = keys
        /\ purge'.gone = purge.gone /\ purge'.lettings = purge.lettings
        /\ purge'.homes = purge.homes
    BY <2>1 DEF Bag
  <2>3. purge.gone = {}
    BY <2>1 DEF PurgeInv, PurgeGone
  <2>4. PurgeGone' /\ PurgeUnnamed'
    BY <2>2, <2>3 DEF PurgeGone, PurgeUnnamed, Taken
  <2>5. bypassed' \in BOOLEAN /\ (bypassed => bypassed') /\ (purge'.keys = FALSE => bypassed')
    BY <2>1, <2>2
  <2> QED BY <2>1, <2>2, <2>4, <2>5, PurgeGoesOn
<1> QED BY <1>1, <1>2, <1>3

LEMMA DeleteRowsInv ==
  ASSUME PurgeInv, DeleteLettings \/ DeleteSheets \/ DeleteHomes
  PROVE  PurgeInv'
<1>1. CASE RollBackPurge
  BY <1>1, RollBackInv
<1>2. PICK what \in {"lettings", "sheets", "homes"}, next \in {"sheets", "homes", "orphans"} :
        /\ RollBackPurge \/ purge' = [purge EXCEPT !.at = next, !.gone = purge.gone \cup {what}]
        /\ UNCHANGED <<homes, people, households, sheets, complaints, bypassed>>
        /\ <<purge.at, what, next>> \in
             {<<"lettings", "lettings", "sheets">>, <<"sheets", "sheets", "homes">>,
              <<"homes", "homes", "orphans">>}
        /\ what = "lettings" /\ purge.keys = TRUE /\ ~RollBackPurge =>
             \A c \in complaints : c[2] \notin purge.lettings
        /\ what = "homes" /\ purge.keys = TRUE /\ ~RollBackPurge =>
             \A l \in DOMAIN households \ purge.lettings :
                households[l].home \notin purge.homes
  <2>1. CASE DeleteLettings
    BY <2>1 DEF DeleteLettings, DeleteRows, KeysHold, RollBackPurge
  <2>2. CASE DeleteSheets
    BY <2>2 DEF DeleteSheets, DeleteRows, KeysHold, RollBackPurge
  <2>3. CASE DeleteHomes
    BY <2>3 DEF DeleteHomes, DeleteRows, KeysHold, RollBackPurge
  <2> QED BY <2>1, <2>2, <2>3
<1>3. CASE ~RollBackPurge
  <2>1. /\ purge \in Bag /\ bypassed \in BOOLEAN
        /\ purge' = [purge EXCEPT !.at = next, !.gone = purge.gone \cup {what}]
    BY <1>2, <1>3 DEF PurgeInv, PurgeTypeOK
  <2>2. /\ purge' \in Bag /\ purge'.at = next /\ purge'.keys = purge.keys
        /\ purge'.gone = purge.gone \cup {what} /\ purge'.lettings = purge.lettings
        /\ purge'.homes = purge.homes
    BY <2>1 DEF Bag
  <2>3. PurgeGone'
    BY <1>2, <2>2 DEF PurgeInv, PurgeGone, Taken
  <2>4. PurgeUnnamed'
    BY <1>2, <1>3, <2>2 DEF PurgeInv, PurgeUnnamed, Taken
  <2> QED BY <1>2, <2>1, <2>2, <2>3, <2>4, PurgeGoesOn DEF PurgeInv
<1> QED BY <1>1, <1>3

LEMMA ReadOrphansInv ==
  ASSUME PurgeInv, ReadOrphans
  PROVE  PurgeInv'
<1>1. PICK P \in SUBSET Signers : purge' = [purge EXCEPT !.at = "people", !.people = P]
  <2>1. purge.people \ NamedStill \in SUBSET Signers
    BY DEF PurgeInv, PurgeTypeOK, Bag
  <2> QED BY <2>1 DEF ReadOrphans
<1>2. /\ purge \in Bag /\ bypassed \in BOOLEAN /\ purge.at = "orphans"
      /\ UNCHANGED <<homes, people, households, sheets, complaints, bypassed>>
  BY DEF ReadOrphans, PurgeInv, PurgeTypeOK
<1>3. /\ purge' \in Bag /\ purge'.at = "people" /\ purge'.keys = purge.keys
      /\ purge'.gone = purge.gone /\ purge'.lettings = purge.lettings
      /\ purge'.homes = purge.homes
  BY <1>1, <1>2 DEF Bag
<1>4. PurgeGone' /\ PurgeUnnamed'
  BY <1>2, <1>3 DEF PurgeInv, PurgeGone, PurgeUnnamed, Taken
<1> QED BY <1>2, <1>3, <1>4, PurgeGoesOn DEF PurgeInv

LEMMA DeletePeopleInv ==
  ASSUME PurgeInv, DeletePeople
  PROVE  PurgeInv'
<1>1. CASE RollBackPurge
  BY <1>1, RollBackInv
<1>2. CASE ~RollBackPurge
  <2>1. /\ purge.at = "people" /\ homes' = homes \ purge.homes
        /\ people' = people \ purge.people /\ purge' = NoPurge
        /\ UNCHANGED <<complaints, bypassed>>
        /\ DOMAIN households' = DOMAIN households \ purge.lettings
        /\ \A l \in DOMAIN households' : households'[l] = households[l]
        /\ DOMAIN sheets' = DOMAIN sheets \ purge.sheets
        /\ \A d \in DOMAIN sheets' : sheets'[d] = sheets[d]
        /\ purge.keys = TRUE =>
             /\ \A c \in complaints : c[1] \notin purge.people
             /\ purge.people \cap NamedStill = {}
    BY <1>2 DEF DeletePeople, KeysHold, Without
  <2> HIDE DEF NoPurge, Bag
  <2>2. PurgeTypeOK'
    BY <2>1, NoPurgeIsOne DEF PurgeInv, PurgeTypeOK
  <2>3. CASE bypassed
    <3>1. NothingIsStranded'
      BY <2>1, <2>3 DEF NothingIsStranded
    <3> QED BY <2>1, <2>2, <2>3, <3>1, NoPurgeIsOne
            DEF PurgeInv, PurgeGone, PurgeUnnamed, Taken
  <2>4. CASE ~bypassed
    <3>1. purge.keys = TRUE
      BY <2>4 DEF PurgeInv, PurgeTypeOK, Bag
    <3>2. /\ \A c \in complaints : c[2] \notin purge.lettings
          /\ \A l \in DOMAIN households \ purge.lettings :
               households[l].home \notin purge.homes
      BY <2>1, <3>1 DEF PurgeInv, PurgeGone, PurgeUnnamed
    <3>3. \A l \in DOMAIN households' : households[l].people \cap purge.people = {}
      BY <2>1, <3>1 DEF NamedStill
    <3>4. NothingIsStranded'
      BY <2>1, <2>4, <3>1, <3>2, <3>3 DEF PurgeInv, NothingIsStranded
    <3> QED BY <2>1, <2>2, <3>4, NoPurgeIsOne DEF PurgeInv, PurgeGone, PurgeUnnamed, Taken
  <2> QED BY <2>3, <2>4
<1> QED BY <1>1, <1>2

LEMMA PurgeInvNext == PurgeInv /\ [PurgeNext]_purgeVars => PurgeInv'
<1> SUFFICES ASSUME PurgeInv, [PurgeNext]_purgeVars PROVE PurgeInv'
  OBVIOUS
<1>1. CASE UNCHANGED purgeVars
  BY <1>1 DEF purgeVars, PurgeInv, PurgeTypeOK, NothingIsStranded, PurgeGone, PurgeUnnamed, Taken
<1>2. ASSUME NEW H \in {{u} : u \in Homes} \cup {HomesHere}, CollectPlaces(H)
      PROVE  PurgeInv'
  <2>1. H \in SUBSET Homes
    BY PurgeAssumption
  <2> QED BY <1>2, <2>1, CollectInv
<1>3. CASE AbandonPurge
  BY <1>3, RollBackInv DEF AbandonPurge
<1> QED BY <1>1, <1>2, <1>3, LetInv, LinkSheetInv, ComplainInv, CollectInv, DeleteRowsInv,
           ReadOrphansInv, DeletePeopleInv DEF PurgeNext

\* The spaces, the flats' bays, the lettings' bays and the requests in hand keep
\* their types.
THEOREM SpacesTypeCorrect == SpacesSpec => []SpacesTypeOK
<1>1. SpacesInv => SpacesTypeOK
  BY DEF SpacesInv
<1> QED BY <1>1, SpacesInitInv, SpacesInvNext, PTL DEF SpacesSpec

\* The rows a purge deletes from, and what it holds in hand, keep their types.
THEOREM PurgeTypeCorrect == PurgeSpec => []PurgeTypeOK
<1>1. PurgeInv => PurgeTypeOK
  BY DEF PurgeInv
<1> QED BY <1>1, PurgeInitInv, PurgeInvNext, PTL DEF PurgeSpec

\* Whatever the office writes beside them, a space taken off leaves nothing
\* on it, a building is minted once, and a purge with the keys on strands no
\* letting and no call.
THEOREM EstateIsNeverStranded == SpacesSpec /\ PurgeSpec => []EstateHolds
<1>1. SpacesInv /\ PurgeInv => EstateHolds
  BY DEF SpacesInv, PurgeInv, EstateHolds
<1> QED BY <1>1, SpacesInitInv, SpacesInvNext, PurgeInitInv, PurgeInvNext, PTL
        DEF SpacesSpec, PurgeSpec

-----------------------------------------------------------------------------
(* The directory.  No two contacts of a number share a day, and an answer  *)
(* on its way out has had its line.                                        *)
PeriodsApart ==
  /\ \A r \in DOMAIN contacts : contacts[r].from <= contacts[r].to
  /\ \A r, k \in DOMAIN contacts :
       r # k /\ contacts[r].value = contacts[k].value =>
         ~Overlaps(contacts[r], contacts[k].from, contacts[k].to)

Answering == {d \in Desks : desk[d].at = "answer"}
AnswersAreTold == answersOut + Cardinality(Answering) <= told

PeopleInv == PeopleTypeOK /\ PeriodsApart /\ AnswersAreTold

LEMMA DaysOfContacts ==
  /\ LastDay \in Nat /\ Open \in Nat /\ Days \subseteq Nat /\ 1 \in Days
  /\ \A day \in Days : day < Open
BY PeopleAssumption DEF Open, Days

LEMMA ContactIs ==
  ASSUME PeopleTypeOK, NEW r \in DOMAIN contacts
  PROVE  /\ contacts[r] \in Contact /\ r \in Rows
         /\ contacts[r].from \in Nat /\ contacts[r].to \in Nat
<1>1. contacts[r] \in Contact /\ r \in Rows
  BY DEF PeopleTypeOK
<1>2. contacts[r].from \in Days /\ contacts[r].to \in Days \cup {Open}
  BY <1>1 DEF Contact
<1> QED BY <1>1, <1>2, DaysOfContacts

LEMMA NotWaitingIs == NotWaiting \in Waiting /\ NotWaiting.at = "idle"
<1>1. PICK r : r = CHOOSE x \in Rows : TRUE
  OBVIOUS
<1>2. r \in Rows
  BY <1>1, PeopleAssumption
<1>3. NotWaiting = [at |-> "idle", row |-> r, old |-> {}]
  BY <1>1 DEF NotWaiting
<1> QED BY <1>2, <1>3 DEF Waiting

\* A party is put beside the others, or its identifier is set.
LEMMA PartiesPut ==
  ASSUME NEW f \in Sub(Folk, Idents \cup {NoIdent}), NEW p \in Folk,
         NEW ident \in Idents \cup {NoIdent}
  PROVE  /\ Put(f, p, ident) \in Sub(Folk, Idents \cup {NoIdent})
         /\ [f EXCEPT ![p] = ident] \in Sub(Folk, Idents \cup {NoIdent})
<1>1. PICK D \in SUBSET Folk : f \in [D -> Idents \cup {NoIdent}]
  BY DEF Sub
<1>2. D \cup {p} \in SUBSET Folk
  BY <1>1
<1>3. Put(f, p, ident) \in [D \cup {p} -> Idents \cup {NoIdent}]
  BY <1>1 DEF Put
<1>4. [f EXCEPT ![p] = ident] \in [D -> Idents \cup {NoIdent}]
  BY <1>1
<1> QED BY <1>1, <1>2, <1>3, <1>4 DEF Sub

\* One contact is written, and meets no other of its number.
LEMMA ContactWritten ==
  ASSUME PeopleTypeOK, PeriodsApart, NEW r \in Rows, NEW c \in Contact, c.from <= c.to,
         DOMAIN contacts' = DOMAIN contacts \cup {r}, contacts'[r] = c,
         \A k \in DOMAIN contacts \ {r} :
           /\ contacts'[k] = contacts[k]
           /\ contacts[k].value = c.value => ~Overlaps(contacts[k], c.from, c.to)
  PROVE  /\ DOMAIN contacts' \subseteq Rows
         /\ \A k \in DOMAIN contacts' : contacts'[k] \in Contact
         /\ PeriodsApart'
<1>1. DOMAIN contacts' \subseteq Rows /\ \A k \in DOMAIN contacts' : contacts'[k] \in Contact
  BY DEF PeopleTypeOK
<1>2. \A k \in DOMAIN contacts' : contacts'[k].from <= contacts'[k].to
  BY DEF PeriodsApart
<1>3. ASSUME NEW k \in DOMAIN contacts', NEW m \in DOMAIN contacts', k # m,
             contacts'[k].value = contacts'[m].value
      PROVE  ~Overlaps(contacts'[k], contacts'[m].from, contacts'[m].to)
  <2>1. CASE k # r /\ m # r
    BY <1>3, <2>1 DEF PeriodsApart
  <2>2. CASE m = r
    BY <1>3, <2>2
  <2>3. CASE k = r
    <3>1. m \in DOMAIN contacts \ {r} /\ contacts'[m] = contacts[m] /\ contacts'[k] = c
      BY <1>3, <2>3
    <3>2. ~Overlaps(contacts[m], c.from, c.to)
      BY <1>3, <3>1
    <3> QED BY <3>1, <3>2 DEF Overlaps
  <2> QED BY <2>1, <2>2, <2>3
<1> QED BY <1>1, <1>2, <1>3 DEF PeriodsApart

\* The contacts keep their numbers and their periods.
LEMMA ContactsKept ==
  ASSUME PeriodsApart, DOMAIN contacts' = DOMAIN contacts,
         \A r \in DOMAIN contacts :
           /\ contacts'[r].value = contacts[r].value
           /\ contacts'[r].from = contacts[r].from /\ contacts'[r].to = contacts[r].to
  PROVE  PeriodsApart'
BY DEF PeriodsApart, Overlaps

\* Counting the answers on their way out.
LEMMA AnswersCount ==
  /\ Answering \in SUBSET Desks /\ IsFiniteSet(Answering) /\ Cardinality(Answering) \in Nat
<1>1. Answering \in SUBSET Desks
  BY DEF Answering
<1>2. IsFiniteSet(Answering)
  BY <1>1, PeopleAssumption, FS_Subset
<1> QED BY <1>1, <1>2, FS_CardinalityType

LEMMA NoNewAnswer ==
  ASSUME PeopleInv, Answering' \subseteq Answering, answersOut' = answersOut, told' = told
  PROVE  AnswersAreTold'
<1>1. IsFiniteSet(Answering') /\ Cardinality(Answering') <= Cardinality(Answering)
  BY AnswersCount, FS_Subset
<1>2. Cardinality(Answering') \in Nat
  BY <1>1, FS_CardinalityType
<1>3. answersOut \in Nat /\ told \in Nat /\ answersOut + Cardinality(Answering) <= told
  BY PeopleAssumption DEF PeopleInv, PeopleTypeOK, AnswersAreTold
<1>4. answersOut' + Cardinality(Answering') <= told'
  BY <1>1, <1>2, <1>3, AnswersCount
<1> QED BY <1>4 DEF AnswersAreTold

\* The requests after one of them moves.
LEMMA WaiterMoves ==
  ASSUME PeopleTypeOK, NEW d \in Desks, NEW w \in Waiting, desk' = [desk EXCEPT ![d] = w]
  PROVE  /\ desk' \in [Desks -> Waiting]
         /\ Answering' = IF w.at = "answer" THEN Answering \cup {d} ELSE Answering \ {d}
<1>1. /\ desk' \in [Desks -> Waiting] /\ desk'[d] = w
      /\ \A e \in Desks \ {d} : desk'[e] = desk[e]
  BY DEF PeopleTypeOK
<1> QED BY <1>1 DEF Answering

LEMMA WaiterSteps ==
  ASSUME PeopleTypeOK, NEW d \in Desks,
         NEW step \in {"idle", "mark", "line", "answer", "setLine"}, Step(d, step)
  PROVE  /\ desk' \in [Desks -> Waiting]
         /\ Answering' = IF step = "answer" THEN Answering \cup {d} ELSE Answering \ {d}
<1> DEFINE w == [desk[d] EXCEPT !.at = step]
<1>1. w \in Waiting /\ w.at = step
  BY DEF PeopleTypeOK, Waiting
<1>2. desk' = [desk EXCEPT ![d] = w]
  BY DEF Step
<1> HIDE DEF w
<1> QED BY <1>1, <1>2, WaiterMoves

LEMMA WaiterRests ==
  ASSUME PeopleTypeOK, NEW d \in Desks, Rest(d)
  PROVE  desk' \in [Desks -> Waiting] /\ Answering' = Answering \ {d}
<1> HIDE DEF NotWaiting
<1> QED BY NotWaitingIs, WaiterMoves DEF Rest

LEMMA PeopleInitInv == PeopleInit => PeopleInv
<1> SUFFICES ASSUME PeopleInit PROVE PeopleInv
  OBVIOUS
<1>1. /\ parties = <<>> /\ DOMAIN contacts = {} /\ suppliers = {}
      /\ desk = [d \in Desks |-> NotWaiting] /\ now = 1 /\ told = 0 /\ answersOut = 0
  BY DEF PeopleInit
<1>2. parties \in Sub(Folk, Idents \cup {NoIdent})
  <2>1. parties \in [{} -> Idents \cup {NoIdent}]
    BY <1>1
  <2> QED BY <2>1 DEF Sub
<1> HIDE DEF NotWaiting
<1>3. desk \in [Desks -> Waiting] /\ Answering = {}
  BY <1>1, NotWaitingIs DEF Answering
<1>4. PeopleTypeOK
  BY <1>1, <1>2, <1>3, DaysOfContacts, PeopleAssumption DEF PeopleTypeOK
<1>5. PeriodsApart
  BY <1>1 DEF PeriodsApart
<1>6. AnswersAreTold
  BY <1>1, <1>3, FS_EmptySet DEF AnswersAreTold
<1> QED BY <1>4, <1>5, <1>6 DEF PeopleInv

\* The steps that write a contact.
LEMMA InsertContactInv ==
  ASSUME PeopleInv, NEW p \in Folk, NEW r \in Rows, NEW v \in Numbers, NEW from \in Days,
         NEW to \in Days \cup {Open}, NEW primary \in BOOLEAN, from <= to,
         InsertContact(r, p, v, from, to, primary),
         parties' \in Sub(Folk, Idents \cup {NoIdent}),
         UNCHANGED <<suppliers, desk, now, told, answersOut>>
  PROVE  PeopleInv'
<1> DEFINE c == [party |-> p, value |-> v, from |-> from, to |-> to, primary |-> primary]
<1>1. c \in Contact /\ c.value = v /\ c.from = from /\ c.to = to
  BY DEF Contact
<1>2. /\ r \notin DOMAIN contacts /\ FreeFor(v, from, to, {})
      /\ DOMAIN contacts' = DOMAIN contacts \cup {r} /\ contacts'[r] = c
      /\ \A k \in DOMAIN contacts \ {r} : contacts'[k] = contacts[k]
  BY DEF InsertContact, Put
<1> HIDE DEF c
<1>3. /\ DOMAIN contacts' \subseteq Rows
      /\ \A k \in DOMAIN contacts' : contacts'[k] \in Contact
      /\ PeriodsApart'
  BY <1>1, <1>2, ContactWritten DEF PeopleInv, FreeFor
<1>4. PeopleTypeOK'
  BY <1>3 DEF PeopleInv, PeopleTypeOK
<1>5. Answering' = Answering
  BY DEF Answering
<1> QED BY <1>3, <1>4, <1>5, NoNewAnswer DEF PeopleInv

LEMMA RowRewritten ==
  ASSUME PeopleInv, NEW r \in DOMAIN contacts, NEW to \in Days \cup {Open},
         NEW primary \in BOOLEAN, contacts[r].from <= to,
         contacts' = [contacts EXCEPT ![r] =
                       [contacts[r] EXCEPT !.to = to, !.primary = primary]],
         \A k \in DOMAIN contacts \ {r} :
           contacts[k].value = contacts[r].value =>
             ~Overlaps(contacts[k], contacts[r].from, to),
         UNCHANGED <<parties, suppliers, desk, now, told, answersOut>>
  PROVE  PeopleInv'
<1> DEFINE c == [contacts[r] EXCEPT !.to = to, !.primary = primary]
<1>1. contacts[r] \in Contact /\ r \in Rows
  BY ContactIs DEF PeopleInv
<1>2. c \in Contact /\ c.value = contacts[r].value /\ c.from = contacts[r].from /\ c.to = to
  BY <1>1 DEF Contact
<1>3. /\ DOMAIN contacts' = DOMAIN contacts \cup {r} /\ contacts'[r] = c
      /\ \A k \in DOMAIN contacts \ {r} : contacts'[k] = contacts[k]
  OBVIOUS
<1> HIDE DEF c
<1>4. /\ DOMAIN contacts' \subseteq Rows
      /\ \A k \in DOMAIN contacts' : contacts'[k] \in Contact
      /\ PeriodsApart'
  BY <1>1, <1>2, <1>3, ContactWritten DEF PeopleInv
<1>5. PeopleTypeOK'
  BY <1>4 DEF PeopleInv, PeopleTypeOK
<1>6. Answering' = Answering
  BY DEF Answering
<1> QED BY <1>4, <1>5, <1>6, NoNewAnswer DEF PeopleInv

LEMMA UpsertContactInv ==
  ASSUME PeopleInv, NEW p \in Folk, NEW r \in Rows, NEW v \in Numbers, NEW from \in Days,
         NEW to \in Days \cup {Open}, UpsertContact(p, r, v, from, to)
  PROVE  PeopleInv'
<1> DEFINE same == {k \in DOMAIN contacts :
                      contacts[k].party = p /\ contacts[k].value = v /\ contacts[k].from = from}
<1>1. from <= to /\ UNCHANGED <<parties, suppliers, desk, now, told, answersOut>>
  BY DEF UpsertContact
<1>2. CASE InsertContact(r, p, v, from, to, TRUE)
  <2>1. parties' \in Sub(Folk, Idents \cup {NoIdent})
    BY <1>1 DEF PeopleInv, PeopleTypeOK
  <2> QED BY <1>1, <1>2, <2>1, InsertContactInv
<1>3. CASE /\ r \in same /\ FreeFor(v, from, to, same)
           /\ contacts' = [contacts EXCEPT ![r].to = to, ![r].primary = TRUE]
  <2>1. r \in DOMAIN contacts /\ contacts[r].value = v /\ contacts[r].from = from
    BY <1>3
  <2>2. contacts' = [contacts EXCEPT ![r] = [contacts[r] EXCEPT !.to = to, !.primary = TRUE]]
    BY <1>3, <2>1
  <2>3. ASSUME NEW k \in DOMAIN contacts \ {r}, contacts[k].value = v
        PROVE  ~Overlaps(contacts[k], from, to)
    <3>1. k \notin same
      <4>1. SUFFICES ASSUME contacts[k].from = from PROVE FALSE
        OBVIOUS
      <4>2. ~Overlaps(contacts[r], contacts[k].from, contacts[k].to)
        BY <2>1, <2>3 DEF PeopleInv, PeriodsApart
      <4>3. contacts[k].from <= contacts[k].to /\ contacts[r].from <= contacts[r].to
        BY <2>1, <2>3 DEF PeopleInv, PeriodsApart
      <4> QED BY <2>1, <4>1, <4>2, <4>3 DEF Overlaps
    <3> QED BY <1>3, <2>3, <3>1 DEF FreeFor
  <2> QED BY <1>1, <2>1, <2>2, <2>3, RowRewritten
<1> QED BY <1>2, <1>3 DEF UpsertContact

LEMMA CloseContactInv ==
  ASSUME PeopleInv, NEW r \in Rows, NEW to \in Days, CloseContact(r, to)
  PROVE  PeopleInv'
<1>1. /\ r \in DOMAIN contacts /\ contacts[r].to = Open /\ contacts[r].from <= to
      /\ contacts' = [contacts EXCEPT ![r].to = to]
      /\ UNCHANGED <<parties, suppliers, desk, now, told, answersOut>>
  BY DEF CloseContact
<1>2. contacts[r] \in Contact /\ contacts[r].primary \in BOOLEAN
  BY <1>1, ContactIs DEF PeopleInv, Contact
<1>3. [contacts[r] EXCEPT !.to = to, !.primary = contacts[r].primary]
        = [contacts[r] EXCEPT !.to = to]
  BY <1>2 DEF Contact
<1>4. contacts' = [contacts EXCEPT ![r] =
                    [contacts[r] EXCEPT !.to = to, !.primary = contacts[r].primary]]
  BY <1>1, <1>3
<1>5. ASSUME NEW k \in DOMAIN contacts \ {r}, contacts[k].value = contacts[r].value
      PROVE  ~Overlaps(contacts[k], contacts[r].from, to)
  <2>1. ~Overlaps(contacts[k], contacts[r].from, contacts[r].to)
    BY <1>1, <1>5 DEF PeopleInv, PeriodsApart
  <2>2. contacts[k].from \in Nat /\ contacts[r].from \in Nat /\ to \in Nat /\ to < Open
        /\ Open \in Nat
    BY <1>1, ContactIs, DaysOfContacts DEF PeopleInv
  <2> QED BY <1>1, <2>1, <2>2 DEF Overlaps
<1> QED BY <1>1, <1>2, <1>4, <1>5, RowRewritten

LEMMA HandWritesInv ==
  ASSUME PeopleInv, NEW p \in Folk, NEW ident \in Idents \cup {NoIdent},
         NEW r \in Rows, NEW v \in Numbers, NEW from \in Days, NEW lease \in BOOLEAN,
         CreateByHand(p, ident, r, v) \/ AddContact(p, r, v, from, lease)
  PROVE  PeopleInv'
<1>1. CASE CreateByHand(p, ident, r, v)
  <2>1. now \in Days /\ now <= Open
    <3>1. now \in Days
      BY DEF PeopleInv, PeopleTypeOK
    <3> QED BY <3>1, DaysOfContacts
  <2>2. /\ InsertContact(r, p, v, now, Open, TRUE) /\ parties' = Put(parties, p, ident)
        /\ UNCHANGED <<suppliers, desk, now, told, answersOut>>
    BY <1>1 DEF CreateByHand
  <2>3. parties' \in Sub(Folk, Idents \cup {NoIdent})
    BY <2>2, PartiesPut DEF PeopleInv, PeopleTypeOK
  <2>4. PICK day \in Days : day = now
    BY <2>1
  <2> QED BY <2>1, <2>2, <2>3, <2>4, InsertContactInv
<1>2. CASE AddContact(p, r, v, from, lease)
  <2>1. PICK primary \in BOOLEAN : primary = (lease /\ OpenPrimaries(p) = {})
    OBVIOUS
  <2>2. /\ InsertContact(r, p, v, from, Open, primary)
        /\ UNCHANGED <<parties, suppliers, desk, now, told, answersOut>>
    BY <1>2, <2>1 DEF AddContact
  <2>3. parties' \in Sub(Folk, Idents \cup {NoIdent}) /\ from <= Open
    <3>1. from \in Nat /\ from < Open /\ Open \in Nat
      BY DaysOfContacts
    <3>2. from <= Open
      BY <3>1
    <3> QED BY <2>2, <3>2 DEF PeopleInv, PeopleTypeOK
  <2> QED BY <2>2, <2>3, InsertContactInv
<1> QED BY <1>1, <1>2

LEMMA MarkPrimaryInv ==
  ASSUME PeopleInv, NEW d \in Desks, MarkPrimary(d)
  PROVE  PeopleInv'
<1> DEFINE Mark(r) == IF r = desk[d].row THEN TRUE
                      ELSE IF r \in desk[d].old /\ contacts[r].to = Open THEN FALSE
                      ELSE contacts[r].primary
<1>1. /\ contacts' = [r \in DOMAIN contacts |-> [contacts[r] EXCEPT !.primary = Mark(r)]]
      /\ Rest(d) /\ UNCHANGED <<parties, suppliers, now, told, answersOut>>
  BY DEF MarkPrimary
<1>2. ASSUME NEW r \in DOMAIN contacts
      PROVE  /\ contacts'[r] \in Contact /\ contacts'[r].value = contacts[r].value
             /\ contacts'[r].from = contacts[r].from /\ contacts'[r].to = contacts[r].to
  <2>1. contacts[r] \in Contact
    BY ContactIs DEF PeopleInv
  <2>2. Mark(r) \in BOOLEAN
    BY <2>1 DEF Contact
  <2>3. contacts'[r] = [contacts[r] EXCEPT !.primary = Mark(r)]
    BY <1>1
  <2> HIDE DEF Mark
  <2> QED BY <2>1, <2>2, <2>3 DEF Contact
<1> HIDE DEF Mark
<1>3. DOMAIN contacts' = DOMAIN contacts
  BY <1>1
<1>4. PeriodsApart'
  BY <1>2, <1>3, ContactsKept DEF PeopleInv
<1>5. desk' \in [Desks -> Waiting] /\ Answering' \subseteq Answering
  BY <1>1, WaiterRests DEF PeopleInv
<1>6. PeopleTypeOK'
  BY <1>1, <1>2, <1>3, <1>5 DEF PeopleInv, PeopleTypeOK
<1> QED BY <1>1, <1>4, <1>5, <1>6, NoNewAnswer DEF PeopleInv

\* The steps that leave the contacts alone and let no answer go.
LEMMA ContactsLeftInv ==
  ASSUME PeopleInv, UNCHANGED contacts,
         parties' \in Sub(Folk, Idents \cup {NoIdent}), suppliers' \subseteq Companies,
         desk' \in [Desks -> Waiting], now' \in Days,
         told' \in 0..MaxReads, answersOut' \in 0..MaxReads, AnswersAreTold'
  PROVE  PeopleInv'
<1>1. PeopleTypeOK'
  BY DEF PeopleInv, PeopleTypeOK
<1>2. PeriodsApart'
  BY DEF PeopleInv, PeriodsApart
<1> QED BY <1>1, <1>2 DEF PeopleInv

LEMMA ReadPrimariesInv ==
  ASSUME PeopleInv, NEW d \in Desks, NEW r \in Rows, ReadPrimaries(d, r)
  PROVE  PeopleInv'
<1>1. PICK S : S = OpenPrimaries(contacts[r].party) \ {r}
  OBVIOUS
<1>2. S \in SUBSET Rows
  BY <1>1 DEF OpenPrimaries, PeopleInv, PeopleTypeOK
<1>3. /\ desk' = [desk EXCEPT ![d] = [at |-> "mark", row |-> r, old |-> S]]
      /\ UNCHANGED <<parties, contacts, suppliers, now, told, answersOut>>
  BY <1>1 DEF ReadPrimaries
<1> DEFINE w == [at |-> "mark", row |-> r, old |-> S]
<1>4. w \in Waiting /\ w.at = "mark"
  BY <1>2 DEF Waiting
<1> HIDE DEF w
<1>5. desk' \in [Desks -> Waiting] /\ Answering' \subseteq Answering
  <2>1. desk' = [desk EXCEPT ![d] = w]
    BY <1>3 DEF w
  <2> QED BY <1>4, <2>1, WaiterMoves DEF PeopleInv
<1> QED BY <1>3, <1>5, NoNewAnswer, ContactsLeftInv DEF PeopleInv, PeopleTypeOK

\* A request that goes on to a step other than its answer, or ends.
LEMMA DeskOnlyInv ==
  ASSUME PeopleInv, NEW d \in Desks,
         \/ ReadFolk(d) \/ TellNationalId(d) \/ DeskStops(d)
         \/ \E p \in Folk, ident \in Idents \cup {NoIdent} : SetNationalId(d, p, ident)
  PROVE  PeopleInv'
<1>1. /\ UNCHANGED <<contacts, suppliers, now, told, answersOut>>
      /\ Rest(d) \/ Step(d, "line") \/ Step(d, "setLine")
  <2>1. CASE ReadFolk(d)
    BY <2>1 DEF ReadFolk, ReadAnswers
  <2>2. CASE TellNationalId(d) \/ DeskStops(d)
    BY <2>2 DEF TellNationalId, DeskStops
  <2>3. ASSUME NEW p \in Folk, NEW ident \in Idents \cup {NoIdent}, SetNationalId(d, p, ident)
        PROVE  UNCHANGED <<contacts, suppliers, now, told, answersOut>> /\ Step(d, "setLine")
    BY <2>3 DEF SetNationalId
  <2> QED BY <2>1, <2>2, <2>3
<1>2. parties' \in Sub(Folk, Idents \cup {NoIdent})
  <2>1. CASE parties' = parties
    BY <2>1 DEF PeopleInv, PeopleTypeOK
  <2>2. ASSUME NEW p \in Folk, NEW ident \in Idents \cup {NoIdent},
               SetNationalId(d, p, ident)
        PROVE  parties' \in Sub(Folk, Idents \cup {NoIdent})
    BY <2>2, PartiesPut DEF SetNationalId, PeopleInv, PeopleTypeOK
  <2> QED BY <2>1, <2>2 DEF ReadFolk, TellNationalId, DeskStops
<1>3. desk' \in [Desks -> Waiting] /\ Answering' \subseteq Answering
  BY <1>1, WaiterRests, WaiterSteps DEF PeopleInv
<1> QED BY <1>1, <1>2, <1>3, NoNewAnswer, ContactsLeftInv DEF PeopleInv, PeopleTypeOK

LEMMA WriteLineInv ==
  ASSUME PeopleInv, NEW d \in Desks, WriteLine(d)
  PROVE  PeopleInv'
<1>1. /\ told < MaxReads /\ told' = told + 1 /\ Step(d, "answer")
      /\ UNCHANGED <<parties, contacts, suppliers, now, answersOut>>
  BY DEF WriteLine
<1>2. desk' \in [Desks -> Waiting] /\ Answering' = Answering \cup {d}
  BY <1>1, WaiterSteps DEF PeopleInv
<1>3. Cardinality(Answering \cup {d}) \in Nat
      /\ Cardinality(Answering \cup {d}) <= Cardinality(Answering) + 1
  <2>1. Cardinality(Answering \cup {d})
          = IF d \in Answering THEN Cardinality(Answering) ELSE Cardinality(Answering) + 1
    BY AnswersCount, FS_AddElement
  <2> QED BY <2>1, AnswersCount
<1>4. /\ answersOut \in Nat /\ told \in Nat /\ MaxReads \in Nat
      /\ answersOut + Cardinality(Answering) <= told
  BY PeopleAssumption DEF PeopleInv, PeopleTypeOK, AnswersAreTold
<1>5. answersOut' + Cardinality(Answering') <= told'
  BY <1>1, <1>2, <1>3, <1>4, AnswersCount
<1>6. told' \in 0..MaxReads /\ answersOut' = answersOut
  BY <1>1, <1>4
<1> QED BY <1>1, <1>2, <1>5, <1>6, ContactsLeftInv
        DEF AnswersAreTold, PeopleInv, PeopleTypeOK

LEMMA AnswerInv ==
  ASSUME PeopleInv, NEW d \in Desks, Answer(d)
  PROVE  PeopleInv'
<1>1. /\ answersOut < MaxReads /\ answersOut' = answersOut + 1 /\ Rest(d) /\ d \in Answering
      /\ UNCHANGED <<parties, contacts, suppliers, now, told>>
  BY DEF Answer, Answering
<1>2. desk' \in [Desks -> Waiting] /\ Answering' = Answering \ {d}
  BY <1>1, WaiterRests DEF PeopleInv
<1>3. Cardinality(Answering \ {d}) = Cardinality(Answering) - 1
  BY <1>1, AnswersCount, FS_RemoveElement
<1>4. /\ answersOut \in Nat /\ told \in Nat /\ MaxReads \in Nat
      /\ answersOut + Cardinality(Answering) <= told
  BY PeopleAssumption DEF PeopleInv, PeopleTypeOK, AnswersAreTold
<1>5. answersOut' + Cardinality(Answering') <= told'
  BY <1>1, <1>2, <1>3, <1>4, AnswersCount
<1>6. answersOut' \in 0..MaxReads /\ told' = told
  BY <1>1, <1>4
<1> QED BY <1>1, <1>2, <1>5, <1>6, ContactsLeftInv
        DEF AnswersAreTold, PeopleInv, PeopleTypeOK

LEMMA PeopleInvNext == PeopleInv /\ [PeopleNext]_peopleVars => PeopleInv'
<1> SUFFICES ASSUME PeopleInv, [PeopleNext]_peopleVars PROVE PeopleInv'
  OBVIOUS
<1>1. CASE UNCHANGED peopleVars
  <2>1. Answering' = Answering
    BY <1>1 DEF peopleVars, Answering
  <2> QED BY <1>1, <2>1, NoNewAnswer, ContactsLeftInv DEF peopleVars, PeopleInv, PeopleTypeOK
<1>2. ASSUME NEW p \in Folk, NEW ident \in Idents \cup {NoIdent}, RecordParty(p, ident)
      PROVE  PeopleInv'
  <2>1. parties' = Put(parties, p, ident)
        /\ UNCHANGED <<contacts, suppliers, desk, now, told, answersOut>>
    BY <1>2 DEF RecordParty
  <2>2. parties' \in Sub(Folk, Idents \cup {NoIdent})
    BY <2>1, PartiesPut DEF PeopleInv, PeopleTypeOK
  <2>3. Answering' = Answering
    BY <2>1 DEF Answering
  <2> QED BY <2>1, <2>2, <2>3, NoNewAnswer, ContactsLeftInv DEF PeopleInv, PeopleTypeOK
<1>3. ASSUME NEW p \in Folk, LinkProvider(p) PROVE PeopleInv'
  <2>1. suppliers' \subseteq Companies
        /\ UNCHANGED <<parties, contacts, desk, now, told, answersOut>>
    BY <1>3 DEF LinkProvider, PeopleInv, PeopleTypeOK
  <2>2. Answering' = Answering
    BY <2>1 DEF Answering
  <2> QED BY <2>1, <2>2, NoNewAnswer, ContactsLeftInv DEF PeopleInv, PeopleTypeOK
<1>4. CASE NextDay
  <2>1. /\ now' \in Days /\ UNCHANGED <<parties, contacts, suppliers, desk, told, answersOut>>
    BY <1>4, PeopleAssumption DEF NextDay, PeopleInv, PeopleTypeOK, Days
  <2>2. Answering' = Answering
    BY <2>1 DEF Answering
  <2> QED BY <2>1, <2>2, NoNewAnswer, ContactsLeftInv DEF PeopleInv, PeopleTypeOK
<1>5. ASSUME NEW p \in Folk, NEW ident \in Idents \cup {NoIdent}, NEW r \in Rows,
             NEW v \in Numbers, CreateByHand(p, ident, r, v)
      PROVE  PeopleInv'
  BY <1>5, HandWritesInv, DaysOfContacts
<1>6. ASSUME NEW p \in Folk, NEW r \in Rows, NEW v \in Numbers, NEW from \in Days,
             NEW lease \in BOOLEAN, AddContact(p, r, v, from, lease)
      PROVE  PeopleInv'
  BY <1>6, HandWritesInv
<1> QED BY <1>1, <1>2, <1>3, <1>4, <1>5, <1>6, UpsertContactInv, CloseContactInv,
           ReadPrimariesInv, MarkPrimaryInv, DeskOnlyInv, WriteLineInv, AnswerInv
        DEF PeopleNext

\* Two people on one day would hold two contacts that share the day.
LEMMA OneHolder == PeopleInv => NumberNamesOnePerson
<1> SUFFICES ASSUME PeopleInv, NEW v \in Numbers, NEW day \in Days
             PROVE  Cardinality(HoldersOn(v, day)) <= 1
  BY DEF NumberNamesOnePerson
<1>1. ASSUME NEW r \in DOMAIN contacts, NEW k \in DOMAIN contacts,
             contacts[r].value = v, contacts[k].value = v,
             ValidOn(contacts[r], day), ValidOn(contacts[k], day)
      PROVE  r = k
  <2>1. /\ contacts[r].from \in Nat /\ contacts[r].to \in Nat
        /\ contacts[k].from \in Nat /\ contacts[k].to \in Nat /\ day \in Nat
    BY ContactIs, DaysOfContacts DEF PeopleInv
  <2>2. Overlaps(contacts[r], contacts[k].from, contacts[k].to)
    BY <1>1, <2>1 DEF ValidOn, Overlaps
  <2> QED BY <1>1, <2>2 DEF PeopleInv, PeriodsApart
<1>2. CASE HoldersOn(v, day) = {}
  BY <1>2, FS_EmptySet
<1>3. CASE HoldersOn(v, day) # {}
  <2>1. PICK p \in HoldersOn(v, day) : TRUE
    BY <1>3
  <2>2. HoldersOn(v, day) = {p}
    BY <1>1, <2>1 DEF HoldersOn
  <2> QED BY <2>2, FS_Singleton
<1> QED BY <1>2, <1>3

\* Parties, contacts, suppliers and the requests in hand keep their types.
THEOREM PeopleTypeCorrect == PeopleSpec => []PeopleTypeOK
<1>1. PeopleInv => PeopleTypeOK
  BY DEF PeopleInv
<1> QED BY <1>1, PeopleInitInv, PeopleInvNext, PTL DEF PeopleSpec

\* Whoever opens and closes a number's periods, it names one person on any
\* day, and no read gives a person away before its line is written.
THEOREM NumbersNameOnePerson == PeopleSpec => []PeopleHold
<1>1. PeopleInv => PeopleHold
  <2> SUFFICES ASSUME PeopleInv PROVE DisclosedIsTold
    BY OneHolder DEF PeopleHold
  <2>1. answersOut \in Nat /\ told \in Nat /\ answersOut + Cardinality(Answering) <= told
    BY PeopleAssumption DEF PeopleInv, PeopleTypeOK, AnswersAreTold
  <2> QED BY <2>1, AnswersCount DEF DisclosedIsTold
<1> QED BY <1>1, PeopleInitInv, PeopleInvNext, PTL DEF PeopleSpec

-----------------------------------------------------------------------------
(* The settings.  A group's two clocks are both unset or an ordered pair,  *)
(* because a save carries an ordered pair and commits it whole; and as     *)
(* long as no two changes of the list overlap, whoever holds a copy of the *)
(* list holds the list.                                                    *)
Ordered(amber, red) ==
  \/ settings[amber] = Unset /\ settings[red] = Unset
  \/ settings[amber] \in Nat /\ settings[red] \in Nat /\ settings[amber] < settings[red]

SaveFits(a) ==
  /\ ChangesList(a) => saves[a].date \in FreeDates
  /\ saves[a].group \in Groups => Len(saves[a].values) = Len(KeysOf(saves[a].group))
  /\ saves[a].group \in {"goal", "handling"} => saves[a].values[1] < saves[a].values[2]

OneList ==
  /\ freeDates = toldDates
  /\ \A a \in Admins : ChangesList(a) => saves[a].list = freeDates
  /\ \A a, b \in Admins : ChangesList(a) /\ ChangesList(b) => a = b

SettingsInv ==
  /\ SettingsTypeOK
  /\ Ordered("response_amber", "response_red") /\ Ordered("handling_amber", "handling_red")
  /\ \A a \in Admins : SaveFits(a)
  /\ overlapped \/ OneList
  /\ \A c \in WaitingCalls : waiting[c].opened = 0

LEMMA KeysOfGroups ==
  /\ KeysOf("goal") = <<"response_amber", "response_red">>
  /\ KeysOf("handling") = <<"handling_amber", "handling_red">>
  /\ KeysOf("reply") = <<"reply_days", "reply_shown">>
  /\ KeysOf("emergency") = <<"terms", "duty_phone", "duty_hours">>
  /\ KeysOf("dates") = <<>> /\ KeysOf("none") = <<>>
BY DEF KeysOf

LEMMA GroupKeys ==
  ASSUME NEW g \in Groups
  PROVE  DOMAIN KeysOf(g) = 1..Len(KeysOf(g))
BY KeysOfGroups DEF Groups

LEMMA ValuesAreNumbers == Values \subseteq Nat
BY SettingsAssumption DEF Values

LEMMA TwoAndThree ==
  ASSUME NEW x \in Values, NEW y \in Values, NEW z \in Values
  PROVE  /\ <<x, y>> \in Seq(Values) /\ Len(<<x, y>>) = 2
         /\ <<x, y, z>> \in Seq(Values) /\ Len(<<x, y, z>>) = 3
<1> HIDE DEF Values
<1> QED OBVIOUS

LEMMA NoSaveType == NoSave \in Save
BY DEF NoSave, Save

LEMMA InitSettings == SettingsInit => SettingsInv
<1> SUFFICES ASSUME SettingsInit PROVE SettingsInv
  OBVIOUS
<1>1. waiting \in [WaitingCalls -> [opened : 0..LastSettingDay, flagged : BOOLEAN, closed : BOOLEAN]]
      /\ \A c \in WaitingCalls : waiting[c].opened = 0
  <2>1. 0 \in 0..LastSettingDay
    BY SettingsAssumption
  <2>2. \A w \in [opened : {0}, flagged : BOOLEAN, closed : {FALSE}] :
          w \in [opened : 0..LastSettingDay, flagged : BOOLEAN, closed : BOOLEAN]
          /\ w.opened = 0
    BY <2>1
  <2> QED BY <2>2 DEF SettingsInit
<1>2. SettingsTypeOK
  <2>1. settings \in [Keys -> Values \cup {Unset}]
    BY DEF SettingsInit
  <2>2. /\ saves \in [Admins -> Save] /\ saved \in 0..MaxSaves /\ overlapped \in BOOLEAN
        /\ freeDates \subseteq FreeDates /\ toldDates \subseteq FreeDates
        /\ today \in 0..LastSettingDay
    <3>1. 0 \in 0..MaxSaves /\ 0 \in 0..LastSettingDay
      BY SettingsAssumption
    <3> QED BY <3>1, NoSaveType DEF SettingsInit
  <2> QED BY <1>1, <2>1, <2>2 DEF SettingsTypeOK
<1>3. \A a \in Admins : saves[a].group = "none" /\ SaveFits(a)
  BY DEF SettingsInit, NoSave, SaveFits, ChangesList, Groups
<1>4. OneList
  BY <1>3 DEF SettingsInit, OneList, ChangesList
<1>5. Ordered("response_amber", "response_red") /\ Ordered("handling_amber", "handling_red")
  BY DEF SettingsInit, Ordered, Keys
<1> QED BY <1>1, <1>2, <1>3, <1>4, <1>5 DEF SettingsInv

(* What a form posts fits the keys of its group, and a pair is ordered.    *)
LEMMA PostedFits ==
  ASSUME SettingsTypeOK, saved < MaxSaves, NEW group \in Groups, NEW v \in Postable(group)
  PROVE  /\ v \in Seq(Values) /\ Len(v) = Len(KeysOf(group))
         /\ group \in {"goal", "handling"} => v[1] < v[2]
<1>1. saved + 1 \in Values
  BY SettingsAssumption DEF SettingsTypeOK, Values
<1>2. CASE group \in {"goal", "handling"}
  <2>1. v \in GoalPairs /\ v[2] > v[1] /\ v \in Nat \X Nat
    BY <1>2, SettingsAssumption DEF Postable
  <2>2. v[1] \in Values /\ v[2] \in Values
    BY <2>1 DEF Values
  <2>3. v = <<v[1], v[2]>>
    BY <2>1
  <2>4. v \in Seq(Values) /\ Len(v) = 2
    BY <2>2, <2>3, TwoAndThree
  <2>5. Len(KeysOf(group)) = 2
    BY <1>2, KeysOfGroups
  <2> QED BY <2>1, <2>4, <2>5
<1>3. CASE group = "reply"
  <2>1. v = <<saved + 1, saved + 1>>
    BY <1>3 DEF Postable
  <2>2. Len(KeysOf(group)) = 2
    BY <1>3, KeysOfGroups
  <2> QED BY <1>1, <1>3, <2>1, <2>2, TwoAndThree
<1>4. CASE group = "emergency"
  <2>1. v = <<saved + 1, saved + 1, saved + 1>>
    BY <1>4 DEF Postable
  <2>2. Len(KeysOf(group)) = 3
    BY <1>4, KeysOfGroups
  <2> QED BY <1>1, <1>4, <2>1, <2>2, TwoAndThree
<1> QED BY <1>2, <1>3, <1>4 DEF Groups

LEMMA BeginSaveStep ==
  ASSUME SettingsInv, NEW a \in Admins, NEW group \in Groups, BeginSave(a, group)
  PROVE  SettingsInv'
<1>1. PICK v \in Postable(group) :
        saves' = [saves EXCEPT ![a] = [NoSave EXCEPT !.group = group, !.values = v]]
  BY DEF BeginSave
<1>2. /\ v \in Seq(Values) /\ Len(v) = Len(KeysOf(group))
      /\ group \in {"goal", "handling"} => v[1] < v[2]
  BY PostedFits DEF BeginSave, SettingsInv
<1> DEFINE new == [NoSave EXCEPT !.group = group, !.values = v]
<1>3. new \in Save /\ new.group = group /\ new.values = v
  BY <1>2, NoSaveType DEF Save
<1>4. /\ saves' \in [Admins -> Save] /\ saves'[a] = new
      /\ \A b \in Admins : b # a => saves'[b] = saves[b]
  BY <1>1, <1>3 DEF SettingsInv, SettingsTypeOK
<1> HIDE DEF new
<1>5. SettingsTypeOK'
  BY <1>4, SettingsAssumption DEF BeginSave, SettingsInv, SettingsTypeOK
<1>6. \A b \in Admins : SaveFits(b)'
  BY <1>2, <1>3, <1>4 DEF SettingsInv, SaveFits, ChangesList, Groups
<1>7. \A b \in Admins : ChangesList(b)' => ChangesList(b) /\ saves'[b] = saves[b]
  BY <1>3, <1>4 DEF ChangesList, Groups
<1>8. (overlapped \/ OneList)'
  BY <1>7 DEF BeginSave, SettingsInv, OneList
<1> QED BY <1>5, <1>6, <1>8 DEF BeginSave, SettingsInv, Ordered

LEMMA WriteSettingStep ==
  ASSUME SettingsInv, NEW a \in Admins, WriteSetting(a)
  PROVE  SettingsInv'
<1> DEFINE new == [saves[a] EXCEPT !.written = @ + 1]
<1>1. saves[a] \in Save /\ Len(KeysOf(saves[a].group)) \in 0..3
  <2>1. saves[a] \in Save
    BY DEF SettingsInv, SettingsTypeOK
  <2>2. saves[a].group \in {"goal", "handling", "reply", "emergency", "dates", "none"}
    BY <2>1 DEF Save, Groups
  <2>3. \A g \in {"goal", "handling", "reply", "emergency", "dates", "none"} :
          Len(KeysOf(g)) \in 0..3
    BY KeysOfGroups
  <2> QED BY <2>1, <2>2, <2>3
<1>2. /\ new \in Save /\ new.group = saves[a].group /\ new.values = saves[a].values
      /\ new.list = saves[a].list /\ new.date = saves[a].date
  <2>1. saves[a].written + 1 \in 0..3
    <3>1. saves[a].written \in 0..3
      BY <1>1 DEF Save
    <3>2. saves[a].written < Len(KeysOf(saves[a].group))
      BY DEF WriteSetting, MoreToWrite
    <3>3. \A w \in 0..3, n \in 0..3 : w < n => w + 1 \in 0..3
      OBVIOUS
    <3> QED BY <1>1, <3>1, <3>2, <3>3
  <2> QED BY <1>1, <2>1 DEF Save
<1>3. /\ saves' \in [Admins -> Save] /\ saves'[a] = new
      /\ \A b \in Admins : b # a => saves'[b] = saves[b]
  BY <1>2 DEF WriteSetting, SettingsInv, SettingsTypeOK
<1> HIDE DEF new
<1>4. SettingsTypeOK'
  BY <1>3 DEF WriteSetting, SettingsInv, SettingsTypeOK
<1>5. \A b \in Admins : saves'[b].group = saves[b].group /\ saves'[b].values = saves[b].values
                        /\ saves'[b].list = saves[b].list
  BY <1>2, <1>3
<1>6. \A b \in Admins : SaveFits(b)' /\ (ChangesList(b)' <=> ChangesList(b))
  <2>1. \A b \in Admins : saves'[b].date = saves[b].date
    BY <1>2, <1>3
  <2> QED BY <1>5, <2>1 DEF SettingsInv, SaveFits, ChangesList
<1>7. (overlapped \/ OneList)'
  BY <1>5, <1>6 DEF WriteSetting, SettingsInv, OneList
<1> QED BY <1>4, <1>6, <1>7 DEF WriteSetting, SettingsInv, Ordered

(* A save that ends leaves the others what they are.                       *)
LEMMA SaveEnds ==
  ASSUME SettingsInv, NEW a \in Admins, saves' = [saves EXCEPT ![a] = NoSave]
  PROVE  /\ saves' \in [Admins -> Save]
         /\ \A b \in Admins : SaveFits(b)'
         /\ \A b \in Admins : ChangesList(b)' => b # a /\ ChangesList(b) /\ saves'[b] = saves[b]
<1>1. /\ saves' \in [Admins -> Save] /\ saves'[a] = NoSave
      /\ \A b \in Admins : b # a => saves'[b] = saves[b]
  BY NoSaveType DEF SettingsInv, SettingsTypeOK
<1>2. NoSave.group = "none" /\ "none" \notin Groups
  BY DEF NoSave, Groups
<1> QED BY <1>1, <1>2 DEF SettingsInv, SaveFits, ChangesList

LEMMA CommitSaveStep ==
  ASSUME SettingsInv, NEW a \in Admins, CommitSave(a)
  PROVE  SettingsInv'
<1> DEFINE g == saves[a].group
           v == saves[a].values
<1>1. /\ saves' \in [Admins -> Save] /\ \A b \in Admins : SaveFits(b)'
      /\ \A b \in Admins : ChangesList(b)' => b # a /\ ChangesList(b) /\ saves'[b] = saves[b]
  BY SaveEnds DEF CommitSave
<1>2. /\ g \in Groups /\ v \in Seq(Values) /\ Len(v) = Len(KeysOf(g))
      /\ g \in {"goal", "handling"} => v[1] < v[2]
  BY DEF CommitSave, SettingsInv, SettingsTypeOK, Save, SaveFits
<1>3. ASSUME NEW k \in Keys
      PROVE  /\ settings'[k] = settings[k] /\ (\A i \in DOMAIN KeysOf(g) : KeysOf(g)[i] # k)
             \/ \E i \in DOMAIN KeysOf(g) : KeysOf(g)[i] = k /\ settings'[k] = v[i]
  BY DEF CommitSave, Written
<1>4. /\ DOMAIN KeysOf(g) = DOMAIN v
      /\ \A i \in DOMAIN v : v[i] \in Values
  <2>1. DOMAIN KeysOf(g) = 1..Len(KeysOf(g))
    BY GroupKeys, <1>2
  <2> QED BY <1>2, <2>1
<1>5. settings' \in [Keys -> Values \cup {Unset}]
  <2>1. DOMAIN settings' = Keys /\ settings' = [k \in Keys |-> settings'[k]]
    BY DEF CommitSave, Written
  <2>2. \A k \in Keys : settings'[k] \in Values \cup {Unset}
    BY <1>3, <1>4 DEF SettingsInv, SettingsTypeOK
  <2> QED BY <2>1, <2>2
<1>6. /\ settings'["handling_amber"] = IF g = "handling" THEN v[1] ELSE settings["handling_amber"]
      /\ settings'["handling_red"] = IF g = "handling" THEN v[2] ELSE settings["handling_red"]
      /\ settings'["response_amber"] = IF g = "goal" THEN v[1] ELSE settings["response_amber"]
      /\ settings'["response_red"] = IF g = "goal" THEN v[2] ELSE settings["response_red"]
  <2>1. {"handling_amber", "handling_red", "response_amber", "response_red"} \subseteq Keys
    BY DEF Keys
  <2>2. DOMAIN KeysOf("goal") = 1..2 /\ DOMAIN KeysOf("handling") = 1..2
        /\ DOMAIN KeysOf("reply") = 1..2 /\ DOMAIN KeysOf("emergency") = 1..3
    BY KeysOfGroups
  <2>3. CASE g = "goal"
    BY <1>3, <2>1, <2>2, <2>3, KeysOfGroups
  <2>4. CASE g = "handling"
    BY <1>3, <2>1, <2>2, <2>4, KeysOfGroups
  <2>5. CASE g = "reply"
    BY <1>3, <2>1, <2>2, <2>5, KeysOfGroups
  <2>6. CASE g = "emergency"
    BY <1>3, <2>1, <2>2, <2>6, KeysOfGroups
  <2> QED BY <1>2, <2>3, <2>4, <2>5, <2>6 DEF Groups
<1>7. g \in {"goal", "handling"} => v[1] \in Nat /\ v[2] \in Nat
  <2>1. g \in {"goal", "handling"} => DOMAIN KeysOf(g) = 1..2
    BY KeysOfGroups
  <2>2. g \in {"goal", "handling"} => v[1] \in Values /\ v[2] \in Values
    BY <1>4, <2>1
  <2> QED BY <2>2, ValuesAreNumbers
<1> HIDE DEF g, v
<1>8. Ordered("response_amber", "response_red")' /\ Ordered("handling_amber", "handling_red")'
  BY <1>2, <1>6, <1>7 DEF SettingsInv, Ordered
<1>9. SettingsTypeOK'
  BY <1>1, <1>5 DEF CommitSave, SettingsInv, SettingsTypeOK
<1>10. (overlapped \/ OneList)'
  BY <1>1 DEF CommitSave, SettingsInv, OneList
<1> QED BY <1>1, <1>8, <1>9, <1>10 DEF CommitSave, SettingsInv

LEMMA DatesStep ==
  ASSUME SettingsInv, NEW a \in Admins,
         \/ \E d \in FreeDates, op \in {"add", "remove"} : ReadDates(a, op, d)
         \/ WriteDates(a) \/ LoseSave(a)
  PROVE  SettingsInv'
<1>1. ASSUME NEW d \in FreeDates, NEW op \in {"add", "remove"}, ReadDates(a, op, d)
      PROVE  SettingsInv'
  <2> DEFINE new == [NoSave EXCEPT !.group = "dates", !.list = freeDates, !.op = op, !.date = d]
  <2>1. new \in Save /\ new.group = "dates" /\ new.list = freeDates /\ new.date = d
    <3>1. freeDates \in SUBSET FreeDates
      BY DEF SettingsInv, SettingsTypeOK
    <3> QED BY <3>1, NoSaveType DEF Save
  <2>2. /\ saves' \in [Admins -> Save] /\ saves'[a] = new
        /\ \A b \in Admins : b # a => saves'[b] = saves[b]
    BY <1>1, <2>1 DEF ReadDates, SettingsInv, SettingsTypeOK
  <2> HIDE DEF new
  <2>3. SettingsTypeOK'
    <3>1. overlapped' \in BOOLEAN /\ saved' \in 0..MaxSaves
      <4>1. saved \in 0..MaxSaves /\ saved < MaxSaves /\ saved' = saved + 1
            /\ overlapped' = (overlapped \/ \E b \in Admins : ChangesList(b))
        BY <1>1 DEF ReadDates, SettingsInv, SettingsTypeOK
      <4> QED BY <4>1, SettingsAssumption
    <3> QED BY <1>1, <2>2, <3>1 DEF ReadDates, SettingsInv, SettingsTypeOK
  <2>4. \A b \in Admins : SaveFits(b)'
    BY <2>1, <2>2 DEF SettingsInv, SaveFits, Groups, ChangesList
  <2>5. (overlapped \/ OneList)'
    BY <1>1, <2>1, <2>2 DEF ReadDates, SettingsInv, OneList, ChangesList
  <2> QED BY <1>1, <2>3, <2>4, <2>5 DEF ReadDates, SettingsInv, Ordered
<1>2. ASSUME WriteDates(a)
      PROVE  SettingsInv'
  <2>1. /\ saves' \in [Admins -> Save] /\ \A b \in Admins : SaveFits(b)'
        /\ \A b \in Admins : ChangesList(b)' => b # a /\ ChangesList(b) /\ saves'[b] = saves[b]
    BY <1>2, SaveEnds DEF WriteDates
  <2>2. saves[a] \in Save /\ ChangesList(a)
    BY <1>2 DEF WriteDates, SettingsInv, SettingsTypeOK
  <2>3. ~overlapped => freeDates' = toldDates' /\ \A b \in Admins : ~ChangesList(b)'
    BY <1>2, <2>1, <2>2 DEF WriteDates, SettingsInv, OneList, NextDates
  <2>4. (overlapped \/ OneList)'
    BY <1>2, <2>3 DEF WriteDates, OneList
  <2>5. SettingsTypeOK'
    <3>2. saves[a].date \in FreeDates
      BY <2>2 DEF SettingsInv, SaveFits
    <3> QED BY <1>2, <2>1, <2>2, <3>2 DEF WriteDates, SettingsInv, SettingsTypeOK, NextDates, With, Save
  <2> QED BY <1>2, <2>1, <2>4, <2>5 DEF WriteDates, SettingsInv, Ordered
<1>3. ASSUME LoseSave(a)
      PROVE  SettingsInv'
  <2>1. /\ saves' \in [Admins -> Save] /\ \A b \in Admins : SaveFits(b)'
        /\ \A b \in Admins : ChangesList(b)' => b # a /\ ChangesList(b) /\ saves'[b] = saves[b]
    BY <1>3, SaveEnds DEF LoseSave
  <2>2. SettingsTypeOK' /\ (overlapped \/ OneList)'
    BY <1>3, <2>1 DEF LoseSave, SettingsInv, SettingsTypeOK, OneList
  <2> QED BY <1>3, <2>1, <2>2 DEF LoseSave, SettingsInv, Ordered
<1> QED BY <1>1, <1>2, <1>3

LEMMA NextSettings == SettingsInv /\ [SettingsNext]_settingsVars => SettingsInv'
<1> SUFFICES ASSUME SettingsInv, [SettingsNext]_settingsVars PROVE SettingsInv'
  OBVIOUS
<1>1. ASSUME NEW c \in WaitingCalls, CloseWaiting(c)
      PROVE  SettingsInv'
  <2>1. /\ waiting' \in [WaitingCalls -> [opened : 0..LastSettingDay, flagged : BOOLEAN, closed : BOOLEAN]]
        /\ \A d \in WaitingCalls : waiting'[d].opened = waiting[d].opened
    BY <1>1 DEF CloseWaiting, SettingsInv, SettingsTypeOK
  <2> QED BY <1>1, <2>1 DEF CloseWaiting, SettingsInv, SettingsTypeOK, Ordered, SaveFits, OneList, ChangesList
<1>2. ASSUME DayBegins \/ UNCHANGED settingsVars
      PROVE  SettingsInv'
  <2>1. today' \in 0..LastSettingDay
    BY <1>2, SettingsAssumption DEF DayBegins, settingsVars, SettingsInv, SettingsTypeOK
  <2>2. UNCHANGED <<settings, freeDates, saves, saved, toldDates, overlapped, waiting>>
    BY <1>2 DEF DayBegins, settingsVars
  <2> QED BY <2>1, <2>2 DEF SettingsInv, SettingsTypeOK, Ordered, SaveFits, OneList, ChangesList
<1> QED BY <1>1, <1>2, BeginSaveStep, WriteSettingStep, CommitSaveStep, DatesStep DEF SettingsNext

(* A day that ends adds at most itself to the business days that elapsed.  *)
LEMMA OneDayMore ==
  ASSUME NEW first \in Nat, NEW day \in Nat, NEW closed
  PROVE  /\ BusinessDaysElapsed(first, day, closed) \in Nat
         /\ BusinessDaysElapsed(first, day + 1, closed) \in Nat
         /\ BusinessDaysElapsed(first, day + 1, closed)
              <= BusinessDaysElapsed(first, day, closed) + 1
<1> DEFINE before == {d \in first..day : d < day /\ WorkingDay(d, closed)}
           after == {d \in first..(day + 1) : d < day + 1 /\ WorkingDay(d, closed)}
<1>1. IsFiniteSet(first..day)
  BY FS_Interval
<1>2. before \subseteq first..day
  OBVIOUS
<1>3. IsFiniteSet(before) /\ Cardinality(before) \in Nat
  <2> HIDE DEF before
  <2> QED BY <1>1, <1>2, FS_Subset, FS_CardinalityType
<1>4. after \subseteq before \cup {day}
  BY DEF WorkingDay
<1> HIDE DEF before, after
<1>5. IsFiniteSet(before \cup {day}) /\ Cardinality(before \cup {day}) <= Cardinality(before) + 1
  BY <1>3, FS_AddElement
<1>6. IsFiniteSet(after) /\ Cardinality(after) \in Nat /\ Cardinality(after) <= Cardinality(before) + 1
  BY <1>3, <1>4, <1>5, FS_Subset, FS_CardinalityType
<1> QED BY <1>3, <1>6 DEF before, after, BusinessDaysElapsed

LEMMA DayWarnsFirst ==
  ASSUME SettingsInv, [SettingsNext]_settingsVars
  PROVE  AmberComesBeforeRed
<1>1. today' # today => DayBegins
  BY DEF SettingsNext, BeginSave, WriteSetting, CommitSave, LoseSave, ReadDates, WriteDates,
         CloseWaiting, settingsVars
<1>2. ASSUME DayBegins, NEW c \in WaitingCalls, OfficeBand(c) = "none"
      PROVE  OfficeBand(c)' # "red"
  <2>1. /\ today \in Nat /\ today' = today + 1 /\ waiting[c].opened = 0
        /\ waiting' = waiting /\ settings' = settings /\ freeDates' = freeDates
    BY <1>2, SettingsAssumption DEF DayBegins, SettingsInv, SettingsTypeOK
  <2>2. /\ AmberDays \in Nat /\ RedDays \in Nat /\ AmberDays < RedDays
        /\ AmberGoal \in Nat /\ RedGoal \in Nat /\ AmberGoal < RedGoal
    BY SettingsAssumption DEF SettingsInv, Ordered, AmberDays, RedDays, AmberGoal, RedGoal
  <2>3. /\ AmberDays' = AmberDays /\ RedDays' = RedDays
        /\ AmberGoal' = AmberGoal /\ RedGoal' = RedGoal
    BY <2>1 DEF AmberDays, RedDays, AmberGoal, RedGoal
  <2> DEFINE n == BusinessDaysElapsed(0, today, freeDates)
             m == BusinessDaysElapsed(0, today + 1, freeDates)
  <2>4. n \in Nat /\ m \in Nat /\ m <= n + 1
    BY <2>1, OneDayMore
  <2> HIDE DEF n, m
  <2>5. ASSUME NEW age \in Nat, NEW later \in Nat, NEW amber \in Nat, NEW red \in Nat,
               later <= age + 1, amber < red, BandPast(age, amber, red) = "none"
        PROVE  BandPast(later, amber, red) # "red"
    BY <2>5 DEF BandPast
  <2>6. waiting[c].closed \in BOOLEAN /\ waiting[c].flagged \in BOOLEAN
    BY DEF SettingsInv, SettingsTypeOK
  <2>7. CASE waiting[c].closed
    BY <2>1, <2>7 DEF OfficeBand
  <2>8. CASE ~waiting[c].closed /\ waiting[c].flagged
    <3>1. /\ OfficeBand(c) = BandPast(today, AmberGoal, RedGoal)
          /\ OfficeBand(c)' = BandPast(today + 1, AmberGoal, RedGoal)
      BY <2>1, <2>3, <2>8 DEF OfficeBand
    <3> QED BY <1>2, <2>1, <2>2, <2>5, <3>1
  <2>9. CASE ~waiting[c].closed /\ ~waiting[c].flagged
    <3>1. /\ OfficeBand(c) = BandPast(n, AmberDays, RedDays)
          /\ OfficeBand(c)' = BandPast(m, AmberDays, RedDays)
      BY <2>1, <2>3, <2>9 DEF OfficeBand, n, m
    <3> QED BY <1>2, <2>2, <2>4, <2>5, <3>1
  <2> QED BY <2>6, <2>7, <2>8, <2>9
<1> QED BY <1>1, <1>2 DEF AmberComesBeforeRed

(* The settings, the saves under way and the calls' days keep their types. *)
THEOREM SettingsTypeCorrect == SettingsSpec => []SettingsTypeOK
<1>1. SettingsInv => SettingsTypeOK
  BY DEF SettingsInv
<1> QED BY <1>1, InitSettings, NextSettings, PTL DEF SettingsSpec

(* However saves overlap, stop and are lost: no day turns a call that was  *)
(* in time to red before it was amber, and the list of non-working dates   *)
(* is what the audit tells unless two changes of it overlapped.            *)
THEOREM SettingsAlwaysHold == SettingsSpec => SettingsHold
<1>1. SettingsInv' => DatesTellTheAudit'
  BY DEF SettingsInv, OneList, DatesTellTheAudit
<1>2. SettingsInv /\ SettingsInv' /\ [SettingsNext]_settingsVars
        => [DatesTellTheAudit' /\ AmberComesBeforeRed]_settingsVars
  BY <1>1, DayWarnsFirst
<1> QED BY <1>2, InitSettings, NextSettings, PTL DEF SettingsSpec, SettingsHold

-----------------------------------------------------------------------------
(* The screens of one reading.  A row is of a reading that was begun, and  *)
(* one that is gone is of an earlier one, so a row that a press still      *)
(* holds is not one the reader inserts again: of the rows a bulk press     *)
(* listed those that are still there are as legible as they were.  A form  *)
(* is of a row its page showed; the opening's flats are those of an anchor *)
(* where there is one; and only a lease is ever opened or attached.        *)
OfAReading(r) ==
  r \in Nat \X (LeaseKeys \cup OtherKeys) /\ r[1] <= begun

MayGoTogether(r) ==
  /\ ~IsIdentifierField(r) /\ ~IsContactField(r)
  /\ paperType = "lease" => r[2] \notin LeaseIdentityAndAccess

PaperFits ==
  /\ begun \in Nat
  /\ \A r \in captured : OfAReading(r)
  /\ DOMAIN approvedAs \subseteq captured
  /\ DOMAIN tab = Clerks /\ DOMAIN inHand = Clerks

TabFits(v) ==
  /\ \A f \in tab[v].forms : f.row \in tab[v].shown
  /\ tab[v].page # "filing" =>
       \A r \in tab[v].shown : IsIdentifierField(r) => <<v, r>> \in disclosed
  /\ NoFlat \notin tab[v].flats
  /\ leasePlace.kind = "anchor" => tab[v].flats \subseteq {leasePlace.flat}
  /\ tab[v].opens \/ tab[v].attach # {} => paperType = "lease"

ListedFits(r) ==
  /\ OfAReading(r) /\ MayGoTogether(r)
  /\ IF r \in captured THEN r \in legible ELSE r[1] < begun

HeldRowsFit(v) ==
  /\ inHand[v].does = "one" => inHand[v].seen
  /\ inHand[v].does = "all" => \A r \in inHand[v].rows : ListedFits(r)

SignatureFits(s) ==
  /\ s.how = "alone" => s.seen
  /\ s.how = "unflagged" =>
       MayGoTogether(s.row) /\ s.row \in legible /\ s.row \in DOMAIN approvedAs

DraftFits ==
  /\ DraftAsShown
  /\ carried \subseteq DOMAIN approvedAs
  /\ carried # {} => leaseDraft # NoFlat
  /\ leaseDraft # NoFlat => paperType = "lease"

LedgerInv ==
  /\ PaperFits
  /\ \A v \in Clerks : TabFits(v) /\ HeldRowsFit(v)
  /\ \A s \in signatures : SignatureFits(s)
  /\ DraftFits

LEMMA NoTabIsEmpty ==
  /\ NoTab.page = "none" /\ NoTab.forms = {} /\ NoTab.shown = {} /\ NoTab.flats = {}
  /\ ~NoTab.opens /\ NoTab.attach = {}
  /\ NoHand.does = "nothing"
BY DEF NoTab, NoHand

LEMMA InitLedger == LedgerInit => LedgerInv
<1> SUFFICES ASSUME LedgerInit PROVE LedgerInv
  OBVIOUS
<1>1. PaperFits
  BY DEF LedgerInit, PaperFits
<1>2. ASSUME NEW v \in Clerks
      PROVE  TabFits(v) /\ HeldRowsFit(v)
  <2>1. tab[v] = NoTab /\ inHand[v] = NoHand
    BY DEF LedgerInit
  <2> QED BY <2>1, NoTabIsEmpty DEF TabFits, HeldRowsFit
<1>3. DraftFits
  BY DEF LedgerInit, DraftFits, DraftAsShown
<1> QED BY <1>1, <1>2, <1>3 DEF LedgerInit, LedgerInv

(* A page that is drawn: its forms are of rows it shows, whom it shows an  *)
(* identifier is in the log, and it opens nothing but a lease.             *)
LEMMA DrawsTabStep ==
  ASSUME LedgerInv, NEW v \in Clerks, NEW new, DrawsTab(v, new),
         disclosed \subseteq disclosed',
         \A f \in new.forms : f.row \in new.shown,
         new.page # "filing" =>
           \A r \in new.shown : IsIdentifierField(r) => <<v, r>> \in disclosed',
         NoFlat \notin new.flats,
         leasePlace.kind = "anchor" => new.flats \subseteq {leasePlace.flat},
         new.opens \/ new.attach # {} => paperType = "lease"
  PROVE  LedgerInv'
<1>1. /\ DOMAIN tab' = Clerks /\ tab'[v] = new
      /\ \A w \in Clerks : w # v => tab'[w] = tab[w]
  BY DEF DrawsTab, LedgerInv, PaperFits
<1>2. UNCHANGED <<paperType, leasePlace, begun, captured, legible, approvedAs, carried, leaseDraft,
                  linkedBy, inHand, signatures>>
  BY DEF DrawsTab, paperVars, rowVars, draftVars
<1>3. ASSUME NEW w \in Clerks
      PROVE  TabFits(w)' /\ HeldRowsFit(w)'
  <2>1. TabFits(w)'
    <3>1. CASE w = v
      BY <1>1, <1>2, <3>1 DEF TabFits, IsIdentifierField
    <3>2. CASE w # v
      BY <1>1, <1>2, <1>3, <3>2 DEF LedgerInv, TabFits, IsIdentifierField
    <3> QED BY <3>1, <3>2
  <2>2. HeldRowsFit(w)'
    BY <1>2, <1>3 DEF LedgerInv, HeldRowsFit, ListedFits, OfAReading, MayGoTogether,
                      IsIdentifierField, IsContactField
  <2> QED BY <2>1, <2>2
<1>4. PaperFits'
  BY <1>1, <1>2 DEF LedgerInv, PaperFits, OfAReading
<1>5. \A s \in signatures' : SignatureFits(s)'
  BY <1>2 DEF LedgerInv, SignatureFits, MayGoTogether, IsIdentifierField, IsContactField
<1>6. DraftFits'
  BY <1>2 DEF LedgerInv, DraftFits, DraftAsShown, SignedAs, ReadAs, IsSigned
<1> QED BY <1>3, <1>4, <1>5, <1>6 DEF LedgerInv

LEMMA OpensStep ==
  ASSUME LedgerInv, NEW v \in Clerks,
         \/ OpensFiling(v) \/ OpensLedger(v) \/ OpensRead(v) \/ OpensOpening(v)
         \/ \E r \in tab[v].reveals : Reveals(v, r)
  PROVE  LedgerInv'
<1>1. ASSUME OpensFiling(v)
      PROVE  LedgerInv'
  <2> DEFINE new == FilingTab
  <2>1. DrawsTab(v, new) /\ disclosed' = disclosed
    BY <1>1 DEF OpensFiling
  <2>2. /\ new.flats = {} /\ ~new.opens /\ new.attach = {}
        /\ \/ new.page = "filing" /\ new.forms = FilingForms /\ new.shown = captured
           \/ new.forms = {} /\ new.shown = {}
    BY DEF FilingTab, NoTab
  <2>3. \A f \in FilingForms : f.row \in captured
    BY DEF FilingForms, LedgerForm
  <2> HIDE DEF new
  <2> QED BY <2>1, <2>2, <2>3, DrawsTabStep
<1>2. ASSUME NEW revealed, DrawsTab(v, LedgerTab(v, revealed)), disclosed \subseteq disclosed',
             \A q \in captured : IsIdentifierField(q) /\ ~Masked(q, revealed)
                                   => <<v, q>> \in disclosed'
      PROVE  LedgerInv'
  <2> DEFINE unmasked == {r \in captured : IsIdentifierField(r) /\ ~Masked(r, revealed)}
             plain == {r \in Unsigned : ~Masked(r, revealed)}
             new == LedgerTab(v, revealed)
  <2>1. /\ new.flats = {} /\ ~new.opens /\ new.attach = {}
        /\ \/ new.forms = {} /\ new.shown = unmasked
           \/ new.forms = LedgerForms(revealed) /\ new.shown = unmasked \cup plain
    BY DEF LedgerTab, NoTab
  <2>2. \A f \in LedgerForms(revealed) : f.row \in plain
    BY DEF LedgerForms, LedgerForm
  <2>3. \A r \in unmasked \cup plain : IsIdentifierField(r) => <<v, r>> \in disclosed'
    BY <1>2 DEF Unsigned
  <2>4. DrawsTab(v, new)
    BY <1>2
  <2> HIDE DEF unmasked, plain, new
  <2> QED BY <1>2, <2>1, <2>2, <2>3, <2>4, DrawsTabStep
<1>3. ASSUME OpensLedger(v)
      PROVE  LedgerInv'
  <2>1. \A q \in captured : q # NoFlat
    BY LedgerAssumption DEF LedgerInv, PaperFits, OfAReading
  <2>2. \A q \in captured : ~Masked(q, NoFlat) => ~IsIdentifierField(q)
    BY <2>1 DEF Masked
  <2> QED BY <1>2, <1>3, <2>2 DEF OpensLedger
<1>4. ASSUME NEW r \in tab[v].reveals, Reveals(v, r)
      PROVE  LedgerInv'
  <2>1. \A q \in captured : IsIdentifierField(q) /\ ~Masked(q, r) => q = r
    BY DEF Masked
  <2> QED BY <1>2, <1>4, <2>1 DEF Reveals
<1>5. ASSUME OpensRead(v)
      PROVE  LedgerInv'
  <2> DEFINE unmasked == {r \in captured : v \in Confidants /\ IsIdentifierField(r)}
             new == [NoTab EXCEPT !.page = "read", !.shown = unmasked]
  <2>1. DrawsTab(v, new) /\ disclosed' = disclosed \cup ({v} \X unmasked)
    BY <1>5 DEF OpensRead
  <2>2. new.forms = {} /\ new.shown = unmasked /\ new.flats = {} /\ ~new.opens /\ new.attach = {}
    BY DEF NoTab
  <2> HIDE DEF new, unmasked
  <2> QED BY <2>1, <2>2, DrawsTabStep
<1>6. ASSUME OpensOpening(v)
      PROVE  LedgerInv'
  <2>1. PICK flats \in OfferedFlats, opens \in {LeaseCanOpen, FALSE}, lettings \in SameLease :
          DrawsTab(v, [NoTab EXCEPT !.page = "open", !.flats = flats, !.opens = opens,
                                    !.attach = lettings])
    BY <1>6 DEF OpensOpening
  <2> DEFINE new == [NoTab EXCEPT !.page = "open", !.flats = flats, !.opens = opens,
                                  !.attach = lettings]
  <2>2. DrawsTab(v, new) /\ disclosed' = disclosed /\ paperType = "lease"
    BY <1>6, <2>1 DEF OpensOpening
  <2>3. new.forms = {} /\ new.shown = {} /\ new.flats = flats
    BY DEF NoTab
  <2>4. PICK listed \in ListedFlats, flat \in UNION {FlatForOpening(asked) : asked \in LedgerFlats \cup {NoFlat}} :
          flats = listed \cup ({flat} \ {NoFlat})
    BY DEF OfferedFlats
  <2>5. NoFlat \notin flats
    BY <2>4, LedgerAssumption DEF ListedFlats
  <2>6. leasePlace.kind = "anchor" => flats \subseteq {leasePlace.flat}
    BY <2>4 DEF ListedFlats, FlatForOpening
  <2> HIDE DEF new
  <2> QED BY <2>2, <2>3, <2>5, <2>6, DrawsTabStep
<1> QED BY <1>1, <1>3, <1>4, <1>5, <1>6

(* A press that leaves its page: what it holds may go on, and what it has  *)
(* stamped or opened is as it should be.                                   *)
LEMMA PressStep ==
  ASSUME LedgerInv, NEW v \in Clerks, NEW hand, TakesPress(v, hand),
         hand.does = "one" => hand.seen,
         hand.does = "all" => \A r \in hand.rows : ListedFits(r),
         DOMAIN approvedAs \subseteq DOMAIN approvedAs', DOMAIN approvedAs' \subseteq captured,
         \A s \in signatures' : s \in signatures \/ SignatureFits(s)',
         DraftFits'
  PROVE  LedgerInv'
<1>1. /\ DOMAIN tab' = Clerks /\ tab'[v] = NoTab
      /\ \A w \in Clerks : w # v => tab'[w] = tab[w]
      /\ DOMAIN inHand' = Clerks /\ inHand'[v] = hand
      /\ \A w \in Clerks : w # v => inHand'[w] = inHand[w]
      /\ UNCHANGED <<paperType, leasePlace, begun, captured, legible, disclosed>>
  BY DEF TakesPress, rowVars, paperVars, LedgerInv, PaperFits
<1>2. PaperFits'
  BY <1>1 DEF LedgerInv, PaperFits, OfAReading
<1>3. ASSUME NEW w \in Clerks
      PROVE  TabFits(w)'
  <2>1. CASE w = v
    BY <1>1, <2>1, NoTabIsEmpty DEF TabFits
  <2>2. CASE w # v
    BY <1>1, <1>3, <2>2 DEF LedgerInv, TabFits, IsIdentifierField
  <2> QED BY <2>1, <2>2
<1>4. \A r : ListedFits(r) => ListedFits(r)'
  BY <1>1 DEF ListedFits, OfAReading, MayGoTogether, IsIdentifierField, IsContactField
<1>5. \A w \in Clerks : HeldRowsFit(w)'
  BY <1>1, <1>4 DEF LedgerInv, HeldRowsFit
<1>6. \A s \in signatures : SignatureFits(s)'
  BY <1>1 DEF LedgerInv, SignatureFits, MayGoTogether, IsIdentifierField, IsContactField
<1> QED BY <1>2, <1>3, <1>5, <1>6 DEF LedgerInv

LEMMA PressesStep ==
  ASSUME LedgerInv, NEW v \in Clerks,
         \/ \E f \in tab[v].forms, value \in SignedValues : Presses(v, f, value)
         \/ PressesAll(v) \/ ListsUnflagged(v)
  PROVE  LedgerInv'
<1>1. DOMAIN approvedAs \subseteq captured
  BY DEF LedgerInv, PaperFits
<1>2. ASSUME NEW hand, TakesPress(v, hand),
             UNCHANGED <<approvedAs, draftVars, signatures>>,
             hand.does = "one" => hand.seen,
             hand.does = "all" => \A r \in hand.rows : ListedFits(r)
      PROVE  LedgerInv'
  <2>1. DraftFits'
    BY <1>2 DEF LedgerInv, DraftFits, DraftAsShown, SignedAs, ReadAs, IsSigned, draftVars,
                TakesPress, paperVars, rowVars
  <2> QED BY <1>1, <1>2, <2>1, PressStep
<1>3. ASSUME NEW f \in tab[v].forms, NEW value \in SignedValues, Presses(v, f, value)
      PROVE  LedgerInv'
  <2> DEFINE filing == tab[v].page = "filing"
             hand == [does |-> "one", rows |-> {f.row}, value |-> value,
                      seen |-> f.row \in tab[v].shown, may |-> filing \/ v \in Confidants]
  <2>1. TakesPress(v, NoHand) \/ TakesPress(v, hand)
    BY <1>3 DEF Presses
  <2>2. f.row \in tab[v].shown
    BY DEF LedgerInv, TabFits
  <2>3. UNCHANGED <<approvedAs, draftVars, signatures>>
    BY <1>3 DEF Presses
  <2>4. hand.does = "one" /\ hand.seen
    BY <2>2
  <2> HIDE DEF hand
  <2> QED BY <1>2, <2>1, <2>3, <2>4, NoTabIsEmpty
<1>4. ASSUME PressesAll(v)
      PROVE  LedgerInv'
  <2> DEFINE hand == [NoHand EXCEPT !.does = "list"]
  <2>1. TakesPress(v, NoHand) \/ TakesPress(v, hand)
    BY <1>4 DEF PressesAll
  <2>2. hand.does = "list"
    BY DEF NoHand
  <2>3. UNCHANGED <<approvedAs, draftVars, signatures>>
    BY <1>4 DEF PressesAll
  <2> HIDE DEF hand
  <2> QED BY <1>2, <2>1, <2>2, <2>3, NoTabIsEmpty
<1>5. ASSUME ListsUnflagged(v)
      PROVE  LedgerInv'
  <2> DEFINE listed == {r \in Unsigned : ~PressedAlone(r)}
             hand == [NoHand EXCEPT !.does = "all", !.rows = listed]
  <2>1. TakesPress(v, hand)
    BY <1>5 DEF ListsUnflagged
  <2>2. \A r \in listed : ListedFits(r)
    BY DEF LedgerInv, PaperFits, Unsigned, PressedAlone, ListedFits, MayGoTogether
  <2>3. UNCHANGED <<approvedAs, draftVars, signatures>>
    BY <1>5 DEF ListsUnflagged
  <2>4. hand.does = "all" /\ hand.rows = listed
    BY DEF NoHand
  <2> HIDE DEF hand, listed
  <2> QED BY <1>2, <2>1, <2>2, <2>3, <2>4
<1> QED BY <1>3, <1>4, <1>5

(* What is signed stays signed, so what a draft was opened from stays.     *)
LEMMA DraftStays ==
  ASSUME DraftFits, DOMAIN approvedAs \subseteq DOMAIN approvedAs',
         captured \cap DOMAIN approvedAs \subseteq captured',
         UNCHANGED <<paperType, carried, leaseDraft, linkedBy>>
  PROVE  DraftFits'
<1>1. \A key : SignedAs(key) \subseteq SignedAs(key)'
  BY DEF SignedAs, ReadAs, IsSigned
<1> QED BY <1>1 DEF DraftFits, DraftAsShown

LEMMA StampFits ==
  ASSUME LedgerInv, NEW v \in Clerks, NEW rows, NEW value, NEW how,
         StampRows(v, rows, value, how), rows \subseteq captured,
         UNCHANGED <<paperType, captured, legible, carried, leaseDraft, linkedBy>>,
         how \in {"alone", "unflagged"}, how = "alone" => inHand[v].seen,
         how = "unflagged" => \A r \in rows : MayGoTogether(r) /\ r \in legible
  PROVE  /\ DOMAIN approvedAs \subseteq DOMAIN approvedAs' /\ DOMAIN approvedAs' \subseteq captured
         /\ \A s \in signatures' : s \in signatures \/ SignatureFits(s)'
         /\ DraftFits'
<1>1. DOMAIN approvedAs' = DOMAIN approvedAs \cup rows
  BY DEF StampRows
<1>2. ASSUME NEW s \in signatures', s \notin signatures
      PROVE  SignatureFits(s)'
  <2>1. PICK r \in rows : s = [row |-> r, how |-> how, seen |-> inHand[v].seen, value |-> value]
    BY <1>2 DEF StampRows
  <2>2. s.row = r /\ s.how = how /\ s.seen = inHand[v].seen
    BY <2>1
  <2> QED BY <1>1, <2>2 DEF SignatureFits, MayGoTogether, IsIdentifierField, IsContactField
<1>3. DraftFits'
  BY <1>1, DraftStays DEF LedgerInv
<1> QED BY <1>1, <1>2, <1>3 DEF LedgerInv, PaperFits

(* What leaseReadingGaps asks for: once nothing is missing, the main       *)
(* tenant is signed.                                                       *)
LEMMA ReadyHasTenant ==
  ASSUME LeaseCanOpen
  PROVE  SignedAs("main_tenant_name") \cup SignedAs("tenant_name") # {}
<1>1. ReadAs(MainTenantKey) # {} /\ UnsignedNames = {}
  BY DEF LeaseCanOpen, NotRead, LedgerGaps
<1>2. CASE ReadAs("main_tenant_name") # {}
  <2>1. PICK r \in captured : r[2] = "main_tenant_name"
    BY <1>2 DEF ReadAs
  <2> QED BY <1>1, <2>1 DEF UnsignedNames, Unsigned, NameKeys, SignedAs, ReadAs, IsSigned
<1>3. CASE ReadAs("main_tenant_name") = {}
  <2>1. PICK r \in captured : r[2] = "tenant_name"
    BY <1>1, <1>3 DEF MainTenantKey, ReadAs
  <2> QED BY <1>1, <2>1 DEF UnsignedNames, Unsigned, NameKeys, SignedAs, ReadAs, IsSigned
<1> QED BY <1>2, <1>3

LEMMA LinkStep ==
  ASSUME LedgerInv, NEW v \in Clerks,
         \/ \E posted \in LedgerFlats \cup {NoFlat}, refused \in BOOLEAN :
              OpensDraft(v, posted, refused)
         \/ \E offer \in tab[v].attach, gone \in BOOLEAN : AttachesLease(v, offer, gone)
  PROVE  DraftFits' /\ TakesPress(v, NoHand) /\ UNCHANGED <<approvedAs, signatures>>
<1>1. /\ TakesPress(v, NoHand) /\ UNCHANGED <<approvedAs, signatures>>
      /\ UNCHANGED <<paperType, leasePlace, captured>>
  BY DEF OpensDraft, AttachesLease, TakesPress, paperVars, rowVars
<1>2. ASSUME UNCHANGED draftVars
      PROVE  DraftFits'
  BY <1>1, <1>2, DraftStays DEF LedgerInv, draftVars
<1>3. /\ \A key : SignedAs(key)' = SignedAs(key)
      /\ DOMAIN approvedAs \subseteq captured /\ TabFits(v) /\ DraftFits
  BY <1>1 DEF SignedAs, ReadAs, IsSigned, LedgerInv, PaperFits
<1>4. ASSUME NEW posted \in LedgerFlats \cup {NoFlat}, NEW refused \in BOOLEAN,
             OpensDraft(v, posted, refused)
      PROVE  DraftFits'
  <2>1. PICK flat \in FlatForOpening(posted) :
          IF ClosedLease \/ ~LeaseCanOpen \/ refused \/ flat = NoFlat
          THEN UNCHANGED draftVars
          ELSE /\ \E rows \in SUBSET DOMAIN approvedAs : Lands(rows) /\ carried' = rows
               /\ leaseDraft' = flat
               /\ linkedBy' = [how |-> "opened", flats |-> tab[v].flats]
    BY <1>4 DEF OpensDraft
  <2>2. CASE UNCHANGED draftVars
    BY <1>2, <2>2
  <2>3. CASE ~UNCHANGED draftVars
    <3>1. PICK rows \in SUBSET DOMAIN approvedAs : Lands(rows) /\ carried' = rows
      BY <2>1, <2>3
    <3>2. /\ LeaseCanOpen /\ flat # NoFlat /\ leaseDraft' = flat
          /\ linkedBy'.how = "opened" /\ linkedBy'.flats = tab[v].flats
      BY <2>1, <2>3
    <3>3. tab[v].flats # {} => flat \in tab[v].flats
      BY <1>3, <1>4 DEF TabFits, OpensDraft, FlatForOpening
    <3>4. \A key \in RequiredDates : SignedAs(key) \cap rows # {}
      BY <1>3, <3>1 DEF Lands, SignedAs, ReadAs, IsSigned
    <3>5. paperType' = "lease"
      BY <1>1, <1>3, <1>4 DEF TabFits, OpensDraft
    <3> QED BY <1>1, <1>3, <3>1, <3>2, <3>3, <3>4, <3>5, ReadyHasTenant DEF DraftFits, DraftAsShown
  <2> QED BY <2>2, <2>3
<1>5. ASSUME NEW offer \in tab[v].attach, NEW gone \in BOOLEAN, AttachesLease(v, offer, gone)
      PROVE  DraftFits'
  <2>1. CASE UNCHANGED draftVars
    BY <1>2, <2>1
  <2>2. CASE ~UNCHANGED draftVars
    <3>1. /\ ~ClosedLease /\ leaseDraft' = offer /\ carried' = carried
          /\ linkedBy' = [how |-> "attached", flats |-> tab[v].attach]
      BY <1>5, <2>2 DEF AttachesLease
    <3>2. linkedBy'.how = "attached" /\ offer \in linkedBy'.flats
      BY <3>1
    <3>3. paperType = "lease" /\ paperType' = "lease"
      BY <1>1, <1>3 DEF TabFits
    <3>4. carried = {}
      BY <1>3, <3>1, <3>3 DEF ClosedLease, DraftFits
    <3> QED BY <3>1, <3>2, <3>3, <3>4 DEF DraftFits, DraftAsShown
  <2> QED BY <2>1, <2>2
<1> QED BY <1>1, <1>4, <1>5

LEMMA CommandStep ==
  ASSUME LedgerInv, NEW v \in Clerks,
         (\E badContact \in BOOLEAN : ApproveExtractedField(v, badContact)) \/ ApproveUnflagged(v)
  PROVE  LedgerInv'
<1> DEFINE rows == inHand[v].rows
           Grows == /\ DOMAIN approvedAs \subseteq DOMAIN approvedAs'
                    /\ DOMAIN approvedAs' \subseteq captured
                    /\ \A s \in signatures' : s \in signatures \/ SignatureFits(s)'
                    /\ DraftFits'
<1>1. TakesPress(v, NoHand) /\ UNCHANGED draftVars
  BY DEF ApproveExtractedField, ApproveUnflagged
<1>2. UNCHANGED <<paperType, captured, legible, carried, leaseDraft, linkedBy>>
  BY <1>1 DEF TakesPress, paperVars, rowVars, draftVars
<1>3. ASSUME UNCHANGED <<approvedAs, signatures>>
      PROVE  Grows
  BY <1>2, <1>3, DraftStays DEF LedgerInv, PaperFits
<1>4. ASSUME NEW badContact \in BOOLEAN, ApproveExtractedField(v, badContact)
      PROVE  Grows
  <2> DEFINE refused == \E r \in rows : Refuses(r, inHand[v].value, inHand[v].may)
                                          \/ (badContact /\ IsContactField(r))
  <2>1. inHand[v].seen
    BY <1>4 DEF ApproveExtractedField, LedgerInv, HeldRowsFit
  <2>2. \/ UNCHANGED <<approvedAs, signatures>>
        \/ ~refused /\ StampRows(v, rows, inHand[v].value, "alone")
    BY <1>4 DEF ApproveExtractedField
  <2>3. ~refused => rows \subseteq captured
    BY DEF Refuses
  <2> HIDE DEF rows, refused
  <2> QED BY <1>2, <1>3, <2>1, <2>2, <2>3, StampFits
<1>5. ASSUME ApproveUnflagged(v)
      PROVE  Grows
  <2>1. \A r \in rows : ListedFits(r)
    BY <1>5 DEF ApproveUnflagged, LedgerInv, HeldRowsFit
  <2>2. CASE UNCHANGED <<approvedAs, signatures>>
    BY <1>3, <2>2
  <2>3. CASE ~UNCHANGED <<approvedAs, signatures>>
    <3>1. rows \subseteq captured /\ StampRows(v, rows \ DOMAIN approvedAs, "read", "unflagged")
      BY <1>5, <2>3 DEF ApproveUnflagged
    <3>2. /\ rows \ DOMAIN approvedAs \subseteq captured
          /\ \A r \in rows \ DOMAIN approvedAs : MayGoTogether(r) /\ r \in legible
      BY <2>1, <3>1 DEF ListedFits
    <3> HIDE DEF rows
    <3> QED BY <1>2, <3>1, <3>2, StampFits
  <2> QED BY <2>2, <2>3
<1>6. Grows
  BY <1>4, <1>5
<1> QED BY <1>1, <1>6, PressStep, NoTabIsEmpty

LEMMA OpeningStep ==
  ASSUME LedgerInv, NEW v \in Clerks,
         \/ \E posted \in LedgerFlats \cup {NoFlat}, refused \in BOOLEAN :
              OpensDraft(v, posted, refused)
         \/ \E offer \in tab[v].attach, gone \in BOOLEAN : AttachesLease(v, offer, gone)
  PROVE  LedgerInv'
<1>1. DraftFits' /\ TakesPress(v, NoHand) /\ UNCHANGED <<approvedAs, signatures>>
  BY LinkStep
<1>2. DOMAIN approvedAs \subseteq captured
  BY DEF LedgerInv, PaperFits
<1> QED BY <1>1, <1>2, PressStep, NoTabIsEmpty

LEMMA ReadingStep ==
  ASSUME LedgerInv,
         \/ ReadingReplaces
         \/ \E key \in DeclaredKeys, clear \in BOOLEAN : ReadingInserts(key, clear)
  PROVE  LedgerInv'
<1>1. /\ UNCHANGED <<paperType, leasePlace, approvedAs, carried, leaseDraft, linkedBy, tab, inHand,
                     disclosed, signatures>>
      /\ begun \in Nat
  BY DEF ReadingReplaces, ReadingInserts, LedgerInv, PaperFits, paperVars, draftVars
<1>2. ASSUME /\ begun' \in Nat /\ begun <= begun'
             /\ \A r \in captured' : OfAReading(r)'
             /\ DOMAIN approvedAs \subseteq captured'
             /\ \A r : ListedFits(r) => ListedFits(r)'
             /\ \A r \in DOMAIN approvedAs : r \in legible => r \in legible'
      PROVE  LedgerInv'
  <2>1. PaperFits'
    BY <1>1, <1>2 DEF LedgerInv, PaperFits
  <2>2. \A v \in Clerks : TabFits(v)'
    BY <1>1 DEF LedgerInv, TabFits, IsIdentifierField
  <2>3. \A v \in Clerks : HeldRowsFit(v)'
    BY <1>1, <1>2 DEF LedgerInv, HeldRowsFit
  <2>4. \A s \in signatures' : SignatureFits(s)'
    BY <1>1, <1>2 DEF LedgerInv, SignatureFits, MayGoTogether, IsIdentifierField, IsContactField
  <2>5. DraftFits'
    BY <1>1, <1>2, DraftStays DEF LedgerInv
  <2> QED BY <2>1, <2>2, <2>3, <2>4, <2>5 DEF LedgerInv
<1>3. ASSUME ReadingReplaces
      PROVE  LedgerInv'
  <2>1. begun' = begun + 1
    BY <1>3 DEF ReadingReplaces
  <2>2. captured' = captured \cap DOMAIN approvedAs /\ legible' = legible \cap captured'
    BY <1>3 DEF ReadingReplaces, LedgerInv, DraftFits
  <2>3. \A r : OfAReading(r) => OfAReading(r)' /\ r[1] < begun'
    BY <1>1, <2>1 DEF OfAReading
  <2>4. \A r : ListedFits(r) => ListedFits(r)'
    BY <1>1, <2>2, <2>3 DEF ListedFits, MayGoTogether, IsIdentifierField, IsContactField
  <2> QED BY <1>1, <1>2, <2>1, <2>2, <2>3, <2>4 DEF LedgerInv, PaperFits
<1>4. ASSUME NEW key \in DeclaredKeys, NEW clear \in BOOLEAN, ReadingInserts(key, clear)
      PROVE  LedgerInv'
  <2>0. PICK one : one = <<begun, key>>
    OBVIOUS
  <2>1. /\ begun' = begun /\ captured' = captured \cup {one}
        /\ legible \subseteq legible'
    BY <1>4, <2>0 DEF ReadingInserts
  <2>2. one \in Nat \X (LeaseKeys \cup OtherKeys) /\ one[1] = begun
    BY <1>1, <2>0 DEF DeclaredKeys
  <2>3. \A r : OfAReading(r) => OfAReading(r)'
    BY <2>1 DEF OfAReading
  <2>4. OfAReading(one)'
    BY <1>1, <2>1, <2>2 DEF OfAReading
  <2>5. \A r : ListedFits(r) => ListedFits(r)'
    <3> SUFFICES ASSUME NEW r, ListedFits(r) PROVE ListedFits(r)'
      OBVIOUS
    <3>1. r \notin captured => r # one
      BY <1>1, <2>2 DEF ListedFits
    <3> QED BY <1>1, <2>1, <2>3, <3>1 DEF ListedFits, MayGoTogether, IsIdentifierField, IsContactField
  <2> QED BY <1>1, <1>2, <2>1, <2>3, <2>4, <2>5 DEF LedgerInv, PaperFits
<1> QED BY <1>3, <1>4

LEMMA NextLedger == LedgerInv /\ [LedgerNext]_ledgerVars => LedgerInv'
<1> SUFFICES ASSUME LedgerInv, [LedgerNext]_ledgerVars PROVE LedgerInv'
  OBVIOUS
<1>1. CASE UNCHANGED ledgerVars
  <2>1. UNCHANGED <<paperType, leasePlace, begun, captured, legible, approvedAs, carried, leaseDraft,
                    tab, inHand, disclosed, signatures, linkedBy>>
    BY <1>1 DEF ledgerVars
  <2>2. PaperFits' /\ (\A v \in Clerks : TabFits(v)') /\ DraftFits'
    BY <2>1, DraftStays DEF LedgerInv, PaperFits, OfAReading, TabFits, IsIdentifierField
  <2>3. /\ \A v \in Clerks : HeldRowsFit(v)'
        /\ \A s \in signatures' : SignatureFits(s)'
    BY <2>1 DEF LedgerInv, HeldRowsFit, ListedFits, OfAReading, MayGoTogether, SignatureFits,
                IsIdentifierField, IsContactField
  <2> QED BY <2>2, <2>3 DEF LedgerInv
<1>2. CASE LedgerNext
  BY <1>2, OpensStep, PressesStep, CommandStep, OpeningStep, ReadingStep DEF LedgerNext
<1> QED BY <1>1, <1>2

(* Whoever presses what on whichever page, and however often the paper is  *)
(* read again: nobody signs a value they were not shown, the bulk press    *)
(* signs no identifier, contact, name, date, address or illegible row, a   *)
(* shown identifier is in the log, a row a draft waits for has a form, and *)
(* a draft opens from a signed tenant and signed dates on a flat its       *)
(* screen offered.                                                         *)
THEOREM LedgerAlwaysHolds == LedgerInit /\ [][LedgerNext]_ledgerVars => []LedgerHolds
<1>1. LedgerInv => LedgerHolds
  <2> SUFFICES ASSUME LedgerInv PROVE LedgerHolds
    OBVIOUS
  <2>1. SignedAsSeen
    BY DEF LedgerInv, SignatureFits, MayGoTogether, SignedAsSeen
  <2>2. DisclosedIsWritten
    BY DEF LedgerInv, TabFits, DisclosedIsWritten
  <2>3. ASSUME NEW r \in LedgerGaps
        PROVE  \E f \in FilingForms : f.row = r /\ ~Refuses(r, f.value, TRUE)
    <3>1. r \in captured /\ ~IsSigned(r)
      BY DEF LedgerGaps, UnsignedDates, UnsignedNames, Unsigned, IsSigned
    <3>2. LedgerForm(r, "read") \in FilingForms /\ LedgerForm(r, "read").row = r
      BY <3>1 DEF FilingForms, LedgerForm
    <3>3. ~Refuses(r, LedgerForm(r, "read").value, TRUE)
      BY <3>1 DEF Refuses
    <3> QED BY <3>2, <3>3
  <2>4. GapsHaveForms
    BY <2>3 DEF GapsHaveForms
  <2> QED BY <2>1, <2>2, <2>4 DEF LedgerInv, DraftFits, LedgerHolds
<1> QED BY <1>1, InitLedger, NextLedger, PTL

-----------------------------------------------------------------------------
(* The people of a lease.  The seats of a paper that is not opened yet are *)
(* no party's: whoever a press creates is new.  A press holds parties that *)
(* are there, and so does a number.                                        *)
SeatsAreNew ==
  \A d \in FiledLeases : opened[d] = "no" => Of(d, Seat) \cap DOMAIN keyOf = {}

PressFits(d) ==
  press[d].reads = TRUE =>
    /\ opened[d] = "no"
    /\ \A s \in Of(d, Seat) : press[d].who[s] \in DOMAIN keyOf \cup {Nobody}

HouseholdInv ==
  /\ LeasePeopleTypeOK
  /\ \A n \in Phones : holder[n] \in DOMAIN keyOf \cup {Nobody}
  /\ SeatsAreNew
  /\ \A d \in FiledLeases : PressFits(d)

\* A seat is of its paper, and prints an identifier or none.
LEMMA SeatsOfPapers ==
  ASSUME NEW d \in FiledLeases, NEW s \in Of(d, Seat)
  PROVE  s \in Seat /\ s[1] = d /\ PairedId(s) \in NationalKeys \cup {Nobody} /\ RoleOf(s) \in Role
<1>1. PICK e \in FiledLeases, f \in Families : s \in {<<e, f, i>> : i \in 1..LeaseReading[e][f].names}
  BY DEF Of, Seat
<1>2. PICK i \in 1..LeaseReading[e][f].names : s = <<e, f, i>>
  BY <1>1
<1>3. LeaseReading[e][f].ids \in Seq(NationalKeys) /\ LeaseReading[e][f].names \in Nat
  BY LeasePeopleAssumption
<1>4. ASSUME Len(LeaseReading[e][f].ids) = LeaseReading[e][f].names
      PROVE  LeaseReading[e][f].ids[i] \in NationalKeys
  BY <1>2, <1>3, <1>4
<1>5. PairedId(s) \in NationalKeys \cup {Nobody}
  BY <1>2, <1>4 DEF PairedId
<1>6. RoleOf(s) \in Role
  BY DEF RoleOf, Role
<1> QED BY <1>5, <1>6 DEF Of

LEMMA KeyHolders ==
  ASSUME NEW k
  PROVE  /\ KeyHolder(k) \in DOMAIN keyOf \cup {Nobody}
         /\ KeyHolder(k) # Nobody => keyOf[KeyHolder(k)] = k
BY DEF KeyHolder

\* The party a seat becomes is there already, or is new and the seat's own.
LEMMA PartiesBecome ==
  ASSUME HouseholdInv, NEW d \in FiledLeases, press[d].reads = TRUE, NEW s \in Of(d, Seat)
  PROVE  /\ Becomes(d, s) \in DOMAIN keyOf \/ Becomes(d, s) = s
         /\ Becomes(d, s) \in Party
         /\ Becomes(d, s) \in DOMAIN keyOf /\ PairedId(s) # Nobody =>
              keyOf[Becomes(d, s)] = PairedId(s)
<1>1. s \in Seat /\ s \notin DOMAIN keyOf /\ DOMAIN keyOf \subseteq Party
  BY SeatsOfPapers DEF HouseholdInv, PressFits, SeatsAreNew, LeasePeopleTypeOK
<1>2. Nobody \notin DOMAIN keyOf
  BY <1>1, LeasePeopleAssumption DEF Party
<1>3. press[d].who[s] \in DOMAIN keyOf \cup {Nobody}
  BY DEF HouseholdInv, PressFits
<1> QED BY <1>1, <1>2, <1>3, KeyHolders DEF Becomes, Party

LEMMA InitHousehold == LeasePeopleInit => HouseholdInv
<1> SUFFICES ASSUME LeasePeopleInit PROVE HouseholdInv
  OBVIOUS
<1>1. \A d \in FiledLeases : Of(d, Seat) \cap Registered = {}
  BY SeatsOfPapers, LeasePeopleAssumption
<1> QED BY <1>1 DEF LeasePeopleInit, HouseholdInv, LeasePeopleTypeOK, SeatsAreNew, PressFits,
                   HandAtRest, Party

\* What a draft writes.
LEMMA DraftWrites ==
  ASSUME HouseholdInv, NEW d \in FiledLeases, OpenLeaseDraft(d)
  PROVE  /\ letting'[FlatOf[d]] \in [DOMAIN letting'[FlatOf[d]] -> Role]
         /\ DOMAIN letting' = DOMAIN letting \cup {FlatOf[d]}
         /\ \A x \in DOMAIN letting : x # FlatOf[d] => letting'[x] = letting[x]
         /\ DOMAIN letting'[FlatOf[d]] \subseteq Party
         /\ \A s \in Of(d, Seat) :
              /\ Becomes(d, s) \in DOMAIN letting'[FlatOf[d]]
              /\ letting'[FlatOf[d]][Becomes(d, s)] = RoleOf(s)
         /\ DOMAIN keyOf' = DOMAIN keyOf \cup {Becomes(d, s) : s \in Of(d, Seat)}
         /\ \A p \in DOMAIN keyOf' :
              keyOf'[p] = IF p \in DOMAIN keyOf THEN keyOf[p] ELSE PairedId(p)
<1> DEFINE seats == Of(d, Seat)
           mine  == {Becomes(d, s) : s \in seats}
           h     == FlatOf[d]
           old   == IF h \in DOMAIN letting THEN letting[h] ELSE <<>>
           role(p) == RoleOf(CHOOSE s \in seats : Becomes(d, s) = p)
           rows  == [p \in DOMAIN old \cup mine |-> IF p \in mine THEN role(p) ELSE old[p]]
<1>1. press[d].reads = TRUE
  BY DEF OpenLeaseDraft
<1>2. letting' = [x \in DOMAIN letting \cup {h} |-> IF x = h THEN rows ELSE letting[x]]
  BY DEF OpenLeaseDraft, Draft
<1>3. \A s \in seats : role(Becomes(d, s)) = RoleOf(s)
  BY DEF OpenLeaseDraft, AllDifferent
<1>4. \A s \in seats : Becomes(d, s) \in Party /\ RoleOf(s) \in Role
  BY <1>1, PartiesBecome, SeatsOfPapers
<1>5. DOMAIN old \subseteq Party /\ \A p \in DOMAIN old : old[p] \in Role
  BY DEF HouseholdInv, LeasePeopleTypeOK
<1> HIDE DEF role, old, seats
<1>6. letting'[h] = rows /\ DOMAIN rows = DOMAIN old \cup mine
  BY <1>2
<1>7. \A p \in DOMAIN rows : rows[p] \in Role
  BY <1>3, <1>4, <1>5
<1>8. rows \in [DOMAIN rows -> Role]
  BY <1>7
<1>9. keyOf' = [p \in DOMAIN keyOf \cup mine |-> IF p \in DOMAIN keyOf THEN keyOf[p] ELSE PairedId(p)]
  BY DEF OpenLeaseDraft, Draft, seats
<1>10. \A s \in seats : Becomes(d, s) \in mine
  OBVIOUS
<1>11. \A s \in seats : Becomes(d, s) \in DOMAIN rows /\ rows[Becomes(d, s)] = RoleOf(s)
  BY <1>3, <1>6, <1>10
<1>12. DOMAIN rows \subseteq Party
  BY <1>4, <1>5, <1>6
<1> USE DEF seats
<1> QED BY <1>2, <1>6, <1>8, <1>9, <1>11, <1>12

LEMMA DraftStep ==
  ASSUME HouseholdInv, NEW d \in FiledLeases, OpenLeaseDraft(d)
  PROVE  HouseholdInv'
<1> DEFINE mine == {Becomes(d, s) : s \in Of(d, Seat)}
<1>1. /\ press[d].reads = TRUE /\ opened[d] = "no"
      /\ opened' = [opened EXCEPT ![d] = "draft"] /\ press' = [press EXCEPT ![d] = HandAtRest]
      /\ signedRows' = signedRows
  BY DEF OpenLeaseDraft, HouseholdInv, PressFits
<1>2. /\ \A s \in Of(d, Seat) : Becomes(d, s) \in DOMAIN keyOf \/ Becomes(d, s) = s
      /\ \A s \in Of(d, Seat) : Becomes(d, s) \in Party
  BY <1>1, PartiesBecome
<1>3. /\ DOMAIN keyOf' = DOMAIN keyOf \cup mine
      /\ \A p \in DOMAIN keyOf' : keyOf'[p] = IF p \in DOMAIN keyOf THEN keyOf[p] ELSE PairedId(p)
  BY DraftWrites
<1>4. \A n \in Phones : holder'[n] \in mine \cup {holder[n]}
  BY DEF OpenLeaseDraft, Draft, ToWrite
<1>5. DOMAIN holder' = Phones /\ holder' = [n \in Phones |-> holder'[n]]
  BY DEF OpenLeaseDraft, Draft
<1>6. \A e \in FiledLeases : e # d => opened'[e] = opened[e] /\ press'[e] = press[e]
  BY <1>1 DEF HouseholdInv, LeasePeopleTypeOK
<1>7. opened'[d] = "draft" /\ press'[d].reads = FALSE
  BY <1>1 DEF HouseholdInv, LeasePeopleTypeOK, HandAtRest
<1>8. \A e \in FiledLeases : \A s \in Of(e, Seat) : e # d => s \notin Of(d, Seat)
  BY SeatsOfPapers
<1>9. SeatsAreNew'
  <2> SUFFICES ASSUME NEW e \in FiledLeases, opened'[e] = "no", NEW s \in Of(e, Seat)
               PROVE  s \notin DOMAIN keyOf'
    BY DEF SeatsAreNew
  <2>1. e # d /\ s \notin DOMAIN keyOf
    BY <1>6, <1>7 DEF HouseholdInv, SeatsAreNew
  <2> QED BY <1>2, <1>3, <1>8, <2>1
<1>10. \A e \in FiledLeases : PressFits(e)'
  BY <1>3, <1>6, <1>7 DEF HouseholdInv, PressFits
<1>11. \A n \in Phones : holder'[n] \in DOMAIN keyOf' \cup {Nobody}
  BY <1>3, <1>4 DEF HouseholdInv
<1>12. holder' \in [Phones -> Party \cup {Nobody}]
  <2>1. \A n \in Phones : holder'[n] \in Party \cup {Nobody}
    BY <1>2, <1>4 DEF HouseholdInv, LeasePeopleTypeOK
  <2> QED BY <1>5, <2>1
<1>13. DOMAIN keyOf' \subseteq Party
  BY <1>2, <1>3 DEF HouseholdInv, LeasePeopleTypeOK
<1>14. \A p \in DOMAIN keyOf' : keyOf'[p] \in NationalKeys \cup {Nobody}
  BY <1>2, <1>3, SeatsOfPapers DEF HouseholdInv, LeasePeopleTypeOK
<1>15. /\ DOMAIN letting' \subseteq {FlatOf[e] : e \in FiledLeases}
       /\ \A h \in DOMAIN letting' :
            DOMAIN letting'[h] \subseteq Party /\ \A p \in DOMAIN letting'[h] : letting'[h][p] \in Role
  <2> DEFINE old == letting
             new == letting'
             flat == FlatOf[d]
  <2>1. /\ \A h \in DOMAIN old :
             DOMAIN old[h] \subseteq Party /\ \A p \in DOMAIN old[h] : old[h][p] \in Role
        /\ DOMAIN old \subseteq {FlatOf[e] : e \in FiledLeases}
    BY DEF HouseholdInv, LeasePeopleTypeOK
  <2>2. /\ DOMAIN new = DOMAIN old \cup {flat} /\ \A h \in DOMAIN old : h # flat => new[h] = old[h]
        /\ DOMAIN new[flat] \subseteq Party
    BY DraftWrites
  <2>3. new[flat] \in [DOMAIN new[flat] -> Role]
    BY DraftWrites
  <2>4. \A p \in DOMAIN new[flat] : new[flat][p] \in Role
    BY <2>3
  <2>5. flat \in {FlatOf[e] : e \in FiledLeases}
    OBVIOUS
  <2> HIDE DEF old, new, flat
  <2>6. \A h \in DOMAIN new :
          DOMAIN new[h] \subseteq Party /\ \A p \in DOMAIN new[h] : new[h][p] \in Role
    BY <2>1, <2>2, <2>4
  <2>7. DOMAIN new \subseteq {FlatOf[e] : e \in FiledLeases}
    BY <2>1, <2>2, <2>5
  <2> QED BY <2>6, <2>7 DEF new
<1>16. opened' \in [FiledLeases -> {"no", "draft", "attached"}] /\ DOMAIN press' = FiledLeases
  BY <1>1 DEF HouseholdInv, LeasePeopleTypeOK
<1>17. LeasePeopleTypeOK'
  BY <1>1, <1>12, <1>13, <1>14, <1>15, <1>16 DEF HouseholdInv, LeasePeopleTypeOK
<1> QED BY <1>9, <1>10, <1>11, <1>17 DEF HouseholdInv

\* A press that reads keeps parties that are there.
LEMMA ReadStep ==
  ASSUME HouseholdInv, NEW d \in FiledLeases, ReadPeople(d)
  PROVE  HouseholdInv'
<1>1. PICK link \in [{s \in Of(d, Seat) : NameOnly(s)} -> DOMAIN keyOf \cup {Nobody}] :
        press' = [press EXCEPT ![d] =
          [reads |-> TRUE,
           who |-> [s \in Of(d, Seat) |-> IF s \in DOMAIN link THEN link[s] ELSE Resolved(s)],
           phone |-> [s \in Of(d, Seat) |-> PairedPhone(s)],
           held |-> [s \in Of(d, Seat) |-> HolderOf(PairedPhone(s))]]]
  BY DEF ReadPeople
<1>2. opened[d] = "no" /\ UNCHANGED <<signedRows, keyOf, holder, letting, opened>>
  BY DEF ReadPeople
<1>3. \A s \in Of(d, Seat) : Resolved(s) \in DOMAIN keyOf \cup {Nobody}
  <2> SUFFICES ASSUME NEW s \in Of(d, Seat) PROVE Resolved(s) \in DOMAIN keyOf \cup {Nobody}
    OBVIOUS
  <2>1. HolderOf(PairedPhone(s)) \in DOMAIN keyOf \cup {Nobody}
    <3>1. PairedPhone(s) \in Phones \cup {Nobody}
      <4>1. PICK e \in FiledLeases, f \in Families :
              s \in {<<e, f, i>> : i \in 1..LeaseReading[e][f].names}
        BY DEF Of, Seat
      <4>2. PICK i \in 1..LeaseReading[e][f].names : s = <<e, f, i>>
        BY <4>1
      <4>3. LeaseReading[e][f].phones \in Seq(Phones) /\ LeaseReading[e][f].names \in Nat
        BY LeasePeopleAssumption
      <4>4. ASSUME Len(LeaseReading[e][f].phones) = LeaseReading[e][f].names
            PROVE  LeaseReading[e][f].phones[i] \in Phones
        BY <4>2, <4>3, <4>4
      <4> QED BY <4>2, <4>4 DEF PairedPhone
    <3> QED BY <3>1 DEF HolderOf, HouseholdInv
  <2> QED BY <2>1, KeyHolders DEF Resolved
<1>4. /\ DOMAIN press' = FiledLeases
      /\ \A e \in FiledLeases : e # d => press'[e] = press[e]
      /\ \A s \in Of(d, Seat) : press'[d].who[s] \in DOMAIN keyOf \cup {Nobody}
  BY <1>1, <1>3 DEF HouseholdInv, LeasePeopleTypeOK
<1>5. \A e \in FiledLeases : PressFits(e)'
  BY <1>2, <1>4 DEF HouseholdInv, PressFits
<1> QED BY <1>2, <1>4, <1>5 DEF HouseholdInv, LeasePeopleTypeOK, SeatsAreNew

LEMMA QuietStep ==
  ASSUME HouseholdInv,
         \/ \E s \in Seat \cup PhoneRow : SignRow(s)
         \/ \E d \in FiledLeases : DraftRolledBack(d) \/ AttachLease(d)
         \/ \E p \in Party, k \in NationalKeys : OfficeSetsKey(p, k)
         \/ \E p \in Party, n \in Phones : OfficeAddsNumber(p, n)
         \/ \E n \in Phones : OfficeClosesNumber(n)
  PROVE  HouseholdInv'
<1>1. ASSUME NEW s \in Seat \cup PhoneRow, SignRow(s)
      PROVE  HouseholdInv'
  <2>1. signedRows' \in [name : SUBSET Seat, phone : SUBSET PhoneRow]
    BY <1>1 DEF SignRow, HouseholdInv, LeasePeopleTypeOK
  <2> QED BY <1>1, <2>1 DEF SignRow, HouseholdInv, LeasePeopleTypeOK, SeatsAreNew, PressFits
<1>2. ASSUME NEW d \in FiledLeases, DraftRolledBack(d)
      PROVE  HouseholdInv'
  <2>1. /\ DOMAIN press' = FiledLeases /\ press'[d].reads = FALSE
        /\ \A e \in FiledLeases : e # d => press'[e] = press[e]
    BY <1>2 DEF DraftRolledBack, HouseholdInv, LeasePeopleTypeOK, HandAtRest
  <2> QED BY <1>2, <2>1 DEF DraftRolledBack, HouseholdInv, LeasePeopleTypeOK, SeatsAreNew, PressFits
<1>3. ASSUME NEW d \in FiledLeases, AttachLease(d)
      PROVE  HouseholdInv'
  <2>1. /\ opened' \in [FiledLeases -> {"no", "draft", "attached"}] /\ opened'[d] = "attached"
        /\ \A e \in FiledLeases : e # d => opened'[e] = opened[e]
    BY <1>3 DEF AttachLease, HouseholdInv, LeasePeopleTypeOK
  <2> QED BY <1>3, <2>1 DEF AttachLease, HouseholdInv, LeasePeopleTypeOK, SeatsAreNew, PressFits
<1>4. ASSUME NEW p \in Party, NEW k \in NationalKeys, OfficeSetsKey(p, k)
      PROVE  HouseholdInv'
  <2>1. DOMAIN keyOf' = DOMAIN keyOf /\ \A q \in DOMAIN keyOf' : keyOf'[q] \in NationalKeys \cup {Nobody}
    BY <1>4 DEF OfficeSetsKey, HouseholdInv, LeasePeopleTypeOK
  <2> QED BY <1>4, <2>1 DEF OfficeSetsKey, HouseholdInv, LeasePeopleTypeOK, SeatsAreNew, PressFits
<1>5. ASSUME NEW p \in Party, NEW n \in Phones, OfficeAddsNumber(p, n) \/ OfficeClosesNumber(n)
      PROVE  HouseholdInv'
  <2>1. /\ holder' \in [Phones -> Party \cup {Nobody}]
        /\ \A m \in Phones : holder'[m] \in DOMAIN keyOf \cup {Nobody}
        /\ UNCHANGED <<signedRows, keyOf, press, letting, opened>>
    BY <1>5 DEF OfficeAddsNumber, OfficeClosesNumber, HouseholdInv, LeasePeopleTypeOK
  <2> QED BY <2>1 DEF HouseholdInv, LeasePeopleTypeOK, SeatsAreNew, PressFits
<1>6. ASSUME NEW n \in Phones, OfficeClosesNumber(n)
      PROVE  HouseholdInv'
  <2>1. /\ holder' \in [Phones -> Party \cup {Nobody}]
        /\ \A m \in Phones : holder'[m] \in DOMAIN keyOf \cup {Nobody}
        /\ UNCHANGED <<signedRows, keyOf, press, letting, opened>>
    BY <1>6 DEF OfficeClosesNumber, HouseholdInv, LeasePeopleTypeOK
  <2> QED BY <2>1 DEF HouseholdInv, LeasePeopleTypeOK, SeatsAreNew, PressFits
<1> QED BY <1>1, <1>2, <1>3, <1>4, <1>5, <1>6

LEMMA NextHousehold == HouseholdInv /\ [LeasePeopleNext]_leasePeopleVars => HouseholdInv'
<1> SUFFICES ASSUME HouseholdInv, [LeasePeopleNext]_leasePeopleVars PROVE HouseholdInv'
  OBVIOUS
<1>1. CASE UNCHANGED leasePeopleVars
  BY <1>1 DEF leasePeopleVars, HouseholdInv, LeasePeopleTypeOK, SeatsAreNew, PressFits
<1>2. CASE LeasePeopleNext
  BY <1>2, ReadStep, DraftStep, QuietStep DEF LeasePeopleNext
<1> QED BY <1>1, <1>2

(* Signatures, parties, numbers, presses and lettings keep their types:    *)
(* whoever the office or a press writes, a letting's people and a number's *)
(* holder are parties.                                                     *)
THEOREM LeasePeopleTypeCorrect == LeasePeopleSpec => []LeasePeopleTypeOK
<1>1. HouseholdInv => LeasePeopleTypeOK
  BY DEF HouseholdInv
<1> QED BY <1>1, InitHousehold, NextHousehold, PTL DEF LeasePeopleSpec

(* Whatever the office typed while the press was under way, a draft comes  *)
(* out with as many parties as its paper names people, each in the paper's *)
(* role, and the identifier it prints is the party's own.                  *)
THEOREM DraftsAreWhole == LeasePeopleSpec => HouseholdIsWhole
<1>1. ASSUME HouseholdInv, LeasePeopleNext, NEW d \in FiledLeases,
             opened[d] = "no", opened'[d] = "draft"
      PROVE  \E party \in [Of(d, Seat) -> DOMAIN letting'[FlatOf[d]]] :
               /\ \A s, t \in DOMAIN party : s # t => party[s] # party[t]
               /\ \A s \in DOMAIN party :
                    /\ letting'[FlatOf[d]][party[s]] = RoleOf(s)
                    /\ PairedId(s) # Nobody => keyOf'[party[s]] = PairedId(s)
  <2>1. OpenLeaseDraft(d)
    BY <1>1 DEF LeasePeopleNext, SignRow, ReadPeople, OpenLeaseDraft, DraftRolledBack, AttachLease,
                OfficeSetsKey, OfficeAddsNumber, OfficeClosesNumber, HouseholdInv, LeasePeopleTypeOK
  <2> DEFINE party == [s \in Of(d, Seat) |-> Becomes(d, s)]
  <2>2. /\ \A s \in Of(d, Seat) : /\ Becomes(d, s) \in DOMAIN letting'[FlatOf[d]]
                                  /\ letting'[FlatOf[d]][Becomes(d, s)] = RoleOf(s)
        /\ DOMAIN keyOf' = DOMAIN keyOf \cup {Becomes(d, s) : s \in Of(d, Seat)}
        /\ \A p \in DOMAIN keyOf' : keyOf'[p] = IF p \in DOMAIN keyOf THEN keyOf[p] ELSE PairedId(p)
    BY <1>1, <2>1, DraftWrites
  <2>3. \A s, t \in Of(d, Seat) : s # t => Becomes(d, s) # Becomes(d, t)
    BY <2>1 DEF OpenLeaseDraft, AllDifferent
  <2>4. ASSUME NEW s \in Of(d, Seat), PairedId(s) # Nobody
        PROVE  keyOf'[Becomes(d, s)] = PairedId(s)
    BY <1>1, <2>1, <2>2, <2>4, PartiesBecome DEF OpenLeaseDraft
  <2>5. party \in [Of(d, Seat) -> DOMAIN letting'[FlatOf[d]]]
    BY <2>2
  <2> QED BY <2>2, <2>3, <2>4, <2>5
<1>2. HouseholdInv /\ [LeasePeopleNext]_leasePeopleVars =>
        [\A d \in FiledLeases : opened[d] = "no" /\ opened'[d] = "draft" =>
           LET rows == letting'[FlatOf[d]]
           IN  \E party \in [Of(d, Seat) -> DOMAIN rows] :
                 /\ \A s, t \in DOMAIN party : s # t => party[s] # party[t]
                 /\ \A s \in DOMAIN party :
                      /\ rows[party[s]] = RoleOf(s)
                      /\ PairedId(s) # Nobody => keyOf'[party[s]] = PairedId(s)]_leasePeopleVars
  BY <1>1
<1> QED BY <1>2, InitHousehold, NextHousehold, PTL DEF LeasePeopleSpec, HouseholdIsWhole

=============================================================================
