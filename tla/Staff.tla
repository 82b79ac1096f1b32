-------------------------------- MODULE Staff --------------------------------
(***************************************************************************)
(* The office's accounts and sessions: an operator goes to Google and      *)
(* comes back, the row of the address decides who may enter, the first     *)
(* Google account that enters is bound to the row, and a session is minted *)
(* and asked again on every request.                                       *)
(*                                                                         *)
(* A callback makes a call to Google and then reads and writes the         *)
(* database in separate statements without a transaction, so callbacks,    *)
(* the adding of operators and requests interleave at each of them.        *)
(***************************************************************************)
EXTENDS Naturals, FiniteSets

CONSTANTS
  Addresses,       \* the addresses Google verifies
  Subjects,        \* Google accounts: the sub of an ID token
  Browsers,        \* the operators' browsers, each with one cookie jar
  Roles,           \* the roles of the matrix (roles.ts)
  NoOne,           \* null
  OfficeAbsolute,  \* SESSION_ABSOLUTE_MS, in hours
  OfficeIdle,      \* SESSION_IDLE_MS, in hours
  MaxTickets,      \* bound on sign-ins begun
  MaxHour          \* bound on the clock

ASSUME StaffAssumption ==
  /\ NoOne \notin Subjects \cup Addresses \cup Roles
  /\ OfficeAbsolute \in Nat /\ OfficeIdle \in Nat
  /\ MaxTickets \in Nat /\ MaxHour \in Nat

VARIABLES
  holders,    \* Google: which account holds each address now
  accounts,   \* staff_account: address -> row
  desks,      \* browser -> its cookies and the request it has under way
  redirects,  \* state.nonce pairs minted so far; pair n is ticket n
  spentCodes, \* Google: the tickets whose one-time code was exchanged
  logins,     \* staff_session: the sequence number is the token
  hour

staffVars == <<holders, accounts, desks, redirects, spentCodes, logins, hour>>

Account == [row : BOOLEAN, subject : Subjects \cup {NoOne},
            role : Roles \cup {NoOne}, disabled : BOOLEAN]

NoAccount == [row |-> FALSE, subject |-> NoOne, role |-> NoOne, disabled |-> FALSE]

Login == [id : 1..MaxTickets, address : Addresses, expires : Nat, seen : Nat,
          revoked : BOOLEAN]

Steps == {"idle", "exchange", "allow", "bind", "mint", "add"}

Desk == [ticket : 0..MaxTickets, token : 0..MaxTickets, step : Steps,
         address : Addresses \cup {NoOne}, subject : Subjects \cup {NoOne},
         read : Account, role : Roles \cup {NoOne}]

IdleDesk == [ticket |-> 0, token |-> 0, step |-> "idle", address |-> NoOne,
             subject |-> NoOne, read |-> NoAccount, role |-> NoOne]

StaffTypeOK ==
  /\ holders \in [Addresses -> Subjects]
  /\ accounts \in [Addresses -> Account]
  /\ desks \in [Browsers -> Desk]
  /\ redirects \in 0..MaxTickets
  /\ spentCodes \subseteq 1..MaxTickets
  /\ logins \subseteq Login
  /\ hour \in 0..MaxHour

\* The first operator's row is written by hand: an address, a role, no subject.
StaffInit ==
  /\ holders \in [Addresses -> Subjects]
  /\ \E a \in Addresses, r \in Roles :
       accounts = [x \in Addresses |->
                     IF x = a THEN [NoAccount EXCEPT !.row = TRUE, !.role = r] ELSE NoAccount]
  /\ desks = [b \in Browsers |-> IdleDesk]
  /\ redirects = 0
  /\ spentCodes = {}
  /\ logins = {}
  /\ hour = 0

AtDesk(b, step) == desks[b].step = step

StepTo(b, step) == desks' = [desks EXCEPT ![b].step = step]

\* The refusal, and every other end of a callback: the one-shot cookie is cleared.
LeaveDesk(b, token) == desks' = [desks EXCEPT ![b] = [IdleDesk EXCEPT !.token = token]]

-----------------------------------------------------------------------------
\* Sign-in.

\* GET /staff/auth/start: state and nonce minted together, kept in a cookie only.
AuthStart(b) ==
  /\ AtDesk(b, "idle") /\ redirects < MaxTickets
  /\ redirects' = redirects + 1
  /\ desks' = [desks EXCEPT ![b].ticket = redirects + 1]
  /\ UNCHANGED <<holders, accounts, spentCodes, logins, hour>>

\* GET /staff/auth/callback: Google sends the operator back with the state of
\* the redirect it answers, which may be an older one.
AuthCallback(b, t, a) ==
  /\ AtDesk(b, "idle") /\ t \in 1..redirects
  /\ IF desks[b].ticket = t
     THEN desks' = [desks EXCEPT ![b].step = "exchange", ![b].address = a]
     ELSE LeaveDesk(b, desks[b].token)
  /\ UNCHANGED <<holders, accounts, redirects, spentCodes, logins, hour>>

\* exchangeCode and acceptClaims: a code is exchanged once; the token names the
\* Google account that holds the address at this moment.
ExchangeCode(b) ==
  LET t == desks[b].ticket IN
  /\ AtDesk(b, "exchange")
  /\ IF t \in spentCodes
     THEN LeaveDesk(b, desks[b].token) /\ UNCHANGED spentCodes
     ELSE /\ spentCodes' = spentCodes \cup {t}
          /\ desks' = [desks EXCEPT ![b].step = "allow",
                                    ![b].subject = holders[desks[b].address]]
  /\ UNCHANGED <<holders, accounts, redirects, logins, hour>>

\* requireUsableAccount: one refusal for no row, disabled and no role.
Usable(row) == row.row /\ ~row.disabled /\ row.role # NoOne

\* accountByEmail, and the mismatch the callback refuses.
ReadAllowlist(b) ==
  LET row == accounts[desks[b].address] IN
  /\ AtDesk(b, "allow")
  /\ IF ~Usable(row) \/ row.subject \notin {NoOne, desks[b].subject}
     THEN LeaveDesk(b, desks[b].token)
     ELSE desks' = [desks EXCEPT ![b].read = row,
                                 ![b].step = IF row.subject = NoOne THEN "bind" ELSE "mint"]
  /\ UNCHANGED <<holders, accounts, redirects, spentCodes, logins, hour>>

\* UPDATE ... SET idp_local_id WHERE idp_local_id IS NULL.
Linked(row, subject) == IF row.subject = NoOne THEN [row EXCEPT !.subject = subject] ELSE row

\* The same statement without its condition.
Relinked(row, subject) == [row EXCEPT !.subject = subject]

LinksTo(row, subject) == Linked(row, subject)

\* linkLocalId.  idp_local_id is UNIQUE: an account bound elsewhere fails the
\* request.
LinkLocalId(b) ==
  LET a == desks[b].address
      row == LinksTo(accounts[a], desks[b].subject)
  IN /\ AtDesk(b, "bind")
     /\ IF \E x \in Addresses \ {a} : accounts[x].subject = row.subject
        THEN LeaveDesk(b, desks[b].token) /\ UNCHANGED accounts
        ELSE accounts' = [accounts EXCEPT ![a] = row] /\ StepTo(b, "mint")
     /\ UNCHANGED <<holders, redirects, spentCodes, logins, hour>>

\* mintSession and the audit line; the reply clears one cookie and sets another.
MintSession(b) ==
  LET t == desks[b].ticket IN
  /\ AtDesk(b, "mint")
  /\ logins' = logins \cup {[id |-> t, address |-> desks[b].address,
                             expires |-> hour + OfficeAbsolute, seen |-> hour,
                             revoked |-> FALSE]}
  /\ LeaveDesk(b, t)
  /\ UNCHANGED <<holders, accounts, redirects, spentCodes, hour>>

-----------------------------------------------------------------------------
\* Requests.

\* resolveSession and requireStaff: the session a cookie stands for now.
LoginStands(l) ==
  /\ ~l.revoked /\ l.expires > hour
  /\ ~accounts[l.address].disabled
  /\ hour - l.seen <= OfficeIdle

Granted(b) == {l \in logins : l.id = desks[b].token /\ LoginStands(l)
                              /\ accounts[l.address].role # NoOne}

\* The guard passes a request and touches the row.
TouchSession(b) ==
  \E l \in Granted(b) :
    /\ AtDesk(b, "idle")
    /\ logins' = (logins \ {l}) \cup {[l EXCEPT !.seen = hour]}
    /\ UNCHANGED <<holders, accounts, desks, redirects, spentCodes, hour>>

\* POST /staff/logout, which needs no permission.
Logout(b) ==
  /\ AtDesk(b, "idle") /\ desks[b].token # 0
  /\ logins' = {IF l.id = desks[b].token THEN [l EXCEPT !.revoked = TRUE] ELSE l : l \in logins}
  /\ desks' = [desks EXCEPT ![b].token = 0]
  /\ UNCHANGED <<holders, accounts, redirects, spentCodes, hour>>

\* POST /staff/operators: the guard passes and addOperator reads the row.
AddOperator(b, a, r) ==
  /\ AtDesk(b, "idle") /\ Granted(b) # {}
  /\ desks' = [desks EXCEPT ![b].step = "add", ![b].address = a,
                            ![b].read = accounts[a], ![b].role = r]
  /\ UNCHANGED <<holders, accounts, redirects, spentCodes, logins, hour>>

\* It moves the role of the row it read, or inserts one; the address is UNIQUE,
\* so of two that insert the later fails.
WriteOperator(b) ==
  LET a == desks[b].address
      new == [NoAccount EXCEPT !.row = TRUE, !.role = desks[b].role]
  IN /\ AtDesk(b, "add")
     /\ accounts' = [accounts EXCEPT ![a] =
          IF desks[b].read.row THEN [@ EXCEPT !.role = desks[b].role]
          ELSE IF @.row THEN @ ELSE new]
     /\ desks' = [desks EXCEPT ![b] = [IdleDesk EXCEPT !.token = desks[b].token,
                                                       !.ticket = desks[b].ticket]]
     /\ UNCHANGED <<holders, redirects, spentCodes, logins, hour>>

-----------------------------------------------------------------------------
\* What no code of the repository does.

\* A row's access is withdrawn by hand.
Withdraw(a) ==
  /\ accounts[a].row /\ ~accounts[a].disabled
  /\ accounts' = [accounts EXCEPT ![a].disabled = TRUE]
  /\ UNCHANGED <<holders, desks, redirects, spentCodes, logins, hour>>

\* An address is deleted and created again under another Google account.
RecreateAddress(a, s) ==
  /\ holders[a] # s
  /\ holders' = [holders EXCEPT ![a] = s]
  /\ UNCHANGED <<accounts, desks, redirects, spentCodes, logins, hour>>

StaffHourPasses ==
  /\ hour < MaxHour
  /\ hour' = hour + 1
  /\ UNCHANGED <<holders, accounts, desks, redirects, spentCodes, logins>>

StaffNext ==
  \/ \E b \in Browsers :
       \/ AuthStart(b) \/ ExchangeCode(b) \/ ReadAllowlist(b) \/ LinkLocalId(b)
       \/ MintSession(b) \/ TouchSession(b) \/ Logout(b) \/ WriteOperator(b)
       \/ \E a \in Addresses :
            \/ \E t \in 1..MaxTickets : AuthCallback(b, t, a)
            \/ \E r \in Roles : AddOperator(b, a, r)
  \/ \E a \in Addresses : Withdraw(a) \/ \E s \in Subjects : RecreateAddress(a, s)
  \/ StaffHourPasses

StaffSpec == StaffInit /\ [][StaffNext]_staffVars

-----------------------------------------------------------------------------
\* A row is bound to the first Google account that enters with its address and
\* is never bound again, and no Google account is bound to two rows, however
\* the callbacks of several browsers interleave (accounts.ts:173-179).
RowIsBoundOnce ==
  [][ /\ \A a \in Addresses :
           accounts[a].subject # NoOne => accounts'[a].subject = accounts[a].subject
      /\ \A a, b \in Addresses :
           a # b /\ accounts'[a].subject # NoOne => accounts'[a].subject # accounts'[b].subject
    ]_staffVars
=============================================================================
