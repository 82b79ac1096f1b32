----------------------------- MODULE PortalCalls -----------------------------
(***************************************************************************)
(* What a tenant sees of their calls and how they write on one: the        *)
(* portal's home, its two lists, a call's thread with the follow-up under  *)
(* it, the report that continues a closed call, and the question           *)
(* (portal/internal/routes.ts, call-screen.ts, calls/internal/             *)
(* portal-read.ts, tenant-status.ts).  A post goes through the intake door *)
(* (followThread and the steps after it), beside the office's commands.    *)
(*                                                                         *)
(* One session, so one number.  Abstracted: texts, files (ReportFiles),    *)
(* the duty reply (nothing is sent on PORTAL), the visit no command        *)
(* writes, and the order in which a thread's messages arrived.             *)
(***************************************************************************)
EXTENDS Naturals, FiniteSets, Sequences

CONSTANTS
  Persons,    \* parties
  Homes,      \* lettings
  PostKeys,   \* keys printed on forms
  Presses,    \* presses of a send button
  Nothing,    \* a null reference
  MaxTickets, \* bound: service calls
  Caller,     \* the person the session's number is of at first
  MaxMoves    \* bound: what the office and the world do

ASSUME NothingAssumption ==
  Nothing \notin Nat \cup Persons \cup Homes \cup PostKeys
ASSUME CallerAssumption == Caller \in Persons
ASSUME BoundsAssumption == MaxTickets \in Nat \ {0} /\ MaxMoves \in Nat

VARIABLES
  number,   \* whose the session's number is today
  homes,    \* each letting: its party, and whether it is open today
  tickets,  \* the calls' rows, in the order they were opened
  mail,     \* the stored messages, by key
  forms,    \* what the page that printed a key was for
  presses,  \* the presses in hand: step, key and what was read
  answers,  \* what the last press of a key was told
  upset,    \* the calls the office or the number moved
  closedBetween, \* the keys whose call was open when read, not at the attach
  moves

portalCallVars == <<number, homes, tickets, mail, forms, presses,
                    answers, upset, closedBetween, moves>>
officeVars == <<forms, presses, answers, closedBetween>>

Tickets == DOMAIN tickets

TicketStates == {"NEW", "IDENTIFIED", "TRIAGED", "CLOSED"}
TenantExits == {"ANSWERED", "DUPLICATE"}
Ticket ==
  [state: TicketStates, requester: Persons \cup {Nothing}, returned: BOOLEAN,
   predecessor: Tickets \cup {Nothing}, exit: TenantExits \cup {"none"},
   survivor: Tickets \cup {Nothing}, opener: PostKeys \cup {Nothing}]
NewTicket ==
  [state |-> "NEW", requester |-> Nothing, returned |-> FALSE,
   predecessor |-> Nothing, exit |-> "none", survivor |-> Nothing,
   opener |-> Nothing]

\* A function with one more pair, or with one pair fewer.
With(f, x, y) == [z \in DOMAIN f \cup {x} |-> IF z = x THEN y ELSE f[z]]
Without(f, x) == [z \in DOMAIN f \ {x} |-> f[z]]
FromTo(f, S, T) == DOMAIN f \subseteq S /\ \A x \in DOMAIN f : f[x] \in T
Says(word, c) == [word |-> word, ticket |-> c]
Words == {"nothing", "retry", "closed", "missing", "call"}

PortalCallsTypeOK ==
  /\ number \in Persons \cup {Nothing}
  /\ homes \in [Homes -> [party: Persons, open: BOOLEAN]]
  /\ tickets \in Seq(Ticket) /\ Len(tickets) <= MaxTickets
  /\ FromTo(mail, PostKeys, [at: {"held", "filtered", "on"},
                             ticket: Tickets \cup {Nothing}])
  /\ FromTo(forms, PostKeys, [kind: {"follow", "report", "ask"},
                              about: Tickets \cup {Nothing}])
  /\ FromTo(presses, Presses,
       [pc: {"store", "thread", "attach", "sort", "settle"}, key: PostKeys,
        open: Tickets \cup {Nothing}, pred: Tickets \cup {Nothing}])
  /\ FromTo(answers, PostKeys, [word: Words, ticket: Tickets \cup {Nothing}])
  /\ upset \subseteq Tickets /\ closedBetween \subseteq PostKeys
  /\ moves \in 0..MaxMoves

\* A call the office opened by hand or that came by another channel.
OfficeTickets ==
  {[NewTicket EXCEPT !.state = "IDENTIFIED", !.requester = p] : p \in Persons}

PortalCallsInit ==
  /\ number = Caller
  /\ homes \in [Homes -> [party: Persons, open: {TRUE}]]
  /\ \E h \in Homes : homes[h].party = Caller
  /\ \E old \in OfficeTickets : tickets = <<old>>
  /\ mail = <<>> /\ forms = <<>> /\ presses = <<>> /\ answers = <<>>
  /\ upset = {} /\ closedBetween = {} /\ moves = 0

-----------------------------------------------------------------------------
(* openPortal: the lettings the number reaches.  The one chosen is the     *)
(* cookie's (POST /tenancy, in any tab) or the first: any of the rows.     *)
(* The letting a report is stored on is left out.                          *)
Rows == {h \in Homes : homes[h].open /\ homes[h].party = number}
ReachedParties == {homes[h].party : h \in Rows}

\* CALL_SQL: by requester, and a returned call is on no page of theirs.
Listed(c, parties) ==
  tickets[c].requester \in parties /\ ~tickets[c].returned
Readable(c) == Listed(c, ReachedParties)
ListedFor(h) == {c \in Tickets : Listed(c, {homes[h].party})}

Live(c) == tickets[c].state # "CLOSED"
OpenTab(h) == {c \in ListedFor(h) : Live(c)}
ClosedTab(h) == ListedFor(h) \ OpenTab(h)
HomeCards(h) == {cards \in SUBSET OpenTab(h) :
                   \/ Cardinality(cards) = 2
                   \/ Cardinality(cards) < 2 /\ cards = OpenTab(h)}

\* tenantStatus, and what the thread's page offers under it.
TenantStatus(c) ==
  CASE tickets[c].state \in {"NEW", "IDENTIFIED"} -> "received"
    [] ~Live(c) /\ tickets[c].exit = "ANSWERED" -> "answered"
    [] ~Live(c) /\ tickets[c].exit = "DUPLICATE" -> "merged"
    [] OTHER -> "handling"
StatusIsClosed(c) ==
  TenantStatus(c) \in {"answered", "forwarded", "merged", "cancelled"}
StepOf(c) ==
  CASE TenantStatus(c) = "received" -> 1
    [] TenantStatus(c) = "handling" -> 2
    [] OTHER -> 4
Bubbles(c) == {k \in DOMAIN mail : mail[k].ticket = c}
ThreadFoot(c) == IF Live(c) THEN "composer" ELSE "continue"
ThreadPage(c) ==
  [status |-> TenantStatus(c), step |-> StepOf(c), bubbles |-> Bubbles(c),
   foot |-> ThreadFoot(c)]

-----------------------------------------------------------------------------
(* Pages that print a key.                                                 *)
PrintKey(k, kind, about) ==
  /\ k \notin DOMAIN forms
  /\ forms' = With(forms, k, [kind |-> kind, about |-> about])
  /\ UNCHANGED <<number, homes, tickets, mail, presses, answers, upset,
                 closedBetween, moves>>

OpenThread(k, c) ==
  Readable(c) /\ ThreadPage(c).foot = "composer" /\ PrintKey(k, "follow", c)
OpenReport(k) == Rows # {} /\ PrintKey(k, "report", Nothing)
ContinueCall(k, c) == Readable(c) /\ ~Live(c) /\ PrintKey(k, "report", c)
OpenAsk(k) == PrintKey(k, "ask", Nothing)

-----------------------------------------------------------------------------
(* A press.  What the route reads, it reads again and not from the page.   *)
RoutesAnswer(form) ==
  CASE form.kind = "ask" -> "goes on"
    [] Rows = {} -> "nothing"
    [] form.about = Nothing -> "goes on"
    [] ~Readable(form.about) ->
         IF form.kind = "follow" THEN "missing" ELSE "retry"
    [] form.kind = "follow" /\ ~Live(form.about) -> "closed"
    [] form.kind = "report" /\ Live(form.about) -> "retry"
    [] OTHER -> "goes on"

Press(r, k) ==
  LET word == RoutesAnswer(forms[k]) IN
  /\ r \notin DOMAIN presses /\ k \in DOMAIN forms
  /\ IF word = "goes on"
       THEN /\ presses' = With(presses, r, [pc |-> "store", key |-> k,
                                           open |-> Nothing, pred |-> Nothing])
            /\ UNCHANGED answers
       ELSE /\ answers' = With(answers, k, Says(word, Nothing))
            /\ UNCHANGED presses
  /\ UNCHANGED <<number, homes, tickets, mail, forms, upset,
                 closedBetween, moves>>

PressAt(r, step) == r \in DOMAIN presses /\ presses[r].pc = step
Goes(r, step) == presses' = [presses EXCEPT ![r].pc = step]
\* The outcome names a call, or the page says to try again.
IsTold(r, c) ==
  /\ presses' = Without(presses, r)
  /\ answers' = With(answers, presses[r].key,
                     Says(IF c = Nothing THEN "retry" ELSE "call", c))
Settled(k) == k \in DOMAIN mail /\ mail[k].at \in {"filtered", "on"}
WorldRests == UNCHANGED <<number, homes, forms, upset, moves>>

StoreMail(r) ==
  LET k == presses[r].key IN
  /\ PressAt(r, "store")
  /\ IF Settled(k)
       THEN IsTold(r, mail[k].ticket) /\ UNCHANGED mail
       ELSE /\ mail' = With(mail, k, [at |-> "held", ticket |-> Nothing])
            /\ Goes(r, "thread") /\ UNCHANGED answers
  /\ WorldRests /\ UNCHANGED <<tickets, closedBetween>>

\* A follow-up's thread is the call's, a report's and a question's its own.
ThreadOfKey(k) == IF forms[k].kind = "follow" THEN forms[k].about ELSE k
ThreadTickets(k) ==
  {mail[j].ticket : j \in {i \in DOMAIN mail :
     ThreadOfKey(i) = ThreadOfKey(k)}} \ {Nothing}
Attachable(c) == Live(c) /\ ~tickets[c].returned
OneOf(set) == IF set = {} THEN {Nothing} ELSE set
PredecessorsRead(k) ==
  IF \E c \in ThreadTickets(k) : Attachable(c) THEN {Nothing}
    ELSE OneOf({c \in ThreadTickets(k) : ~Live(c)})

PredecessorForgotten(c) == Nothing
FollowedPredecessor(c) == c

\* followThread, for a press that names a call; threadOf for the others.
ThreadRead(k, c) ==
  IF c = Nothing
    THEN [open: OneOf({d \in ThreadTickets(k) : Attachable(d)}),
          pred: PredecessorsRead(k)]
    ELSE IF Live(c) THEN {[open |-> c, pred |-> Nothing]}
    ELSE {[open |-> Nothing, pred |-> FollowedPredecessor(c)]}

ReadPortalThread(r) ==
  LET k == presses[r].key
      c == forms[k].about
  IN
  /\ PressAt(r, "thread")
  /\ IF c # Nothing /\ tickets[c].returned
       THEN IsTold(r, Nothing)
       ELSE /\ \E thread \in ThreadRead(k, c) :
                 presses' = [presses EXCEPT
                   ![r].pc = IF thread.open = Nothing THEN "settle" ELSE "attach",
                   ![r].open = thread.open, ![r].pred = thread.pred]
            /\ UNCHANGED answers
  /\ WorldRests /\ UNCHANGED <<tickets, mail, closedBetween>>

AttachMail(r) ==
  LET k == presses[r].key
      c == presses[r].open
  IN
  /\ PressAt(r, "attach")
  /\ IF Settled(k)
       THEN IsTold(r, mail[k].ticket) /\ UNCHANGED <<mail, closedBetween>>
     ELSE IF Attachable(c)
       THEN /\ mail' = [mail EXCEPT ![k] = [at |-> "on", ticket |-> c]]
            /\ IsTold(r, c) /\ UNCHANGED closedBetween
       ELSE /\ closedBetween' = closedBetween \cup {k}
            /\ Goes(r, "sort") /\ UNCHANGED <<mail, answers>>
  /\ WorldRests /\ UNCHANGED tickets

\* The thread is read a second time, by its messages and not by the call.
SortAgain(r) ==
  /\ PressAt(r, "sort")
  /\ \E pred \in PredecessorsRead(presses[r].key) :
       presses' = [presses EXCEPT ![r].pc = "settle", ![r].pred = pred]
  /\ WorldRests /\ UNCHANGED <<tickets, mail, answers, closedBetween>>

TicketOf(r) ==
  [NewTicket EXCEPT
    !.state = IF number = Nothing THEN "NEW" ELSE "IDENTIFIED",
    !.requester = number, !.predecessor = presses[r].pred,
    !.opener = presses[r].key]

SettleMail(r, noise) ==
  LET k == presses[r].key IN
  /\ PressAt(r, "settle")
  /\ IF Settled(k)
       THEN IsTold(r, mail[k].ticket) /\ UNCHANGED <<mail, tickets>>
     ELSE IF noise /\ forms[k].kind # "report"
       THEN /\ mail' = [mail EXCEPT ![k].at = "filtered"]
            /\ IsTold(r, Nothing) /\ UNCHANGED tickets
       ELSE LET c == Len(tickets) + 1 IN
            /\ c <= MaxTickets
            /\ tickets' = Append(tickets, TicketOf(r))
            /\ mail' = [mail EXCEPT ![k] = [at |-> "on", ticket |-> c]]
            /\ IsTold(r, c)
  /\ WorldRests /\ UNCHANGED closedBetween

-----------------------------------------------------------------------------
(* The office and the world, each a move.                                  *)
MayMove == moves < MaxMoves /\ moves' = moves + 1

\* The request is cut off; what it has written stays.
CutOff(r) ==
  /\ r \in DOMAIN presses
  /\ presses' = Without(presses, r)
  /\ MayMove /\ UNCHANGED <<number, homes, tickets, mail, forms, answers,
                            upset, closedBetween>>

SetCategory(c) ==
  /\ tickets[c].state = "IDENTIFIED"
  /\ tickets' = [tickets EXCEPT ![c].state = "TRIAGED"]
  /\ MayMove /\ UNCHANGED <<number, homes, mail, upset, officeVars>>

\* A returned call cannot be closed: the table's CHECK refuses the row.
AnswerCall(c) ==
  /\ Attachable(c)
  /\ tickets' = [tickets EXCEPT ![c].state = "CLOSED", ![c].exit = "ANSWERED"]
  /\ MayMove /\ UNCHANGED <<number, homes, mail, upset, officeVars>>

\* The duplicate exit takes the messages along in the same write.
MergeInto(c, other) ==
  /\ c # other /\ Attachable(c)
  /\ tickets' = [tickets EXCEPT ![c].state = "CLOSED", ![c].exit = "DUPLICATE",
                                ![c].survivor = other]
  /\ mail' = [k \in DOMAIN mail |->
       IF mail[k].ticket = c THEN [mail[k] EXCEPT !.ticket = other]
         ELSE mail[k]]
  /\ upset' = upset \cup {other}
  /\ MayMove /\ UNCHANGED <<number, homes, officeVars>>

\* A call of the portal is not returned.
ReturnOrRestore(c) ==
  /\ Live(c)
  /\ tickets[c].returned \/ tickets[c].opener = Nothing
  /\ tickets' = [tickets EXCEPT ![c].returned = ~@]
  /\ upset' = upset \cup {c}
  /\ MayMove /\ UNCHANGED <<number, homes, mail, officeVars>>

IdentifyCaller(c, p) ==
  /\ tickets[c].state = "NEW"
  /\ tickets' = [tickets EXCEPT ![c].state = "IDENTIFIED", ![c].requester = p]
  /\ upset' = upset \cup {c}
  /\ MayMove /\ UNCHANGED <<number, homes, mail, officeVars>>

\* The number is somebody else's from today, or a letting ends or begins.
NumberMoves(p) ==
  /\ number # p
  /\ number' = p /\ upset' = Tickets
  /\ MayMove /\ UNCHANGED <<homes, tickets, mail, officeVars>>
LettingTurns(h) ==
  /\ homes' = [homes EXCEPT ![h].open = ~@]
  /\ MayMove /\ UNCHANGED <<number, tickets, mail, upset, officeVars>>

PortalCallsNext ==
  \/ \E k \in PostKeys :
       \/ OpenReport(k) \/ OpenAsk(k)
       \/ \E c \in Tickets : OpenThread(k, c) \/ ContinueCall(k, c)
       \/ \E r \in Presses : Press(r, k)
  \/ \E r \in Presses :
       \/ StoreMail(r) \/ ReadPortalThread(r) \/ AttachMail(r) \/ SortAgain(r)
       \/ \E noise \in BOOLEAN : SettleMail(r, noise)
       \/ CutOff(r)
  \/ \E h \in Homes : LettingTurns(h)
  \/ \E c \in Tickets :
       \/ SetCategory(c) \/ AnswerCall(c) \/ ReturnOrRestore(c)
       \/ \E p \in Persons : IdentifyCaller(c, p)
       \/ \E other \in Tickets : MergeInto(c, other)
  \/ \E p \in Persons \cup {Nothing} : NumberMoves(p)

PortalCallsSpec == PortalCallsInit /\ [][PortalCallsNext]_portalCallVars

-----------------------------------------------------------------------------
\* Whoever was told that their words were taken finds them on the call they
\* were told of, or on the one it was merged into, however often.
KeepsSurvivors(set) ==
  \A c \in set : tickets[c].survivor # Nothing => tickets[c].survivor \in set
MergedInto(c, d) ==
  \A set \in SUBSET Tickets : c \in set /\ KeepsSurvivors(set) => d \in set
WhatIsToldIsStored ==
  \A k \in DOMAIN answers : answers[k].word = "call" =>
    \E c \in Tickets :
      MergedInto(answers[k].ticket, c) /\ k \in ThreadPage(c).bubbles

\* One key opens one call, however often it is pressed and at how many places.
OneCallPerKey ==
  \A c, d \in Tickets :
    /\ tickets[c].opener # Nothing
    /\ tickets[c].opener = tickets[d].opener
    => c = d

\* A call that goes on from another names it, unless that one closed between
\* the two reads of the thread.
SuccessorNamesItsCall ==
  \A c \in Tickets :
    LET k == tickets[c].opener IN
    k # Nothing /\ k \notin closedBetween /\ forms[k].about # Nothing
      => /\ tickets[c].predecessor = forms[k].about
         /\ ~Live(forms[k].about)

\* What was told can be opened, until the office or the number moves it; and
\* every call of a letting is on one of its two lists, whose word for it agrees
\* with what its page offers.
TenantFindsTheCall ==
  /\ \A k \in DOMAIN answers :
       answers[k].word = "call" /\ answers[k].ticket \notin upset /\ Rows # {}
         => Readable(answers[k].ticket)
  /\ \A h \in Rows, c \in Tickets : Readable(c) =>
       /\ c \in OpenTab(h) <=> c \notin ClosedTab(h)
       /\ StatusIsClosed(c) <=> c \in ClosedTab(h)
       /\ ThreadPage(c).foot = "composer" <=> c \in OpenTab(h)
       /\ \A cards \in HomeCards(h) : cards = {} => c \in ClosedTab(h)

TenantsAreAnswered ==
  /\ WhatIsToldIsStored /\ OneCallPerKey
  /\ SuccessorNamesItsCall /\ TenantFindsTheCall
=============================================================================
