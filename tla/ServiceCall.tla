----------------------------- MODULE ServiceCall -----------------------------
(***************************************************************************)
(* The calls module: one service call from intake to close, as the         *)
(* commands of calls/internal/commands.ts and the constraints and triggers *)
(* of the service_call table move it.  Every command runs in one           *)
(* transaction that first locks the call's row (lockCall), so one command  *)
(* is one action; a reply alone (calls/internal/send.ts) reads the call    *)
(* without a lock, sends, and adds its row when it is back.  A refused     *)
(* command changes nothing and is no action.                               *)
(*                                                                         *)
(* Abstracted: texts, times and labels; who asked for a command that       *)
(* stores no actor; the sorter's verdict, which no command reads.          *)
(***************************************************************************)
EXTENDS Naturals, SequencesExt

CONSTANTS
  Calls,          \* identifiers of calls
  Parties,        \* people and companies on file
  Categories,     \* rows of call_category
  Staff,          \* staff accounts
  Addresses,      \* sender addresses a call can carry
  Channels,       \* the source channels in play
  Replies,        \* replies the office can have in hand at once
  MaxTimeline,    \* bound: no flag, clear, re-triage or reply is begun past
                  \* this many rows
  Nobody          \* the SQL NULL of every column

SourceChannel == {"WHATSAPP", "EMAIL", "PHONE", "WALK_IN", "PORTAL"}
ManualChannel == {"PHONE", "WALK_IN"}
IntakeChannel == {"WHATSAPP", "EMAIL", "PORTAL"}
AddressChannel == {"WHATSAPP", "EMAIL"}
ExitKind == {"ANSWERED", "FORWARDED", "DUPLICATE", "CANCELLED"}

ASSUME ChannelAssumption == Channels \subseteq SourceChannel
ASSUME BoundAssumption == MaxTimeline \in Nat
ASSUME NobodyAssumption ==
  Nobody \notin Calls \cup Parties \cup Categories \cup Staff \cup Addresses
                \cup ExitKind \cup {"TERMS"}
ASSUME StaffAssumption == Staff \cap {"TERMS", "ADDRESS"} = {}

\* The other states of the CHECK constraint are written by no command.
CallState == {"NEW", "IDENTIFIED", "TRIAGED", "CLOSED"}
CanExit(s) == s \in {"NEW", "IDENTIFIED", "TRIAGED"}

CallRow ==
  [state: CallState \cup {"none"}, channel: SourceChannel \cup {Nobody},
   sender: Addresses \cup {Nobody}, requester: Parties \cup {Nobody},
   category: Categories \cup {Nobody},
   emergencyBy: Staff \cup {"TERMS", Nobody}, returned: BOOLEAN,
   exit: ExitKind \cup {Nobody}, duplicateOf: Calls \cup {Nobody},
   predecessor: Calls \cup {Nobody}]

NoCall ==
  [state |-> "none", channel |-> Nobody, sender |-> Nobody,
   requester |-> Nobody, category |-> Nobody, emergencyBy |-> Nobody,
   returned |-> FALSE, exit |-> Nobody, duplicateOf |-> Nobody,
   predecessor |-> Nobody]

TransitionRow ==
  [kind: {"IDENTIFIED", "TRIAGED", "FLAGGED", "CLEARED", "REPLIED"} \cup ExitKind,
   by: Staff \cup {"TERMS", "ADDRESS"},
   what: Parties \cup Categories \cup Calls \cup {Nobody}]

VARIABLES
  call,        \* service_call, by identifier
  timeline,    \* service_call_transition, in order, by call
  active,      \* call_category.is_active
  guarantor,   \* parties who are a guarantor and no service contact
  holder,      \* party_contact: who holds an address today
  filed,       \* history: address and party of every contact another module
               \* put on file, ended or not
  sending      \* by reply: the call and the sender it was begun for

beside == <<active, guarantor, holder, filed>>
vars == <<call, timeline, beside, sending>>

-----------------------------------------------------------------------------
Exists(c) == call[c].state # "none"
Closed(c) == call[c].state = "CLOSED"
OpenOrClosed(c) == Exists(c)
Open(c) == Exists(c) /\ ~Closed(c)
OnOpenList(c) == Open(c) /\ ~call[c].returned

\* A write that would break one of the table's triggers or checks rolls back.
TriggersAllow(row) == row.requester \notin guarantor
ChecksAnything(row) == TRUE
ChecksAllow(row) == row.returned => row.state # "CLOSED"

Row(kind, by, what) == [kind |-> kind, by |-> by, what |-> what]

Room(c) == Len(timeline[c]) < MaxTimeline

\* The UPDATE of one call with the timeline row written beside it.
Write(c, row, entry) ==
  /\ TriggersAllow(row)
  /\ ChecksAllow(row)
  /\ call' = [call EXCEPT ![c] = row]
  /\ timeline' = [timeline EXCEPT ![c] = Append(@, entry)]
  /\ UNCHANGED <<beside, sending>>

Init ==
  /\ call = [c \in Calls |-> NoCall]
  /\ timeline = [c \in Calls |-> <<>>]
  /\ active = Categories
  /\ guarantor = {}
  /\ holder = [a \in Addresses |-> Nobody]
  /\ filed = {}
  /\ sending = [r \in Replies |-> Nobody]

-----------------------------------------------------------------------------
FlagRowsForgotten(byTerms) == <<>>
FlagRows(byTerms) ==
  IF byTerms THEN <<Row("FLAGGED", "TERMS", Nobody)>> ELSE <<>>

TermsMark(byTerms) == IF byTerms THEN "TERMS" ELSE Nobody

OpenCall(c, ch, sender, byTerms) ==
  /\ ~Exists(c)
  /\ ch \in Channels \cap ManualChannel
  /\ call' = [call EXCEPT ![c] =
       [NoCall EXCEPT !.state = "NEW", !.channel = ch, !.sender = sender,
                      !.emergencyBy = TermsMark(byTerms)]]
  /\ timeline' = [timeline EXCEPT ![c] = FlagRows(byTerms)]
  /\ UNCHANGED <<beside, sending>>

\* The door opens the call and, in the same transaction, identifies it when
\* the isolation join returns exactly one party: the holder of the address,
\* or nobody.  A guarantor is left unidentified.
MayIdentifyAnyone(sender) == {Nobody} \cup (Parties \ guarantor)
MayIdentify(sender) ==
  {Nobody} \cup ({holder[sender]} \ guarantor)

IntakeRow(ch, sender, byTerms, pred, p) ==
  [NoCall EXCEPT !.state = IF p = Nobody THEN "NEW" ELSE "IDENTIFIED",
                 !.requester = p, !.channel = ch, !.sender = sender,
                 !.emergencyBy = TermsMark(byTerms), !.predecessor = pred]

IdentifiedRows(p) ==
  IF p = Nobody THEN <<>> ELSE <<Row("IDENTIFIED", "ADDRESS", p)>>

MayFollow(pred) == pred # Nobody => Closed(pred)

OpenIntakeCall(c, ch, sender, byTerms, pred, p) ==
  /\ ~Exists(c)
  /\ ch \in Channels \cap IntakeChannel
  /\ MayFollow(pred)
  /\ p \in MayIdentify(sender)
  /\ call' = [call EXCEPT ![c] = IntakeRow(ch, sender, byTerms, pred, p)]
  /\ timeline' = [timeline EXCEPT ![c] = FlagRows(byTerms) \o IdentifiedRows(p)]
  /\ UNCHANGED <<beside, sending>>

FlagCallByTerms(c) ==
  /\ OnOpenList(c)
  /\ call[c].emergencyBy = Nobody
  /\ Room(c)
  /\ Write(c, [call[c] EXCEPT !.emergencyBy = "TERMS"],
           Row("FLAGGED", "TERMS", Nobody))

ReturnToFiltered(c) ==
  /\ Open(c)
  /\ ~call[c].returned
  /\ call[c].channel # "PORTAL"
  /\ TriggersAllow(call[c])
  /\ call' = [call EXCEPT ![c].returned = TRUE]
  /\ UNCHANGED <<timeline, beside, sending>>

RestoreReturnedCall(c) ==
  /\ Exists(c)
  /\ call[c].returned
  /\ TriggersAllow(call[c])
  /\ call' = [call EXCEPT ![c].returned = FALSE]
  /\ UNCHANGED <<timeline, beside, sending>>

LinkRequester(c, p, by) ==
  /\ call[c].state = "NEW"
  /\ Write(c, [call[c] EXCEPT !.state = "IDENTIFIED", !.requester = p],
           Row("IDENTIFIED", by, p))

IdentifyCall(c, p, s) == LinkRequester(c, p, s)

IdentifiedByPerson(c) ==
  \E i \in DOMAIN timeline[c] :
    /\ timeline[c][i].kind = "IDENTIFIED"
    /\ timeline[c][i].by \in Staff

\* An address the requester holds already is left as it is; one that someone
\* else holds is refused.
SaveSenderContact(c) ==
  /\ call[c].requester # Nobody
  /\ IdentifiedByPerson(c)
  /\ call[c].sender # Nobody
  /\ call[c].channel \in AddressChannel
  /\ holder[call[c].sender] = Nobody
  /\ holder' = [holder EXCEPT ![call[c].sender] = call[c].requester]
  /\ UNCHANGED <<call, timeline, active, guarantor, filed, sending>>

SetCallCategory(c, k, s) ==
  /\ call[c].state \in {"IDENTIFIED", "TRIAGED"}
  /\ ~(call[c].state = "TRIAGED" /\ call[c].category = k)
  /\ k \in active
  /\ Room(c)
  /\ Write(c, [call[c] EXCEPT !.state = "TRIAGED", !.category = k],
           Row("TRIAGED", s, k))

FlagEmergency(c, s) ==
  /\ Open(c)
  /\ call[c].emergencyBy = Nobody
  /\ Room(c)
  /\ Write(c, [call[c] EXCEPT !.emergencyBy = s], Row("FLAGGED", s, Nobody))

ClearEmergency(c, s) ==
  /\ Open(c)
  /\ call[c].emergencyBy # Nobody
  /\ Room(c)
  /\ Write(c, [call[c] EXCEPT !.emergencyBy = Nobody],
           Row("CLEARED", s, Nobody))

ExitRow(c, kind, other) ==
  [call[c] EXCEPT !.state = "CLOSED", !.exit = kind, !.duplicateOf = other]

ExitCall(c, kind, other, s) ==
  /\ CanExit(call[c].state)
  /\ IF kind = "DUPLICATE" THEN other \in Calls \ {c} /\ Exists(other)
                           ELSE other = Nobody
  /\ Write(c, ExitRow(c, kind, other), Row(kind, s, other))

\* sendCallReply reads the call, without a lock, before the channel sends.
MayReply(c) ==
  /\ call[c].state \in {"IDENTIFIED", "TRIAGED"}
  /\ call[c].channel \in {"EMAIL", "PORTAL"}

BeginReply(r, c, s) ==
  /\ sending[r] = Nobody
  /\ MayReply(c)
  /\ Room(c)
  /\ sending' = [sending EXCEPT ![r] = <<c, s>>]
  /\ UNCHANGED <<call, timeline, beside>>

\* The row is written whatever the call became meanwhile.  A reply whose send
\* failed is one that never gets here.
RecordReply(r) ==
  /\ sending[r] # Nobody
  /\ timeline' = [timeline EXCEPT ![sending[r][1]] =
                    Append(@, Row("REPLIED", sending[r][2], Nobody))]
  /\ sending' = [sending EXCEPT ![r] = Nobody]
  /\ UNCHANGED <<call, beside>>

UpsertCategory(k) ==
  /\ active' = IF k \in active THEN active \ {k} ELSE active \cup {k}
  /\ UNCHANGED <<call, timeline, guarantor, holder, filed, sending>>

\* upsertTenancyParty: a party becomes a guarantor and no service contact, or
\* becomes a service contact again.  It looks at no call.
TenancyRoleChange(p) ==
  /\ guarantor' = IF p \in guarantor THEN guarantor \ {p}
                                     ELSE guarantor \cup {p}
  /\ UNCHANGED <<call, timeline, active, holder, filed, sending>>

\* addPartyContact, for a confirmed lease, the register or the directory.  An
\* address that someone holds is refused.
ContactBegins(a, p) ==
  /\ holder[a] = Nobody
  /\ holder' = [holder EXCEPT ![a] = p]
  /\ filed' = filed \cup {<<a, p>>}
  /\ UNCHANGED <<call, timeline, active, guarantor, sending>>

\* closePartyContact: the open contact of an address ends.
ContactEnds(a) ==
  /\ holder[a] # Nobody
  /\ holder' = [holder EXCEPT ![a] = Nobody]
  /\ UNCHANGED <<call, timeline, active, guarantor, filed, sending>>

Next ==
  \/ \E c \in Calls :
       \/ \E ch \in Channels, byTerms \in BOOLEAN :
            \/ \E a \in Addresses \cup {Nobody} : OpenCall(c, ch, a, byTerms)
            \/ \E a \in Addresses, pred \in Calls \cup {Nobody},
                  p \in Parties \cup {Nobody} :
                 OpenIntakeCall(c, ch, a, byTerms, pred, p)
       \/ FlagCallByTerms(c)
       \/ ReturnToFiltered(c)
       \/ RestoreReturnedCall(c)
       \/ SaveSenderContact(c)
       \/ \E s \in Staff :
            \/ \E p \in Parties : IdentifyCall(c, p, s)
            \/ \E k \in Categories : SetCallCategory(c, k, s)
            \/ FlagEmergency(c, s)
            \/ ClearEmergency(c, s)
            \/ \E r \in Replies : BeginReply(r, c, s)
            \/ \E kind \in ExitKind, other \in Calls \cup {Nobody} :
                 ExitCall(c, kind, other, s)
  \/ \E r \in Replies : RecordReply(r)
  \/ \E k \in Categories : UpsertCategory(k)
  \/ \E p \in Parties : TenancyRoleChange(p)
  \/ \E a \in Addresses :
       \/ \E p \in Parties : ContactBegins(a, p)
       \/ ContactEnds(a)

Spec == Init /\ [][Next]_vars

-----------------------------------------------------------------------------
(* Every column and every timeline row keeps its type. *)
TypeOK ==
  /\ call \in [Calls -> CallRow]
  /\ timeline \in [Calls -> Seq(TransitionRow)]
  /\ active \in SUBSET Categories
  /\ guarantor \in SUBSET Parties
  /\ holder \in [Addresses -> Parties \cup {Nobody}]
  /\ filed \subseteq Addresses \X Parties
  /\ sending \in [Replies -> (Calls \X Staff) \cup {Nobody}]

(* The table's checks hold of every call whatever sequence of commands     *)
(* moved it: a state names the facts it rests on, a closed call names its  *)
(* exit and an exit closes, only a duplicate names another call, and a     *)
(* returned call is in no closed figure.                                   *)
StateNamesItsFacts(row) ==
  /\ row.state \in {"IDENTIFIED", "TRIAGED"} => row.requester # Nobody
  /\ row.state = "TRIAGED" => row.category # Nobody
  /\ row.state = "NEW" => row.requester = Nobody
  /\ row.category # Nobody => row.requester # Nobody
  /\ row.state = "CLOSED" <=> row.exit # Nobody
  /\ row.exit = "DUPLICATE" <=> row.duplicateOf # Nobody
  /\ row.returned => row.state # "CLOSED"

CallsNameTheirFacts ==
  \A c \in Calls : StateNamesItsFacts(call[c]) /\ call[c].duplicateOf # c

(* A successor is opened of a closed call only, and closed it stays. *)
PredecessorsAreClosed ==
  \A c \in Calls : call[c].predecessor # Nobody => Closed(call[c].predecessor)

(* The timeline alone tells what the call is: of each kind of row the last *)
(* one has the requester, the category, who set the emergency flag and the *)
(* exit that the call's own columns hold.                                  *)
LastRows(rows, kinds) ==
  {rows[i] : i \in {j \in DOMAIN rows :
     /\ rows[j].kind \in kinds
     /\ \A k \in DOMAIN rows : rows[k].kind \in kinds => k <= j}}

Tells(row, rows) ==
  /\ {r.what : r \in LastRows(rows, {"IDENTIFIED"})} = {row.requester} \ {Nobody}
  /\ {r.what : r \in LastRows(rows, {"TRIAGED"})} = {row.category} \ {Nobody}
  /\ {r.by : r \in {q \in LastRows(rows, {"FLAGGED", "CLEARED"}) : q.kind = "FLAGGED"}}
       = {row.emergencyBy} \ {Nobody}
  /\ {r.kind : r \in LastRows(rows, ExitKind)} = {row.exit} \ {Nobody}
  /\ \A r \in LastRows(rows, ExitKind) : r.what = row.duplicateOf

TimelineTellsTheCall == \A c \in Calls : Tells(call[c], timeline[c])

(* A call is opened as the successor of a closed call only, and following  *)
(* predecessors comes to an end: there are no calls each of which follows  *)
(* another one of them.                                                    *)
PredecessorsAreOlder ==
  /\ PredecessorsAreClosed
  /\ \A S \in SUBSET Calls : S # {} => \E c \in S : call[c].predecessor \notin S

(* The door never vouches for itself: behind every call it identified from *)
(* an address stands a contact another module filed of that address to     *)
(* that requester, or another call from the address that a person linked   *)
(* to them, even after the contact has ended or moved to someone else.     *)
IdentifiedByAddress(c) ==
  \E i \in DOMAIN timeline[c] : timeline[c][i].by = "ADDRESS"

AddressMatchTracesToAPerson ==
  \A c \in Calls :
    IdentifiedByAddress(c) =>
      \/ <<call[c].sender, call[c].requester>> \in filed
      \/ \E d \in Calls \ {c} :
           /\ IdentifiedByPerson(d)
           /\ call[d].sender = call[c].sender
           /\ call[d].requester = call[c].requester

(* What a row says of the past, on both counts: a chain of predecessors    *)
(* ends, and an address match goes back to what a person or the office's   *)
(* own records said.                                                       *)
RestsOnThePast == PredecessorsAreOlder /\ AddressMatchTracesToAPerson

RepliesTo(c) == {r \in Replies : sending[r] # Nobody /\ sending[r][1] = c}

ReplyLands(c) ==
  \E r \in RepliesTo(c) :
    timeline'[c] = Append(timeline[c], Row("REPLIED", sending[r][2], Nobody))

FrozenWhenClosed(c) ==
  Closed(c) =>
    /\ call'[c] = call[c]
    /\ timeline'[c] = timeline[c] \/ ReplyLands(c)
    /\ RepliesTo(c)' \subseteq RepliesTo(c)

(* A closed call is never moved: no later command, flag, return or trigger *)
(* changes its row.  Its timeline grows by the replies that were at the    *)
(* send when it was closed and by nothing else, and no reply begins.       *)
ClosedCallIsFrozen == [][\A c \in Calls : FrozenWhenClosed(c)]_vars

HistoryKept(c) ==
  /\ call[c].requester # Nobody => call'[c].requester = call[c].requester
  /\ Exists(c) => call'[c].predecessor = call[c].predecessor
  /\ IsPrefix(timeline[c], timeline'[c])

(* Once a requester is known no command names another one, a call keeps    *)
(* its predecessor, and what the timeline says is only ever added to.      *)
HistoryOnlyGrows == [][\A c \in Calls : HistoryKept(c)]_vars

(* SPEC-calls.md: the four exits close a call from any state before it is  *)
(* scheduled, so an open call that is not filtered can always be closed.   *)
OpenCallCanExit ==
  \A c \in Calls :
    OnOpenList(c) =>
      ENABLED \E s \in Staff : ExitCall(c, "CANCELLED", Nobody, s)

=============================================================================
