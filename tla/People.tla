-------------------------------- MODULE People --------------------------------
(***************************************************************************)
(* People and their contacts (parties/internal/commands.ts), the directory *)
(* that writes them (party-directory.ts), and the reads that reach a       *)
(* household by a number (scope/internal/isolation-join.ts).               *)
(*                                                                         *)
(* A contact is one number's period with one person.  The period has no    *)
(* end until somebody closes it, and the exclusion constraint refuses a    *)
(* period that shares a day with another of the same number.  A read that  *)
(* gives a person away writes its audit line before the answer leaves.     *)
(*                                                                         *)
(* Abstracted: one channel; names, languages and labels; the identifier's  *)
(* fold.  The lettings are given.                                          *)
(***************************************************************************)
EXTENDS Naturals, FiniteSets

CONSTANTS
  Folk,        \* identifiers of parties
  Companies,   \* those whose kind is COMPANY
  Numbers,     \* contact values
  Idents,      \* identifiers once folded, national_id_key
  NoIdent,     \* a party that holds none
  Rows,        \* identifiers of contact rows
  Terms,       \* lettings: <<party, first day, last day, service contact>>
  Desks,       \* requests under way at a time
  LastDay,     \* bound: the clock
  MaxReads     \* bound: reads

ASSUME PeopleAssumption ==
  /\ Companies \subseteq Folk /\ NoIdent \notin Idents
  /\ Rows # {} /\ IsFiniteSet(Desks)
  /\ LastDay \in Nat \ {0} /\ MaxReads \in Nat
  /\ Terms \subseteq Folk \X (1..LastDay) \X (1..LastDay) \X BOOLEAN

VARIABLES
  parties,    \* party: the identifier, of those there are
  contacts,   \* party_contact
  suppliers,  \* provider: the companies marked as one
  desk,       \* requests between two statements
  now,        \* the day
  told,       \* audit_log: lines of reads
  answersOut  \* history: answers of reads that left

peopleVars == <<parties, contacts, suppliers, desk, now, told, answersOut>>

Days == 1..LastDay
Open == LastDay + 1
Contact ==
  [party: Folk, value: Numbers, from: Days, to: Days \cup {Open},
   primary: BOOLEAN]
Waiting ==
  [at: {"idle", "mark", "line", "answer", "setLine"}, row: Rows, old: SUBSET Rows]
NotWaiting == [at |-> "idle", row |-> CHOOSE r \in Rows : TRUE, old |-> {}]

Sub(S, T) == UNION {[D -> T] : D \in SUBSET S}

PeopleTypeOK ==
  /\ parties \in Sub(Folk, Idents \cup {NoIdent})
  /\ DOMAIN contacts \subseteq Rows
  /\ \A r \in DOMAIN contacts : contacts[r] \in Contact
  /\ suppliers \subseteq Companies
  /\ desk \in [Desks -> Waiting]
  /\ now \in Days /\ told \in 0..MaxReads /\ answersOut \in 0..MaxReads

PeopleInit ==
  /\ parties = <<>> /\ contacts = <<>> /\ suppliers = {}
  /\ desk = [d \in Desks |-> NotWaiting]
  /\ now = 1 /\ told = 0 /\ answersOut = 0

-----------------------------------------------------------------------------
Known(p) == p \in DOMAIN parties
Put(f, x, y) == [z \in DOMAIN f \cup {x} |-> IF z = x THEN y ELSE f[z]]
Idle(d) == desk[d].at = "idle"
Rest(d) == desk' = [desk EXCEPT ![d] = NotWaiting]
Step(d, step) == desk' = [desk EXCEPT ![d].at = step]

\* daterange(.., .., '[)') against '[]': both ends belong to the period.
OverlapsHalfOpen(c, from, to) == c.from < to /\ from < c.to
Overlaps(c, from, to) == c.from <= to /\ from <= c.to

\* contact_value_resolves_to_one_party, for a row that is not there yet.
FreeFor(value, from, to, except) ==
  \A r \in DOMAIN contacts \ except :
    contacts[r].value = value => ~Overlaps(contacts[r], from, to)

Unheld(ident) == \A p \in DOMAIN parties : parties[p] # ident

InsertContact(r, p, v, from, to, primary) ==
  /\ r \notin DOMAIN contacts /\ FreeFor(v, from, to, {})
  /\ contacts' = Put(contacts, r,
       [party |-> p, value |-> v, from |-> from, to |-> to, primary |-> primary])

\* createPartyByHand: an identifier or a contact, both free, or nothing.
CreateByHand(p, ident, r, v) ==
  /\ ~Known(p)
  /\ ident # NoIdent => Unheld(ident)
  /\ parties' = Put(parties, p, ident)
  /\ InsertContact(r, p, v, now, Open, TRUE)
  /\ UNCHANGED <<suppliers, desk, now, told, answersOut>>

\* createParty of a lease, upsertParty of a lease or the register; the second
\* finds the party that holds the identifier, and changes its names only.
RecordParty(p, ident) ==
  /\ ~Known(p)
  /\ ident # NoIdent => Unheld(ident)
  /\ parties' = Put(parties, p, ident)
  /\ UNCHANGED <<contacts, suppliers, desk, now, told, answersOut>>

\* addPartyContact, from the profile or from a lease: a lease's contact is
\* primary only when the party has no open primary.
OpenPrimaries(p) ==
  {r \in DOMAIN contacts :
     contacts[r].party = p /\ contacts[r].to = Open /\ contacts[r].primary}

AddContact(p, r, v, from, lease) ==
  /\ Known(p)
  /\ InsertContact(r, p, v, from, Open, lease /\ OpenPrimaries(p) = {})
  /\ UNCHANGED <<parties, suppliers, desk, now, told, answersOut>>

\* upsertPartyContact of the register and of a call's identification: the same
\* party, value and first day is the same row, whose end the new one replaces.
UpsertContact(p, r, v, from, to) ==
  LET same == {k \in DOMAIN contacts :
                 /\ contacts[k].party = p /\ contacts[k].value = v
                 /\ contacts[k].from = from} IN
  /\ Known(p) /\ from <= to
  /\ \/ same = {} /\ InsertContact(r, p, v, from, to, TRUE)
     \/ /\ r \in same /\ FreeFor(v, from, to, same)
        /\ contacts' = [contacts EXCEPT ![r].to = to, ![r].primary = TRUE]
  /\ UNCHANGED <<parties, suppliers, desk, now, told, answersOut>>

CloseContact(r, to) ==
  /\ r \in DOMAIN contacts /\ contacts[r].to = Open /\ contacts[r].from <= to
  /\ contacts' = [contacts EXCEPT ![r].to = to]
  /\ UNCHANGED <<parties, suppliers, desk, now, told, answersOut>>

\* setPrimaryPartyContact is one statement: what it clears is what its own
\* snapshot shows, and its rows are written when the locks are had.
ReadPrimaries(d, r) ==
  /\ Idle(d) /\ r \in DOMAIN contacts /\ contacts[r].to = Open
  /\ desk' = [desk EXCEPT ![d] =
       [at |-> "mark", row |-> r,
        old |-> OpenPrimaries(contacts[r].party) \ {r}]]
  /\ UNCHANGED <<parties, contacts, suppliers, now, told, answersOut>>

MarkPrimary(d) ==
  /\ desk[d].at = "mark"
  /\ contacts' = [r \in DOMAIN contacts |->
       [contacts[r] EXCEPT
         !.primary = IF r = desk[d].row THEN TRUE
                     ELSE IF r \in desk[d].old /\ contacts[r].to = Open THEN FALSE
                     ELSE @]]
  /\ Rest(d) /\ UNCHANGED <<parties, suppliers, now, told, answersOut>>

\* The identifier is written, and its line is a statement of its own.
SetNationalId(d, p, ident) ==
  /\ Idle(d) /\ Known(p) /\ ident # NoIdent /\ Unheld(ident)
  /\ parties' = [parties EXCEPT ![p] = ident]
  /\ Step(d, "setLine") /\ UNCHANGED <<contacts, suppliers, now, told, answersOut>>

TellNationalId(d) ==
  /\ desk[d].at = "setLine" /\ Rest(d)
  /\ UNCHANGED <<parties, contacts, suppliers, now, told, answersOut>>

LinkProvider(p) ==
  /\ Known(p) /\ p \in Companies
  /\ suppliers' = suppliers \cup {p}
  /\ UNCHANGED <<parties, contacts, desk, now, told, answersOut>>

-----------------------------------------------------------------------------
\* CONTACT_VALID_TODAY and TENANCY_ACTIVE_TODAY: inclusive at both ends.
ValidOn(c, day) == c.from <= day /\ day <= c.to
LetOn(t, day) == t[2] <= day /\ day <= t[3]

HoldersOn(v, day) ==
  {contacts[r].party : r \in {k \in DOMAIN contacts :
     contacts[k].value = v /\ ValidOn(contacts[k], day)}}

\* Q2, and the door's answer: a household by its number, or a provider.
Reached(v) == {p \in HoldersOn(v, now) : \E t \in Terms : t[1] = p /\ LetOn(t, now) /\ t[4]}
PartiesFor(v) == IF Reached(v) # {} THEN Reached(v) ELSE HoldersOn(v, now) \cap suppliers

\* resolveUnitsByPhone and its like, a search by identifier, a reveal: the rows
\* are read, the line is written, and only then does the answer leave.
ReadAnswers == "line"

ReadFolk(d) ==
  /\ Idle(d) /\ told < MaxReads
  /\ \/ \E v \in Numbers : PartiesFor(v) # {}
     \/ \E p \in DOMAIN parties : parties[p] # NoIdent
  /\ Step(d, ReadAnswers)
  /\ UNCHANGED <<parties, contacts, suppliers, now, told, answersOut>>

WriteLine(d) ==
  /\ desk[d].at = "line" /\ told < MaxReads
  /\ told' = told + 1 /\ Step(d, "answer")
  /\ UNCHANGED <<parties, contacts, suppliers, now, answersOut>>

Answer(d) ==
  /\ desk[d].at = "answer" /\ answersOut < MaxReads
  /\ answersOut' = answersOut + 1 /\ Rest(d)
  /\ UNCHANGED <<parties, contacts, suppliers, now, told>>

\* A request ends half-way: its statement rolls back, what it read goes nowhere.
DeskStops(d) ==
  /\ ~Idle(d) /\ Rest(d)
  /\ UNCHANGED <<parties, contacts, suppliers, now, told, answersOut>>

NextDay ==
  /\ now < LastDay /\ now' = now + 1
  /\ UNCHANGED <<parties, contacts, suppliers, desk, told, answersOut>>

PeopleNext ==
  \/ \E p \in Folk, ident \in Idents \cup {NoIdent} :
       \/ RecordParty(p, ident)
       \/ \E r \in Rows, v \in Numbers : CreateByHand(p, ident, r, v)
       \/ \E d \in Desks : SetNationalId(d, p, ident)
  \/ \E p \in Folk, r \in Rows, v \in Numbers, from \in Days :
       \/ \E lease \in BOOLEAN : AddContact(p, r, v, from, lease)
       \/ \E to \in Days \cup {Open} : UpsertContact(p, r, v, from, to)
  \/ \E r \in Rows, to \in Days : CloseContact(r, to)
  \/ \E d \in Desks, r \in Rows : ReadPrimaries(d, r)
  \/ \E d \in Desks :
       \/ MarkPrimary(d) \/ TellNationalId(d)
       \/ ReadFolk(d) \/ WriteLine(d) \/ Answer(d) \/ DeskStops(d)
  \/ \E p \in Folk : LinkProvider(p)
  \/ NextDay

PeopleSpec == PeopleInit /\ [][PeopleNext]_peopleVars

-----------------------------------------------------------------------------
\* Whoever wrote the periods and whoever closed them, a number names at most
\* one person on any day, the day it changes hands included: the reads that
\* ask by a day cannot reach two households.
NumberNamesOnePerson ==
  \A v \in Numbers, day \in Days : Cardinality(HoldersOn(v, day)) <= 1

\* Nothing of a person left the office without its line, wherever a request
\* ended.
DisclosedIsTold == answersOut <= told
=============================================================================
