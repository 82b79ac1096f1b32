----------------------------- MODULE LeasePeople -----------------------------
(***************************************************************************)
(* The people a lease names, and the draft opened from it                  *)
(* (evidence/internal/lease.ts: householdOf, leaseReadingGaps,             *)
(* resolvePeople, contactRefusals, writeParties, openLeaseDraft).          *)
(*                                                                         *)
(* The press reads who each person is, refuses what it can, and then       *)
(* writes the letting and its people in the same transaction.  Its reads   *)
(* lock nobody: the office may give somebody an identifier or a number     *)
(* between the reading and the writing, and another paper of the same flat *)
(* may be opened.                                                          *)
(*                                                                         *)
(* Abstracted: one channel; names (any registered person may share one);   *)
(* dates, so that a letting is named by its flat; the September twins of a *)
(* field; the fields of the paper that land on other tables.               *)
(***************************************************************************)
EXTENDS Naturals, Sequences, FiniteSets

CONSTANTS
  FiledLeases, \* leases that are filed and have no letting yet
  LeaseReading, \* paper -> family -> [names, ids, phones], in document order
  FlatOf,      \* paper -> the flat פתיחת טיוטה opens it on
  Registered,  \* parties there are at the start
  NationalKeys, \* identifiers, national_id_key
  Phones,      \* numbers
  Nobody       \* no party, no identifier, no letting

Families == {"tenant", "guarantor"}
Seat == UNION {{<<d, f, i>> : i \in 1..LeaseReading[d][f].names} :
                 d \in FiledLeases, f \in Families}

ASSUME LeasePeopleAssumption ==
  /\ Nobody \notin Registered \cup NationalKeys \cup Seat
  /\ Registered \cap Seat = {}
  /\ \A d \in FiledLeases, f \in Families :
       /\ LeaseReading[d][f].names \in Nat
       /\ LeaseReading[d][f].ids \in Seq(NationalKeys)
       /\ LeaseReading[d][f].phones \in Seq(Phones)

VARIABLES
  signedRows, \* extracted_field.approved_at: the name and phone rows signed
  keyOf,     \* party.national_id_key of the parties there are
  holder,    \* party_contact: who holds a number as an open contact
  press,     \* presses between their reads and their writes
  letting,   \* tenancy and tenancy_party: the role each party has in a flat
  opened     \* document_link TENANCY: whether a paper has its letting

leasePeopleVars == <<signedRows, keyOf, holder, press, letting, opened>>

\* A party the press creates is named by the seat it was created for.
Party == Registered \cup Seat
PhoneRow == UNION {{<<d, f, i>> : i \in 1..Len(LeaseReading[d][f].phones)} :
                     d \in FiledLeases, f \in Families}
Role == {"PRIMARY_TENANT", "CO_TENANT", "GUARANTOR"}
Of(d, S) == {s \in S : s[1] = d}
HandAtRest == [reads |-> FALSE, who |-> <<>>, phone |-> <<>>, held |-> <<>>]

LeasePeopleTypeOK ==
  /\ signedRows \in [name : SUBSET Seat, phone : SUBSET PhoneRow]
  /\ DOMAIN keyOf \subseteq Party /\ \A p \in DOMAIN keyOf : keyOf[p] \in NationalKeys \cup {Nobody}
  /\ holder \in [Phones -> Party \cup {Nobody}]
  /\ DOMAIN press = FiledLeases
  /\ DOMAIN letting \subseteq {FlatOf[d] : d \in FiledLeases}
  /\ \A h \in DOMAIN letting :
       /\ DOMAIN letting[h] \subseteq Party
       /\ \A p \in DOMAIN letting[h] : letting[h][p] \in Role
  /\ opened \in [FiledLeases -> {"no", "draft", "attached"}]

LeasePeopleInit ==
  /\ signedRows = [name |-> {}, phone |-> {}]
  /\ keyOf = [p \in Registered |-> Nobody]
  /\ holder = [n \in Phones |-> Nobody]
  /\ press = [d \in FiledLeases |-> HandAtRest]
  /\ letting = <<>>
  /\ opened = [d \in FiledLeases |-> "no"]

-----------------------------------------------------------------------------
\* Pairing is ordinal, and all or nothing within a family.
PairedId(s) ==
  LET r == LeaseReading[s[1]][s[2]]
  IN  IF Len(r.ids) = r.names THEN r.ids[s[3]] ELSE Nobody
PairedPhone(s) ==
  LET r == LeaseReading[s[1]][s[2]]
  IN  IF Len(r.phones) = r.names /\ s \in signedRows.phone THEN r.phones[s[3]] ELSE Nobody
RoleOf(s) ==
  CASE s[2] = "guarantor" -> "GUARANTOR"
    [] s[3] = 1           -> "PRIMARY_TENANT"
    [] OTHER              -> "CO_TENANT"

\* leaseReadingGaps: a tenant is read, and every name row is signed.
ReadyToOpen(d) ==
  /\ LeaseReading[d]["tenant"].names > 0
  /\ Of(d, Seat) \subseteq signedRows.name

KeyHolder(k) ==
  LET held == {p \in DOMAIN keyOf : keyOf[p] = k}
  IN  IF k = Nobody \/ held = {} THEN Nobody ELSE CHOOSE p \in held : TRUE
HolderOf(n) == IF n = Nobody THEN Nobody ELSE holder[n]
Resolved(s) ==
  IF PairedId(s) # Nobody THEN KeyHolder(PairedId(s)) ELSE HolderOf(PairedPhone(s))

\* A same-name choice stands only where nothing else named the person.
NameOnly(s) == PairedId(s) = Nobody /\ HolderOf(PairedPhone(s)) = Nobody

\* who: the party each seat was read to be.
Distinct(d, who) ==
  \A s, t \in Of(d, Seat) : s # t /\ who[s] # Nobody => who[s] # who[t]
Unrefused(d, who) ==
  LET seats == Of(d, Seat)
  IN  /\ FlatOf[d] \notin DOMAIN letting
      /\ \A s, t \in seats :
           s # t /\ PairedId(s) # Nobody => PairedId(s) # PairedId(t)
      /\ Distinct(d, who)
      /\ \A s, t \in seats :
           s # t /\ PairedPhone(s) # Nobody => PairedPhone(s) # PairedPhone(t)
      /\ \A s \in seats : HolderOf(PairedPhone(s)) \in {Nobody, who[s]}

-----------------------------------------------------------------------------
\* approveExtractedField, of a name or of a phone.
SignRow(s) ==
  /\ \/ s \in Seat \ signedRows.name /\ signedRows' = [signedRows EXCEPT !.name = @ \cup {s}]
     \/ s \in PhoneRow \ signedRows.phone /\ signedRows' = [signedRows EXCEPT !.phone = @ \cup {s}]
  /\ UNCHANGED <<keyOf, holder, press, letting, opened>>

\* openingAndPeople, under the document's row lock.
ReadPeople(d) ==
  /\ ~press[d].reads /\ opened[d] = "no" /\ ReadyToOpen(d)
  /\ \E link \in [{s \in Of(d, Seat) : NameOnly(s)} -> DOMAIN keyOf \cup {Nobody}] :
       LET who == [s \in Of(d, Seat) |-> IF s \in DOMAIN link THEN link[s] ELSE Resolved(s)]
       IN  /\ Unrefused(d, who)
           /\ press' = [press EXCEPT ![d] =
                [reads |-> TRUE, who |-> who,
                 phone |-> [s \in Of(d, Seat) |-> PairedPhone(s)],
                 held |-> [s \in Of(d, Seat) |-> HolderOf(PairedPhone(s))]]]
  /\ UNCHANGED <<signedRows, keyOf, holder, letting, opened>>

\* upsertParty by the printed identifier, as the rows are now; else the party
\* that was read; else a new one.
Becomes(d, s) ==
  LET read == IF PairedId(s) # Nobody THEN KeyHolder(PairedId(s)) ELSE press[d].who[s]
  IN  IF read = Nobody THEN s ELSE read

\* seen: two people of the paper that come back as one party.
OnlyAsRead(d) == Distinct(d, press[d].who)
AllDifferent(d) == \A s, t \in Of(d, Seat) : s # t => Becomes(d, s) # Becomes(d, t)

\* The numbers still to write, and the exclusion constraint.
ToWrite(d) ==
  {s \in Of(d, Seat) :
     press[d].phone[s] # Nobody /\ press[d].held[s] # Becomes(d, s)}
NumbersFree(d) == \A s \in ToWrite(d) : holder[press[d].phone[s]] = Nobody

Draft(d) ==
  LET seats == Of(d, Seat)
      mine  == {Becomes(d, s) : s \in seats}
      h     == FlatOf[d]
      old   == IF h \in DOMAIN letting THEN letting[h] ELSE <<>>
      rows  == [p \in DOMAIN old \cup mine |->
                  IF p \in mine
                    THEN RoleOf(CHOOSE s \in seats : Becomes(d, s) = p)
                    ELSE old[p]]
  IN  /\ letting' = [x \in DOMAIN letting \cup {h} |-> IF x = h THEN rows ELSE letting[x]]
      /\ keyOf' = [p \in DOMAIN keyOf \cup mine |->
                     IF p \in DOMAIN keyOf THEN keyOf[p] ELSE PairedId(p)]
      /\ holder' = [n \in Phones |->
                      IF \E s \in ToWrite(d) : press[d].phone[s] = n
                        THEN Becomes(d, CHOOSE s \in ToWrite(d) : press[d].phone[s] = n)
                        ELSE holder[n]]

OpenLeaseDraft(d) ==
  /\ press[d].reads /\ AllDifferent(d) /\ NumbersFree(d)
  /\ Draft(d)
  /\ opened' = [opened EXCEPT ![d] = "draft"]
  /\ press' = [press EXCEPT ![d] = HandAtRest]
  /\ UNCHANGED signedRows

DraftRolledBack(d) ==
  /\ press[d].reads /\ ~(AllDifferent(d) /\ NumbersFree(d))
  /\ press' = [press EXCEPT ![d] = HandAtRest]
  /\ UNCHANGED <<signedRows, keyOf, holder, letting, opened>>

\* attachTo: a letting of the same start that holds one of its identifiers.
AttachLease(d) ==
  /\ ~press[d].reads /\ opened[d] = "no"
  /\ \E h \in DOMAIN letting : \E s \in Of(d, Seat), p \in DOMAIN letting[h] :
       PairedId(s) # Nobody /\ keyOf[p] = PairedId(s)
  /\ opened' = [opened EXCEPT ![d] = "attached"]
  /\ UNCHANGED <<signedRows, keyOf, holder, press, letting>>

\* The office, on the directory's pages: setPartyNationalId, addPartyContact
\* and closePartyContact.
OfficeSetsKey(p, k) ==
  /\ p \in DOMAIN keyOf /\ keyOf[p] = Nobody /\ KeyHolder(k) = Nobody
  /\ keyOf' = [keyOf EXCEPT ![p] = k]
  /\ UNCHANGED <<signedRows, holder, press, letting, opened>>

OfficeAddsNumber(p, n) ==
  /\ p \in DOMAIN keyOf /\ holder[n] = Nobody
  /\ holder' = [holder EXCEPT ![n] = p]
  /\ UNCHANGED <<signedRows, keyOf, press, letting, opened>>

OfficeClosesNumber(n) ==
  /\ holder[n] # Nobody
  /\ holder' = [holder EXCEPT ![n] = Nobody]
  /\ UNCHANGED <<signedRows, keyOf, press, letting, opened>>

LeasePeopleNext ==
  \/ \E s \in Seat \cup PhoneRow : SignRow(s)
  \/ \E d \in FiledLeases : \/ ReadPeople(d) \/ OpenLeaseDraft(d)
                       \/ DraftRolledBack(d) \/ AttachLease(d)
  \/ \E p \in Party, k \in NationalKeys : OfficeSetsKey(p, k)
  \/ \E p \in Party, n \in Phones : OfficeAddsNumber(p, n)
  \/ \E n \in Phones : OfficeClosesNumber(n)

LeasePeopleSpec == LeasePeopleInit /\ [][LeasePeopleNext]_leasePeopleVars

-----------------------------------------------------------------------------
(* A draft comes out with everybody its paper names: as many parties of    *)
(* the letting as people, each in the role of the paper, and whoever the   *)
(* paper prints an identifier for is the party that carries it - whatever  *)
(* the office typed while the press was under way.                         *)
HouseholdIsWhole ==
  [][\A d \in FiledLeases : opened[d] = "no" /\ opened'[d] = "draft" =>
       LET rows == letting'[FlatOf[d]]
       IN  \E party \in [Of(d, Seat) -> DOMAIN rows] :
             /\ \A s, t \in DOMAIN party : s # t => party[s] # party[t]
             /\ \A s \in DOMAIN party :
                  /\ rows[party[s]] = RoleOf(s)
                  /\ PairedId(s) # Nobody => keyOf'[party[s]] = PairedId(s)]_leasePeopleVars
=============================================================================
