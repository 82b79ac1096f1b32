-------------------------------- MODULE Ledger --------------------------------
(***************************************************************************)
(* The screens of one reading, and the presses on them (evidence/internal: *)
(* routes.ts, views.ts, approve.ts; lease.ts: leaseReadingGaps and the     *)
(* flat of the opening).  A lease is signed on the filing screen until its *)
(* draft opens, and its ledger sends there; any other paper is signed on   *)
(* its ledger, where an identifier is masked until it is revealed.  A      *)
(* browser holds what it was drawn; the reader may replace the unsigned    *)
(* rows, and another person sign, correct and open, before it posts.  A    *)
(* route looks whether the reading is closed before the command begins,    *)
(* and the command locks its rows one by one.                              *)
(*                                                                         *)
(* Abstracted: a value is as read or one of the Corrections; a reading     *)
(* finds a key at most once; where an address leads, and what else         *)
(* refuses an opening (terms, a flat taken, people: LeasePeople, Letting), *)
(* is either answer; a letting the lease may be attached to is named by    *)
(* its flat; the other rows promoted are Letting's; a press that ends      *)
(* leaves its browser on no page, the redirect's being the next request.   *)
(***************************************************************************)
EXTENDS Naturals, FiniteSets

CONSTANTS
  Clerks,        \* staff with documents.write and tenancy.write
  Confidants,    \* those of them with party.national_id.read
  LeaseKeys,     \* the fields declared on a lease
  OtherKeys,     \* those of another type of paper
  RequiredDates, \* start_date and end_date: the dates a draft waits for
  Corrections,   \* values typed over what was read
  LedgerFlats,   \* flats, each also for its letting
  BlurredKeys,   \* bound: the fields a reading may measure low
  MaxReadings,   \* bound: readings of the paper
  MaxStamps,     \* bound: signatures
  NoFlat

ASSUME LedgerAssumption ==
  /\ Confidants \subseteq Clerks /\ {MaxReadings, MaxStamps} \subseteq Nat
  /\ RequiredDates \subseteq {"start_date", "end_date"}
  /\ NoFlat \notin LedgerFlats \cup (Nat \X (LeaseKeys \cup OtherKeys))

VARIABLES
  paperType,  \* document_type: "lease" or another
  leasePlace, \* its UNIT link, or the flat the door stored with the bytes
  begun,      \* readings begun: a row is named by its reading and its key
  captured,   \* extracted_field: the rows there are
  legible,    \* of them, the rows measured above READ_QUALITY_THRESHOLD
  approvedAs, \* approved_value of the signed rows
  carried,    \* the rows with promoted_at
  leaseDraft, \* the flat of the letting the lease is linked to
  tab,        \* what each browser was drawn
  inHand,     \* a press past the route's look at the reading
  disclosed,  \* audit_log evidence.read_identifier: who and which row
  signatures, \* history: the signatures, as pressed
  linkedBy    \* history: the press that linked the letting, and its flats

ledgerVars == <<paperType, leasePlace, begun, captured, legible, approvedAs, carried,
                leaseDraft, tab, inHand, disclosed, signatures, linkedBy>>
paperVars == <<paperType, leasePlace>>
rowVars == <<begun, captured, legible>>
draftVars == <<carried, leaseDraft, linkedBy>>

IdentifierFieldKeys ==
  {"tenant_id_number", "guarantor_id_number", "main_tenant_id_number",
   "second_tenant_id_number"}
ContactFields ==
  {"main_tenant_phone", "main_tenant_email", "second_tenant_phone",
   "second_tenant_email", "guarantor_phone", "guarantor_email"}
NameKeys ==
  {"main_tenant_name", "second_tenant_name", "tenant_name", "guarantor_name"}
LeaseIdentityAndAccess ==
  NameKeys \cup {"start_date", "end_date", "address", "apartment_number", "building_number"}
ColumnMapKeys ==
  {"start_date", "end_date", "rent_amount", "rent_currency", "option_end_date",
   "eligibility_group", "parking_space_number", "second_parking_space_number",
   "storage_space_number", "second_storage_space_number", "rooms", "floor"}

IsIdentifierField(r) == r[2] \in IdentifierFieldKeys
IsContactField(r) == r[2] \in ContactFields
AtNoPlace == [kind |-> "none", flat |-> NoFlat]

\* What a browser was drawn: forms to sign a row (and the value each offers),
\* reveals, the press for all; of the rows it prints unmasked, those with a
\* form and the identifiers; and of the opening, the flats it offers, whether
\* it may be pressed, and the lettings to attach to.
NoTab == [page |-> "none", forms |-> {}, reveals |-> {}, all |-> FALSE, shown |-> {},
          flats |-> {}, opens |-> FALSE, attach |-> {}]
NoHand == [does |-> "nothing", rows |-> {}, value |-> "read", seen |-> FALSE, may |-> FALSE]

LedgerInit ==
  /\ paperType \in {"lease", "other"}
  /\ leasePlace \in {AtNoPlace} \cup [kind : {"door", "anchor"}, flat : LedgerFlats]
  /\ begun = 0 /\ captured = {} /\ legible = {} /\ approvedAs = <<>> /\ carried = {}
  /\ leaseDraft = NoFlat /\ linkedBy = [how |-> "not", flats |-> {}]
  /\ tab = [v \in Clerks |-> NoTab] /\ inHand = [v \in Clerks |-> NoHand]
  /\ disclosed = {} /\ signatures = {}

-----------------------------------------------------------------------------
IsSigned(r) == r \in DOMAIN approvedAs
Unsigned == captured \ DOMAIN approvedAs
ReadAs(key) == {r \in captured : r[2] = key}
SignedAs(key) == {r \in ReadAs(key) : IsSigned(r)}
SignedValues == {"read"} \cup Corrections

FlaggedOnly(r) == r \notin legible
\* The rows `approve what is not flagged` leaves for a press of their own.
PressedAlone(r) ==
  \/ r \notin legible
  \/ IsIdentifierField(r) \/ IsContactField(r)
  \/ paperType = "lease" /\ r[2] \in LeaseIdentityAndAccess

ClosedLease == paperType = "lease" /\ leaseDraft # NoFlat

\* leaseReadingGaps: what is not read, and what is read and not signed.  One
\* signed capture of a date, or of the main tenant, is enough; every other
\* name waits for its own.
MainTenantKey ==
  IF ReadAs("main_tenant_name") # {} THEN "main_tenant_name" ELSE "tenant_name"
NotRead == {key \in RequiredDates \cup {MainTenantKey} : ReadAs(key) = {}}
UnsignedDates == {r \in Unsigned : r[2] \in RequiredDates /\ SignedAs(r[2]) = {}}
UnsignedNames ==
  {r \in Unsigned : /\ r[2] \in NameKeys
                    /\ r[2] = "main_tenant_name" => SignedAs("main_tenant_name") = {}}
LedgerGaps == UnsignedDates \cup UnsignedNames
LeaseCanOpen == NotRead = {} /\ LedgerGaps = {}

\* flatForOpening: the anchor; else the flat asked for, the door's, or what a
\* signed address leads to: one flat, or none that is certain.
FlatForOpening(asked) ==
  IF leasePlace.kind = "anchor" THEN {leasePlace.flat}
  ELSE IF asked # NoFlat THEN {asked}
  ELSE IF leasePlace.kind = "door" THEN {leasePlace.flat}
  ELSE IF SignedAs("address") = {} THEN {NoFlat}
  ELSE LedgerFlats \cup {NoFlat}

-----------------------------------------------------------------------------
\* The filing screen offers a signed row again, as it was signed; the ledger
\* offers the unsigned rows it prints, and to reveal the one it masks.
LedgerForm(r, value) == [row |-> r, value |-> value]
FilingForms ==
  {LedgerForm(r, IF IsSigned(r) THEN approvedAs[r] ELSE "read") : r \in captured}
Masked(r, revealed) == IsIdentifierField(r) /\ r # revealed
LedgerForms(revealed) ==
  {LedgerForm(r, "read") : r \in {q \in Unsigned : ~Masked(q, revealed)}}
BulkOffered == \E r \in Unsigned : ~PressedAlone(r)

ClerkFree(v) == inHand[v] = NoHand
DrawsTab(v, new) ==
  /\ ClerkFree(v)
  /\ tab' = [tab EXCEPT ![v] = new]
  /\ UNCHANGED <<paperVars, rowVars, approvedAs, draftVars, inHand, signatures>>

\* GET /documents/filing/:documentId, where links bring a lease: all of it as
\* printed, until there is a draft.
FilingTab ==
  IF ClosedLease THEN [NoTab EXCEPT !.page = "draft"]
  ELSE [NoTab EXCEPT !.page = "filing", !.forms = FilingForms, !.all = BulkOffered,
                     !.shown = captured]
OpensFiling(v) ==
  /\ paperType = "lease" /\ DrawsTab(v, FilingTab) /\ UNCHANGED disclosed

\* GET /documents/:documentId/fields; an open lease is sent to its filing.  A
\* closed one is shown and not signed.
LedgerTab(v, revealed) ==
  LET unmasked == {r \in captured : IsIdentifierField(r) /\ ~Masked(r, revealed)}
      drawn == [NoTab EXCEPT !.page = "ledger", !.shown = unmasked] IN
  IF ClosedLease THEN drawn
  ELSE [drawn EXCEPT !.forms = LedgerForms(revealed), !.all = BulkOffered,
          !.shown = unmasked \cup {r \in Unsigned : ~Masked(r, revealed)},
          !.reveals = {r \in Unsigned : v \in Confidants /\ Masked(r, revealed)}]
OpensLedger(v) ==
  /\ paperType = "lease" => ClosedLease
  /\ DrawsTab(v, LedgerTab(v, NoFlat)) /\ UNCHANGED disclosed

\* POST /documents/:documentId/fields/reveal: one row that is still there, an
\* identifier, written down and then drawn.
Reveals(v, r) ==
  /\ r \in tab[v].reveals \cap captured
  /\ disclosed' = disclosed \cup {<<v, r>>}
  /\ DrawsTab(v, LedgerTab(v, r))

\* GET /documents/:documentId/read.
OpensRead(v) ==
  LET unmasked == {r \in captured : v \in Confidants /\ IsIdentifierField(r)} IN
  /\ disclosed' = disclosed \cup ({v} \X unmasked)
  /\ DrawsTab(v, [NoTab EXCEPT !.page = "read", !.shown = unmasked])

\* GET /documents/filing/:documentId/open: the flat it would open on, among
\* the flats a search or the address lists; and, of a signed start, the
\* lettings that hold the same person from that day.
ListedFlats == IF leasePlace.kind = "anchor" THEN {{}} ELSE SUBSET LedgerFlats
OfferedFlats ==
  LET flats == UNION {FlatForOpening(asked) : asked \in LedgerFlats \cup {NoFlat}} IN
  {listed \cup ({flat} \ {NoFlat}) : listed \in ListedFlats, flat \in flats}
SameLease == IF SignedAs("start_date") = {} THEN {{}} ELSE SUBSET LedgerFlats
OpensOpening(v) ==
  /\ paperType = "lease" /\ ~ClosedLease
  /\ \E flats \in OfferedFlats, opens \in {LeaseCanOpen, FALSE}, lettings \in SameLease :
       DrawsTab(v, [NoTab EXCEPT !.page = "open", !.flats = flats, !.opens = opens,
                                 !.attach = lettings])
  /\ UNCHANGED disclosed

-----------------------------------------------------------------------------
\* A post leaves its page with a command in hand, or with nothing.
TakesPress(v, hand) ==
  /\ inHand' = [inHand EXCEPT ![v] = hand]
  /\ tab' = [tab EXCEPT ![v] = NoTab]
  /\ UNCHANGED <<paperVars, rowVars, disclosed>>

\* A row's form: refused when the reading is closed; the filing's route looks
\* the row up, and lets whoever sees the screen sign an identifier.
Presses(v, f, value) ==
  LET filing == tab[v].page = "filing" IN
  /\ ClerkFree(v) /\ f \in tab[v].forms
  /\ TakesPress(v, IF ClosedLease \/ (filing /\ f.row \notin captured) THEN NoHand
                   ELSE [does |-> "one", rows |-> {f.row}, value |-> value,
                         seen |-> f.row \in tab[v].shown,
                         may |-> filing \/ v \in Confidants])
  /\ UNCHANGED <<approvedAs, draftVars, signatures>>

PressesAll(v) ==
  /\ ClerkFree(v) /\ tab[v].all
  /\ TakesPress(v, IF ClosedLease THEN NoHand ELSE [NoHand EXCEPT !.does = "list"])
  /\ UNCHANGED <<approvedAs, draftVars, signatures>>

\* stamp: the value, over an earlier one or the first.
StampRows(v, rows, value, how) ==
  /\ Cardinality(signatures) < MaxStamps
  /\ approvedAs' = [r \in DOMAIN approvedAs \cup rows |->
                      IF r \in rows THEN value ELSE approvedAs[r]]
  /\ signatures' = signatures \cup
       {[row |-> r, how |-> how, seen |-> inHand[v].seen, value |-> value] : r \in rows}

\* A row is refused when it is gone, when it is an identifier this press may
\* not sign, when it was promoted, and when it says the same already.
Refuses(r, value, may) ==
  \/ r \notin captured
  \/ IsIdentifierField(r) /\ ~may
  \/ IsSigned(r) /\ (r \in carried \/ approvedAs[r] = value)

\* A phone or an email may moreover be no phone and no email.
ApproveExtractedField(v, badContact) ==
  LET hand == inHand[v]
      refused == \E r \in hand.rows :
                   Refuses(r, hand.value, hand.may) \/ (badContact /\ IsContactField(r)) IN
  /\ hand.does = "one"
  /\ \/ refused /\ UNCHANGED <<approvedAs, signatures>>
     \/ ~refused /\ StampRows(v, hand.rows, hand.value, "alone")
  /\ TakesPress(v, NoHand) /\ UNCHANGED draftVars

\* approveUnflagged lists the rows, and then locks and stamps each: one that
\* was signed meanwhile is passed over, one that is gone undoes them all.
ListsUnflagged(v) ==
  /\ inHand[v].does = "list"
  /\ TakesPress(v, [NoHand EXCEPT !.does = "all",
                                  !.rows = {r \in Unsigned : ~PressedAlone(r)}])
  /\ UNCHANGED <<approvedAs, draftVars, signatures>>
ApproveUnflagged(v) ==
  LET rows == inHand[v].rows IN
  /\ inHand[v].does = "all"
  /\ \/ rows \subseteq captured /\ StampRows(v, rows \ DOMAIN approvedAs, "read", "unflagged")
     \/ ~(rows \subseteq captured) /\ UNCHANGED <<approvedAs, signatures>>
  /\ TakesPress(v, NoHand) /\ UNCHANGED draftVars

\* openLeaseDraft on the flat the screen posts: one of those it listed, or
\* none.  Every date and every signed field with a column is carried.
Lands(rows) ==
  /\ rows \subseteq {r \in DOMAIN approvedAs : r[2] \in ColumnMapKeys}
  /\ \A key \in RequiredDates : \E r \in rows : r[2] = key
OpensDraft(v, posted, refused) ==
  /\ ClerkFree(v) /\ tab[v].opens
  /\ IF tab[v].flats = {} THEN posted = NoFlat ELSE posted \in tab[v].flats
  /\ \E flat \in FlatForOpening(posted) :
       IF ClosedLease \/ ~LeaseCanOpen \/ refused \/ flat = NoFlat
       THEN UNCHANGED draftVars
       ELSE /\ \E rows \in SUBSET DOMAIN approvedAs : Lands(rows) /\ carried' = rows
            /\ leaseDraft' = flat
            /\ linkedBy' = [how |-> "opened", flats |-> tab[v].flats]
  /\ TakesPress(v, NoHand) /\ UNCHANGED <<approvedAs, signatures>>

\* openLeaseDraft with attachTo: before any other refusal, a letting that is
\* still the same lease; nothing is carried.
AttachesLease(v, letting, gone) ==
  /\ ClerkFree(v) /\ letting \in tab[v].attach
  /\ IF ClosedLease \/ SignedAs("start_date") = {} \/ gone
     THEN UNCHANGED draftVars
     ELSE /\ leaseDraft' = letting /\ UNCHANGED carried
          /\ linkedBy' = [how |-> "attached", flats |-> tab[v].attach]
  /\ TakesPress(v, NoHand) /\ UNCHANGED <<approvedAs, signatures>>

\* A reading deletes the rows nobody signed or promoted, and inserts what it
\* found one row at a time; it may stop between two of them.
ReadingReplaces ==
  /\ begun < MaxReadings /\ begun' = begun + 1
  /\ captured' = captured \cap (DOMAIN approvedAs \cup carried)
  /\ legible' = legible \cap captured'
  /\ UNCHANGED <<paperVars, approvedAs, draftVars, tab, inHand, disclosed, signatures>>
ReadingInserts(key, clear) ==
  LET r == <<begun, key>> IN
  /\ begun > 0 /\ r \notin captured /\ (clear \/ key \in BlurredKeys)
  /\ captured' = captured \cup {r}
  /\ legible' = IF clear THEN legible \cup {r} ELSE legible
  /\ UNCHANGED <<begun, paperVars, approvedAs, draftVars, tab, inHand, disclosed, signatures>>

DeclaredKeys == IF paperType = "lease" THEN LeaseKeys ELSE OtherKeys

LedgerNext ==
  \/ \E v \in Clerks :
       \/ OpensFiling(v) \/ OpensLedger(v) \/ OpensRead(v) \/ OpensOpening(v)
       \/ \E r \in tab[v].reveals : Reveals(v, r)
       \/ \E f \in tab[v].forms, value \in SignedValues : Presses(v, f, value)
       \/ PressesAll(v) \/ ListsUnflagged(v) \/ ApproveUnflagged(v)
       \/ \E badContact \in BOOLEAN : ApproveExtractedField(v, badContact)
       \/ \E posted \in LedgerFlats \cup {NoFlat}, refused \in BOOLEAN :
            OpensDraft(v, posted, refused)
       \/ \E letting \in tab[v].attach, gone \in BOOLEAN : AttachesLease(v, letting, gone)
  \/ ReadingReplaces
  \/ \E key \in DeclaredKeys, clear \in BOOLEAN : ReadingInserts(key, clear)

-----------------------------------------------------------------------------
\* approve.ts: somebody who was never shown the value may not sign for it; and
\* the bulk press signs no identifier and no contact, on a lease no name, date
\* or address, and nothing the reader could not measure.
SignedAsSeen ==
  \A s \in signatures :
    /\ s.how = "alone" => s.seen
    /\ s.how = "unflagged" =>
         /\ ~IsIdentifierField(s.row) /\ ~IsContactField(s.row) /\ s.row \in legible
         /\ paperType = "lease" => s.row[2] \notin LeaseIdentityAndAccess

\* Whoever was shown an identifier outside the filing screen is in the log.
DisclosedIsWritten ==
  \A v \in Clerks : tab[v].page # "filing" =>
    \A r \in tab[v].shown : IsIdentifierField(r) => <<v, r>> \in disclosed

\* The filing screen has no dead end: of the read rows a draft waits for, each
\* is on it with a form the command takes.
GapsHaveForms ==
  paperType = "lease" /\ ~ClosedLease =>
    \A r \in LedgerGaps : \E f \in FilingForms : f.row = r /\ ~Refuses(r, f.value, TRUE)

\* A draft opens from a signed main tenant and signed dates, whatever was read
\* again since its screen was drawn, and on a flat that screen offered; if it
\* offered none, on what the address signed since leads to.  A lease that is
\* attached goes to a letting that was offered, and carries nothing.
DraftAsShown ==
  leaseDraft # NoFlat =>
    /\ linkedBy.how = "opened" =>
         /\ SignedAs("main_tenant_name") \cup SignedAs("tenant_name") # {}
         /\ \A key \in RequiredDates : SignedAs(key) \cap carried # {}
         /\ linkedBy.flats # {} => leaseDraft \in linkedBy.flats
    /\ linkedBy.how = "attached" => leaseDraft \in linkedBy.flats /\ carried = {}

LedgerHolds == SignedAsSeen /\ DisclosedIsWritten /\ GapsHaveForms /\ DraftAsShown
=============================================================================
