-------------------------------- MODULE Filing --------------------------------
(***************************************************************************)
(* Filing one document (evidence/internal/intake.ts) from every door that  *)
(* takes a file: the flat's form, the letting's protocol well, the lease   *)
(* that is stored unassigned, and the intake that reads its place off the  *)
(* paper.  A filing is no transaction: reading, looking the hash up,       *)
(* putting the object, the row, the links, the audit line and the work are *)
(* steps of their own, and other filings run between any two of them.      *)
(*                                                                         *)
(* The bucket is create-only: putting over an object throws.  The row's    *)
(* hash is unique, and a second insert keeps the first row's place.  A     *)
(* filing that throws or is cut off leaves what it has written.            *)
(*                                                                         *)
(* Abstracted: the declared type of a paper goes with its door, a lease    *)
(* being the one stored unassigned; the reading's own steps and the work   *)
(* once scheduled are Extraction's.  The run is one day long.              *)
(***************************************************************************)
EXTENDS Naturals, FiniteSets

CONSTANTS
  Papers,         \* files, told apart by the hash of their bytes
  Flats,          \* places a file is filed against
  Loose,          \* the place of a lease stored unassigned
  Nowhere,        \* no row, no place
  Filers,         \* requests of one operator that may run at a time
  UploadsPerDay,  \* UPLOADS_PER_DAY
  MaxThrown       \* bound: filings cut off or failing half-way

ASSUME FilingAssumption ==
  /\ {Loose, Nowhere} \cap Flats = {} /\ Loose # Nowhere /\ IsFiniteSet(Filers)
  /\ UploadsPerDay \in Nat \ {0} /\ MaxThrown \in Nat

VARIABLES
  objects,    \* the bucket: paths, a place and a hash
  documents,  \* document: the place in storage_uri, by hash
  subjects,   \* document_link: SUBJECT places
  bounded,    \* document_link: papers that are EVIDENCE of a letting
  extracts,   \* work_item: papers whose reading is scheduled
  filings,    \* the requests in hand
  counted,    \* audit_log: lines the cap counts
  spent,      \* history: readings made, but for those a lease door refused
  thrown      \* filings cut off or failing half-way

filingVars ==
  <<objects, documents, subjects, bounded, extracts, filings, counted, spent,
    thrown>>

Places == Flats \cup {Loose}
FilingSteps ==
  {"idle", "read", "lookup", "put", "ingest", "link", "bind", "audit", "work"}
FilingInHand ==
  [at: FilingSteps, paper: Papers \cup {Nowhere}, place: Places \cup {Nowhere},
   letting: BOOLEAN]
NoFiling ==
  [at |-> "idle", paper |-> Nowhere, place |-> Nowhere, letting |-> FALSE]

FilingTypeOK ==
  /\ objects \subseteq Places \X Papers
  /\ documents \in [Papers -> Places \cup {Nowhere}]
  /\ subjects \in [Papers -> SUBSET Flats]
  /\ bounded \subseteq Papers /\ extracts \subseteq Papers
  /\ filings \in [Filers -> FilingInHand]
  /\ counted \in Nat /\ spent \in Nat /\ thrown \in 0..MaxThrown

FilingInit ==
  /\ objects = {} /\ bounded = {} /\ extracts = {}
  /\ documents = [p \in Papers |-> Nowhere]
  /\ subjects = [p \in Papers |-> {}]
  /\ filings = [f \in Filers |-> NoFiling]
  /\ counted = 0 /\ spent = 0 /\ thrown = 0

-----------------------------------------------------------------------------
FilingAt(f, step) == filings[f].at = step
Filed(p) == documents[p] # Nowhere
FilingGoes(f, step) == filings' = [filings EXCEPT ![f].at = step]
FilingEnds(f) == filings' = [filings EXCEPT ![f] = NoFiling]
Unwritten == UNCHANGED <<objects, documents, subjects, bounded, extracts>>

\* The cap is asked before a byte is read.
UnderTheCap == counted < UploadsPerDay

\* POST /documents, or an intake whose flat the operator ticked; the lease door
\* takes no place.  Only a filing against a flat may name a letting.
Upload(f, p, place, letting) ==
  /\ FilingAt(f, "idle") /\ UnderTheCap
  /\ letting => place # Loose
  /\ filings' = [filings EXCEPT ![f] =
       [at |-> "read", paper |-> p, place |-> place, letting |-> letting]]
  /\ Unwritten /\ UNCHANGED <<counted, spent, thrown>>

\* The protocol well of a draft: the flat and the letting are the address.
UploadProtocol(f, p, flat) ==
  /\ flat \in Flats
  /\ Upload(f, p, flat, TRUE)

\* POST /documents/filing looks the bytes up before it reads them: no reading,
\* no line.
LeaseDoorKnows(f) ==
  /\ FilingAt(f, "read") /\ filings[f].place = Loose
  /\ Filed(filings[f].paper)
  /\ FilingEnds(f) /\ Unwritten /\ UNCHANGED <<counted, spent, thrown>>

\* The reading's verdict: the terms are there, or the form has none.
ReadPaper(f) ==
  /\ FilingAt(f, "read")
  /\ spent' = spent + 1 /\ FilingGoes(f, "lookup")
  /\ Unwritten /\ UNCHANGED <<counted, thrown>>

\* Too large, the terms missing, or an address that names no one flat: nothing
\* is written but the line.
RefusedReading(f) ==
  /\ FilingAt(f, "read")
  /\ spent' = spent + 1
  /\ counted' = counted + 1
  /\ FilingEnds(f) /\ Unwritten /\ UNCHANGED thrown

\* The lease doors refuse before fileDocument is reached, without a line.
LeaseDoorRefuses(f) ==
  /\ FilingAt(f, "read") /\ filings[f].place = Loose
  /\ FilingEnds(f) /\ Unwritten /\ UNCHANGED <<counted, spent, thrown>>

\* The same bytes are filed again at their own place only, never unassigned.
AnchoredElsewhere(f) ==
  LET p == filings[f].paper IN
  /\ Filed(p)
  /\ filings[f].place = Loose \/ documents[p] # filings[f].place

\* A put before the row, so that no row points at an object that is not there.
RowFirst(known) == "ingest"
AfterLookup(known) == IF known THEN "ingest" ELSE "put"

LookUp(f) ==
  /\ FilingAt(f, "lookup")
  /\ IF AnchoredElsewhere(f)
     THEN FilingEnds(f) /\ counted' = counted + 1
     ELSE FilingGoes(f, AfterLookup(Filed(filings[f].paper))) /\ UNCHANGED counted
  /\ Unwritten /\ UNCHANGED <<spent, thrown>>

PathOf(f) == <<filings[f].place, filings[f].paper>>

PutPaper(f) ==
  /\ FilingAt(f, "put") /\ PathOf(f) \notin objects
  /\ objects' = objects \cup {PathOf(f)} /\ FilingGoes(f, "ingest")
  /\ UNCHANGED <<documents, subjects, bounded, extracts, counted, spent, thrown>>

\* The path already holds an object: the bucket refuses, and the filing throws
\* with no line.
PutRefused(f) ==
  /\ FilingAt(f, "put") /\ PathOf(f) \in objects /\ thrown < MaxThrown
  /\ thrown' = thrown + 1 /\ FilingEnds(f)
  /\ Unwritten /\ UNCHANGED <<counted, spent>>

IngestDocument(f) ==
  LET p == filings[f].paper IN
  /\ FilingAt(f, "ingest")
  /\ documents' = IF Filed(p) THEN documents
                  ELSE [documents EXCEPT ![p] = filings[f].place]
  /\ FilingGoes(f, "link")
  /\ UNCHANGED <<objects, subjects, bounded, extracts, counted, spent, thrown>>

\* A flat's paper is linked to the flat asked for.  An unassigned lease gets
\* its proposal beside it instead, an object no other path names.
LinkPlace(f) ==
  LET p == filings[f].paper IN
  /\ FilingAt(f, "link")
  /\ subjects' = IF filings[f].place = Loose THEN subjects
                 ELSE [subjects EXCEPT ![p] = @ \cup {filings[f].place}]
  /\ FilingGoes(f, IF filings[f].letting THEN "bind" ELSE "audit")
  /\ UNCHANGED <<objects, documents, bounded, extracts, counted, spent, thrown>>

BindLetting(f) ==
  /\ FilingAt(f, "bind")
  /\ bounded' = bounded \cup {filings[f].paper} /\ FilingGoes(f, "audit")
  /\ UNCHANGED <<objects, documents, subjects, extracts, counted, spent, thrown>>

AuditFiling(f) ==
  /\ FilingAt(f, "audit")
  /\ counted' = counted + 1 /\ FilingGoes(f, "work")
  /\ Unwritten /\ UNCHANGED <<spent, thrown>>

\* The intent key is the document's: a second scheduling finds the first.
ScheduleExtract(f) ==
  /\ FilingAt(f, "work")
  /\ extracts' = extracts \cup {filings[f].paper} /\ FilingEnds(f)
  /\ UNCHANGED <<objects, documents, subjects, bounded, counted, spent, thrown>>

\* The process stops, or a statement fails, between two steps.
CutOff(f) ==
  /\ filings[f].at \notin {"idle", "read"} /\ thrown < MaxThrown
  /\ thrown' = thrown + 1 /\ FilingEnds(f)
  /\ Unwritten /\ UNCHANGED <<counted, spent>>

\* openLeaseDraft locks the row: an unassigned lease gets its flat once.
AnchorOfLoose(p, flat) ==
  /\ documents[p] = Loose /\ subjects[p] = {}
  /\ subjects' = [subjects EXCEPT ![p] = {flat}] /\ bounded' = bounded \cup {p}
  /\ UNCHANGED <<objects, documents, extracts, filings, counted, spent, thrown>>

FilingNext ==
  \/ \E f \in Filers, p \in Papers :
       \/ \E place \in Places, letting \in BOOLEAN : Upload(f, p, place, letting)
       \/ \E flat \in Flats : UploadProtocol(f, p, flat)
  \/ \E f \in Filers :
       \/ LeaseDoorKnows(f) \/ LeaseDoorRefuses(f) \/ ReadPaper(f) \/ RefusedReading(f) \/ LookUp(f)
       \/ PutPaper(f) \/ PutRefused(f) \/ IngestDocument(f) \/ LinkPlace(f)
       \/ BindLetting(f) \/ AuditFiling(f) \/ ScheduleExtract(f) \/ CutOff(f)
  \/ \E p \in Papers, flat \in Flats : AnchorOfLoose(p, flat)

FilingSpec == FilingInit /\ [][FilingNext]_filingVars

-----------------------------------------------------------------------------
\* A document the system lists can be opened: whatever was cut off, and
\* whichever two filings raced, its row names an object that was put.
RowHasItsObject ==
  \A p \in Papers : Filed(p) => <<documents[p], p>> \in objects

\* "Both outcomes count" (routes.ts:242): the day's cap bounds what was read
\* and not what was filed.  It is passed by the other requests in hand and by
\* filings that threw, and by nothing else but the lease doors' refusals.
ReadingsAreRationed ==
  spent <= UploadsPerDay + Cardinality(Filers) - 1 + thrown

\* A filing cut off or raced leaves neither a row without bytes nor readings
\* beyond the day's.
FilingHolds == RowHasItsObject /\ ReadingsAreRationed

\* "fileDocument refuses a second place, so nothing new diverges"
\* (documents.ts:165): a document is about one place.
OneAnchor ==
  \A p \in Papers :
    /\ documents[p] \in Flats => subjects[p] \subseteq {documents[p]}
    /\ Cardinality(subjects[p]) <= 1

\* "An object with no row is invisible and costs storage" (intake.ts:329): it
\* keeps no later filing of the same bytes from being filed.
ObjectIsInvisible ==
  \A f \in Filers :
    FilingAt(f, "put") /\ PathOf(f) \in objects =>
      \E g \in Filers \ {f} : filings[g].paper = filings[f].paper
=============================================================================
