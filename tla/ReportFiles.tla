----------------------------- MODULE ReportFiles -----------------------------
(***************************************************************************)
(* A tenant's report and its files (channel/internal/holds.ts,             *)
(* attachments.ts, the portal's report and follow-up pages, and app.ts,    *)
(* which joins them): files are scanned and held while the form is filled, *)
(* a send lists them and stores one message, and the office opens and      *)
(* files what the message points at.                                       *)
(*                                                                         *)
(* One tenant's one submission key.  Abstracted: the bytes, their type and *)
(* size (a file that is not of the list, or too large, is never stored),   *)
(* labels, the steps between which the page keeps the form's fields.       *)
(***************************************************************************)
EXTENDS Naturals, FiniteSets

CONSTANTS
  Files,          \* files the tenant adds
  Sends,          \* presses of the send button
  Clerks,         \* staff who file an attachment as a document
  ReportFileMax,  \* REPORT_FILE_MAX
  MaxOffers       \* bound: how often the category is retired or offered again

ASSUME ReportFileMaxAssumption == ReportFileMax \in Nat \ {0}
ASSUME MaxOffersAssumption == MaxOffers \in Nat

VARIABLES
  upload,    \* how far each file's request is, and what became of its hold
  verdict,   \* what the scanner said of each file's object
  offers,    \* category changes so far: an even number means it is active
  send,      \* each send: its step, its form and the holds it listed
  report,    \* the message of the key, once it is stored
  clerk,     \* the file each clerk holds the message's row for
  documents  \* documents filed from each attachment

reportVars == <<upload, verdict, offers, send, report, clerk, documents>>

Fields == {"category", "text", "entry"}
NoReport == [stored |-> FALSE, form |-> {}, files |-> {}]
IdleSend == [pc |-> "idle", form |-> {}, ids |-> {}]

ReportTypeOK ==
  /\ upload \in [Files ->
       {"new", "room", "scan", "save", "held", "removed", "refused"}]
  /\ verdict \in [Files -> {"none", "clean", "infected", "unavailable"}]
  /\ offers \in 0..MaxOffers
  /\ send \in [Sends -> [pc: {"idle", "list", "store", "done", "refused"},
                         form: SUBSET Fields, ids: SUBSET Files]]
  /\ report \in [stored: BOOLEAN, form: SUBSET Fields, files: SUBSET Files]
  /\ clerk \in [Clerks -> SUBSET Files]
  /\ documents \in [Files -> Nat]

ReportInit ==
  /\ upload = [f \in Files |-> "new"]
  /\ verdict = [f \in Files |-> "none"]
  /\ offers = 0
  /\ send = [s \in Sends |-> IdleSend]
  /\ report = NoReport
  /\ clerk = [c \in Clerks |-> {}]
  /\ documents = [f \in Files |-> 0]

-----------------------------------------------------------------------------
(* holdAttachment: room, the object, the scan, and room again with the row.*)
Held == {f \in Files : upload[f] = "held"}
RoomForAnother == Cardinality(Held) < ReportFileMax
RoomWasAsked == TRUE
RoomAtTheRow == RoomForAnother
Reach(f, step) == upload' = [upload EXCEPT ![f] = step]

AskRoom(f) ==
  /\ upload[f] = "new"
  /\ Reach(f, IF RoomForAnother THEN "room" ELSE "refused")
  /\ UNCHANGED <<verdict, offers, send, report, clerk, documents>>

PutObject(f) ==
  /\ upload[f] = "room"
  /\ Reach(f, "scan")
  /\ UNCHANGED <<verdict, offers, send, report, clerk, documents>>

\* No scanner, or one that failed, is unavailable: the object stays, unheld.
ScanObject(f, said) ==
  /\ upload[f] = "scan"
  /\ verdict' = [verdict EXCEPT ![f] = said]
  /\ Reach(f, IF said = "clean" THEN "save" ELSE "refused")
  /\ UNCHANGED <<offers, send, report, clerk, documents>>

\* The second count and the insert, under the submission's advisory lock.
SaveHold(f) ==
  /\ upload[f] = "save"
  /\ Reach(f, IF RoomAtTheRow THEN "held" ELSE "refused")
  /\ UNCHANGED <<verdict, offers, send, report, clerk, documents>>

\* From the page, or from an older page once the report is sent.
RemoveHold(f) ==
  /\ upload[f] = "held"
  /\ Reach(f, "removed")
  /\ UNCHANGED <<verdict, offers, send, report, clerk, documents>>

-----------------------------------------------------------------------------
(* Sending: the fields are the browser's and are all asked for again.      *)
UpsertReportCategory ==
  /\ offers < MaxOffers
  /\ offers' = offers + 1
  /\ UNCHANGED <<upload, verdict, send, report, clerk, documents>>

Sendable(form) == form = Fields /\ offers % 2 = 0

SendReport(s, form) ==
  /\ send[s].pc = "idle"
  /\ send' = [send EXCEPT ![s] = [pc |-> IF Sendable(form) THEN "list" ELSE "refused",
                                  form |-> form, ids |-> {}]]
  /\ UNCHANGED <<upload, verdict, offers, report, clerk, documents>>

ListHolds(s) ==
  /\ send[s].pc = "list"
  /\ send' = [send EXCEPT ![s].pc = "store", ![s].ids = Held]
  /\ UNCHANGED <<upload, verdict, offers, report, clerk, documents>>

\* receiveIncoming (IntakeDoor): the door refuses a list above the cap, takes
\* what is still held of it, and a key that is stored is not stored again.
StoreReport(s) ==
  /\ send[s].pc = "store"
  /\ send' = [send EXCEPT ![s].pc =
       IF Cardinality(send[s].ids) > ReportFileMax THEN "refused" ELSE "done"]
  /\ report' =
       IF report.stored \/ Cardinality(send[s].ids) > ReportFileMax THEN report
       ELSE [stored |-> TRUE, form |-> send[s].form, files |-> send[s].ids \cap Held]
  /\ UNCHANGED <<upload, verdict, offers, clerk, documents>>

-----------------------------------------------------------------------------
(* fileAttachment, on the message's row, locked.                           *)
Unlocked == \A c \in Clerks : clerk[c] = {}
FileUnlocked(f) == TRUE
FileLocked(f) == Unlocked

LockAttachment(c, f) ==
  /\ clerk[c] = {} /\ FileLocked(f)
  /\ report.stored /\ f \in report.files
  /\ documents[f] = 0 /\ verdict[f] = "clean"
  /\ clerk' = [clerk EXCEPT ![c] = {f}]
  /\ UNCHANGED <<upload, verdict, offers, send, report, documents>>

\* fileDocument wrote the document and the row takes its id, or both roll back.
FileAttachment(c, f, ok) ==
  /\ clerk[c] = {f}
  /\ clerk' = [clerk EXCEPT ![c] = {}]
  /\ documents' = IF ok THEN [documents EXCEPT ![f] = @ + 1] ELSE documents
  /\ UNCHANGED <<upload, verdict, offers, send, report>>

ReportNext ==
  \/ \E f \in Files :
       \/ AskRoom(f) \/ PutObject(f) \/ SaveHold(f) \/ RemoveHold(f)
       \/ \E said \in {"clean", "infected", "unavailable"} : ScanObject(f, said)
  \/ UpsertReportCategory
  \/ \E s \in Sends :
       \/ \E form \in SUBSET Fields : SendReport(s, form)
       \/ ListHolds(s) \/ StoreReport(s)
  \/ \E c \in Clerks, f \in Files :
       LockAttachment(c, f) \/ \E ok \in BOOLEAN : FileAttachment(c, f, ok)

ReportSpec == ReportInit /\ [][ReportNext]_reportVars

-----------------------------------------------------------------------------
(* SPEC-channel.md: a report carries at most eight files, all scanned      *)
(* clean.  However many uploads race, no more are held than a send may     *)
(* carry (a ninth would leave a report that cannot be sent), and the one   *)
(* message that is stored has every field and clean files only.            *)
ReportIsWhole ==
  /\ Cardinality(Held) <= ReportFileMax
  /\ report.stored =>
       /\ report.form = Fields
       /\ \A f \in report.files : verdict[f] = "clean"

(* SPEC-channel.md: filing that same attachment again is that document,    *)
(* also when two of the office press the button at once.                   *)
OneDocumentPerAttachment == \A f \in Files : documents[f] <= 1

\* From the upload to the document a file keeps its promises.
FilesKeepTheirWord == ReportIsWhole /\ OneDocumentPerAttachment
=============================================================================
