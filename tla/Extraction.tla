------------------------------ MODULE Extraction ------------------------------
(***************************************************************************)
(* The one kind of work the runner does: reading a filed document          *)
(* (runExtractWork in evidence/internal/intake.ts).  The handler asks the  *)
(* reader for the declared fields and replaces the rows nobody has signed. *)
(* A document's passages, one for each page, are written by the request    *)
(* that files it, once its drain has come to an end; only where pages were *)
(* left to read does the handler write them.  Every statement commits      *)
(* alone, so a run that stops, or two runs of one job, leave what they     *)
(* wrote.                                                                  *)
(*                                                                         *)
(* Composes WorkRunner: each of its steps is a step here, and a handler    *)
(* returns only when it has come to its end.  An instance files one        *)
(* document that it drains for at a time, and has an embedder.             *)
(***************************************************************************)
EXTENDS WorkRunner

CONSTANTS
  Fields,         \* fields declared on the document type and found on paper
  Pages,          \* pages of a document
  MaxRows,        \* bound: unsigned rows of one field, one for each loop
  MaxSigned       \* bound: rows of one field that a person signs

\* A document has a page.
ASSUME ExtractionAssumption ==
  /\ MaxRows \in Nat /\ MaxSigned \in Nat
  /\ Pages \subseteq Nat /\ Pages # {}

VARIABLES
  unsigned,   \* extracted_field: rows with no stamp, by job and field
  signed,     \* extracted_field: rows a person approved
  passages,   \* document_passage: the pages stored
  mapped,     \* history: jobs the reader answered for when last asked
  unread,     \* scheduled_work.payload: jobs with pages left to read
  handler,    \* where each loop's handler is, and what it still has to write
  writer      \* where each instance's filing request is, and its pages to write

store == <<unsigned, signed, passages, mapped>>
allVars == <<vars, store, unread, handler, writer>>

Handler ==
  [at: {"map", "replace", "insert", "passages", "end"},
   todo: SUBSET (Fields \cup Pages)]

Begin == [at |-> "map", todo |-> {}]

Writer ==
  [at: {"none", "drain", "passages"}, job: Jobs \cup {NoJob},
   todo: SUBSET Pages]

NoWriter == [at |-> "none", job |-> NoJob, todo |-> {}]

ExtractionTypeOK ==
  /\ TypeOK
  /\ unsigned \in [Jobs -> [Fields -> 0..MaxRows]]
  /\ signed \in [Jobs -> [Fields -> 0..MaxSigned]]
  /\ passages \in [Jobs -> SUBSET Pages]
  /\ mapped \subseteq Jobs
  /\ unread \subseteq Jobs
  /\ handler \in [Runners -> Handler]
  /\ writer \in [Instances -> Writer]

ExtractionInit ==
  /\ Init
  /\ unsigned = [j \in Jobs |-> [k \in Fields |-> 0]]
  /\ signed = [j \in Jobs |-> [k \in Fields |-> 0]]
  /\ passages = [j \in Jobs |-> {}]
  /\ mapped = {}
  /\ unread = {}
  /\ handler = [r \in Runners |-> Begin]
  /\ writer = [i \in Instances |-> NoWriter]

-----------------------------------------------------------------------------
Running(r, step) == loop[r].pc = "handling" /\ handler[r].at = step
Move(r, step, todo) ==
  handler' = [handler EXCEPT ![r] = [at |-> step, todo |-> todo]]

\* writeDocumentPassages reads what is stored before it embeds and inserts.
PagesToWrite(j) == IF passages[j] = {} THEN Pages ELSE {}

\* What follows the fields: the passages, where pages were left to read.
ReadOn(r) ==
  LET j == loop[r].job IN
  IF j \in unread THEN Move(r, "passages", PagesToWrite(j)) ELSE Move(r, "end", {})

MapFields(r) ==
  /\ Running(r, "map")
  /\ mapped' = mapped \cup {loop[r].job}
  /\ Move(r, "replace", {})
  /\ UNCHANGED <<vars, unsigned, signed, passages, unread, writer>>

\* "unavailable" is audited, and the reading goes on without the fields.
ReaderUnavailable(r) ==
  /\ Running(r, "map")
  /\ mapped' = mapped \ {loop[r].job}
  /\ ReadOn(r)
  /\ UNCHANGED <<vars, unsigned, signed, passages, unread, writer>>

DeleteNothing(r) ==
  /\ Running(r, "replace")
  /\ Move(r, "insert", Fields)
  /\ UNCHANGED <<vars, store, unread, writer>>

DeleteUnsigned(r) ==
  /\ Running(r, "replace")
  /\ unsigned' = [unsigned EXCEPT ![loop[r].job] = [k \in Fields |-> 0]]
  /\ Move(r, "insert", Fields)
  /\ UNCHANGED <<vars, signed, passages, mapped, unread, writer>>

InsertField(r) ==
  LET j == loop[r].job IN
  /\ Running(r, "insert")
  /\ \E k \in handler[r].todo :
       /\ unsigned[j][k] < MaxRows
       /\ unsigned' = [unsigned EXCEPT ![j][k] = @ + 1]
       /\ Move(r, "insert", handler[r].todo \ {k})
  /\ UNCHANGED <<vars, signed, passages, mapped, unread, writer>>

FieldsWritten(r) ==
  /\ Running(r, "insert") /\ handler[r].todo = {}
  /\ ReadOn(r)
  /\ UNCHANGED <<vars, store, unread, writer>>

\* One passage for each page, in page order; a page already stored is a
\* unique violation, and the handler throws.
InsertPassage(r) ==
  LET j == loop[r].job IN
  /\ Running(r, "passages")
  /\ \E page \in handler[r].todo :
       /\ \A q \in handler[r].todo : page <= q
       /\ IF page \in passages[j]
            THEN /\ loop' = [loop EXCEPT ![r].pc = "threw"]
                 /\ UNCHANGED <<passages, handler>>
            ELSE /\ passages' = [passages EXCEPT ![j] = @ \cup {page}]
                 /\ Move(r, "passages", handler[r].todo \ {page})
                 /\ UNCHANGED loop
  /\ UNCHANGED <<row, runAt, bound, returned, cancelled, overrun, failures,
                 restarts, unsigned, signed, mapped, unread, writer>>

PassagesWritten(r) ==
  /\ Running(r, "passages") /\ handler[r].todo = {}
  /\ Move(r, "end", {})
  /\ UNCHANGED <<vars, store, unread, writer>>

\* approveExtractedField: a person signs one row of a field.
Approve(j, k) ==
  /\ unsigned[j][k] > 0 /\ signed[j][k] < MaxSigned
  /\ unsigned' = [unsigned EXCEPT ![j][k] = @ - 1]
  /\ signed' = [signed EXCEPT ![j][k] = @ + 1]
  /\ UNCHANGED <<vars, passages, mapped, unread, handler, writer>>

-----------------------------------------------------------------------------
(* The request that files: where pages are left to read it puts all off    *)
(* for the timer; otherwise it drains the table and then writes the        *)
(* passages.  Filed again, the row keeps the payload it has.               *)
FileDocument(i, j, left) ==
  /\ File(i, j, ~left)
  /\ unread' = IF left /\ row[j].state = "absent" THEN unread \cup {j} ELSE unread
  /\ \/ left /\ writer' = writer
     \/ /\ ~left
        /\ writer[i].at = "none" /\ loop[<<i, "request">>].pc = "off"
        /\ writer' = [writer EXCEPT ![i] = [at |-> "drain", job |-> j, todo |-> {}]]
  /\ UNCHANGED <<store, handler>>

\* The drain has come to its end: what is stored is read, before the embedder
\* is asked.
ReadStored(i) ==
  /\ writer[i].at = "drain" /\ loop[<<i, "request">>].pc = "off"
  /\ writer' = [writer EXCEPT ![i].at = "passages",
                              ![i].todo = PagesToWrite(writer[i].job)]
  /\ UNCHANGED <<vars, store, unread, handler>>

WritePassage(i) ==
  LET j == writer[i].job IN
  /\ writer[i].at = "passages"
  /\ \E page \in writer[i].todo :
       /\ \A q \in writer[i].todo : page <= q
       /\ IF page \in passages[j]
            THEN /\ writer' = [writer EXCEPT ![i] = NoWriter]
                 /\ UNCHANGED passages
            ELSE /\ passages' = [passages EXCEPT ![j] = @ \cup {page}]
                 /\ writer' = [writer EXCEPT ![i].todo = @ \ {page}]
  /\ UNCHANGED <<vars, unsigned, signed, mapped, unread, handler>>

\* The request ends, with all written or because the embedder or a statement
\* failed.
WriterEnds(i) ==
  /\ writer[i].at = "passages"
  /\ writer' = [writer EXCEPT ![i] = NoWriter]
  /\ UNCHANGED <<vars, store, unread, handler>>

-----------------------------------------------------------------------------
(* The steps of the runner, with the handler they run.  A request ends with *)
(* its instance, and with a drain whose release fails.                     *)
StartHandler(r) ==
  Claim(r) /\ Move(r, "map", {}) /\ UNCHANGED <<store, unread, writer>>

FinishHandler(r) ==
  /\ handler[r].at = "end"
  /\ HandlerReturns(r)
  /\ UNCHANGED <<store, unread, handler, writer>>

InstanceRestarts(i) ==
  /\ Restart(i)
  /\ writer' = [writer EXCEPT ![i] = NoWriter]
  /\ UNCHANGED <<store, unread, handler>>

TickThrows(r) ==
  /\ ReleaseFails(r)
  /\ writer' = IF r[2] = "request" THEN [writer EXCEPT ![r[1]] = NoWriter]
               ELSE writer
  /\ UNCHANGED <<store, unread, handler>>

OtherRunnerStep ==
  /\ \/ \E r \in Runners :
          \/ DrainEnds(r) \/ MarkDone(r) \/ MarkDoneFails(r) \/ Release(r)
          \/ handler[r].at # "end" /\ HandlerThrows(r)
     \/ Tick
  /\ UNCHANGED <<store, unread, handler, writer>>

Reading(r) ==
  \/ MapFields(r) \/ ReaderUnavailable(r)
  \/ DeleteUnsigned(r) \/ InsertField(r) \/ FieldsWritten(r)
  \/ InsertPassage(r) \/ PassagesWritten(r)

RequestStep(i) ==
  \/ \E j \in Jobs, left \in BOOLEAN : FileDocument(i, j, left)
  \/ ReadStored(i) \/ WritePassage(i) \/ WriterEnds(i)
  \/ InstanceRestarts(i)

ExtractionNext ==
  \/ \E i \in Instances : RequestStep(i)
  \/ \E r \in Runners :
       StartHandler(r) \/ FinishHandler(r) \/ Reading(r) \/ TickThrows(r)
  \/ \E j \in Jobs, k \in Fields : Approve(j, k)
  \/ OtherRunnerStep

ExtractionSpec == ExtractionInit /\ [][ExtractionNext]_allVars

-----------------------------------------------------------------------------
(* SPEC-evidence.md: re-extract replaces the rows nobody signed, so a      *)
(* field has two of them to sign only where a loop outstayed its lease and *)
(* a second one read beside it.                                            *)
OneUnsignedRow ==
  \A j \in Jobs \ overrun, k \in Fields : unsigned[j][k] <= 1

(* A document marked done whose reader answered when last asked has a row  *)
(* for every field that was found, but for the same case: no stop half-way *)
(* leaves a part of a reading for the whole.                               *)
DoneIsRead ==
  \A j \in Jobs \ overrun :
    row[j].state = "done" /\ j \in mapped =>
      \A k \in Fields : unsigned[j][k] + signed[j][k] > 0

(* The passages stored are always those of the first pages, whoever writes *)
(* them and however many at once, and a document with pages left to read   *)
(* has some when it is done: a failure between two pages, after which the  *)
(* retry writes no more, can only cost the last ones.                      *)
FirstPages(S) == \A p \in S, q \in Pages : q < p => q \in S
DoneHasFirstPages ==
  \A j \in Jobs :
    /\ FirstPages(passages[j])
    /\ j \in unread /\ row[j].state = "done" => passages[j] # {}

(* What readings that stop half-way and are run again leave is one whole   *)
(* reading.                                                                *)
ReadingIsWhole == OneUnsignedRow /\ DoneIsRead /\ DoneHasFirstPages

=============================================================================
