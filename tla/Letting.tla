------------------------------- MODULE Letting --------------------------------
(***************************************************************************)
(* The lettings of one flat, from the paper to the end: signing what was   *)
(* read of a lease, opening its draft, activating it, amending its end by  *)
(* an addendum, taking its option, ending it early or by the clock, and    *)
(* the register's import                                                   *)
(* (tenancy/internal/commands.ts, activation.ts; evidence/internal/        *)
(* lease.ts, approve.ts, promote.ts; register/internal/importer.ts).       *)
(*                                                                         *)
(* Each command reads first and writes later, in a transaction that locks  *)
(* at most the document or the reading, so commands overlap between their  *)
(* reads and their commit.  Activation and taking an option are no         *)
(* transactions at all: their event is a statement of its own.             *)
(*                                                                         *)
(* Abstracted: people and places; the end date stands for every column a   *)
(* paper carries, the option's end date is any later day, and the start    *)
(* date, which names a letting, is read right at once.                     *)
(***************************************************************************)
EXTENDS Naturals, Sequences, SequencesExt

CONSTANTS
  Requests,      \* requests of the office under way at once
  Leases,        \* documents that open or join a letting
  Amendments,    \* addenda, each filed on a letting
  MaxDay,        \* bound: the last day of the calendar
  MaxSignings,   \* bound: presses that sign a reading
  MaxPaperless,  \* bound: writes of no paper: imported rows, options taken
  Nobody

ASSUME DocumentsAssumption ==
  Leases \cap Amendments = {} /\ Nobody \notin Leases \cup Amendments
ASSUME BoundsAssumption == {MaxDay, MaxSignings, MaxPaperless} \subseteq Nat

VARIABLES
  today,       \* the office's day
  startOf,     \* the start date each lease names
  reading,     \* extracted_field: the signed end date, and whether promoted
  linked,      \* document_link to a tenancy, by the tenancy's start date
  letting,     \* tenancy, by its natural key
  events,      \* tenancy_event of the status and the option, by letting
  stamps,      \* the documents promoted onto each letting, in order
  confirmed,   \* addenda the audit log says were confirmed
  handover,    \* lettings with a confirmed protocol or a waiver of it
  request,     \* what each request under way has read
  signings, paperless,
  extended,    \* history: the option taken since a paper moved the end date
  rewritten,   \* history: lettings an upsert wrote over, or the register wrote
  overlapped   \* history: two requests were under way at once

paper == <<startOf, reading, linked, stamps, confirmed>>
records == <<letting, events, handover, rewritten, extended>>
bounds == <<signings, paperless>>
vars == <<today, paper, records, request, bounds, overlapped>>

Days == 1..MaxDay
NoDay == 0
Documents == Leases \cup Amendments
Statuses == {"DRAFT", "ACTIVE", "ENDED", "TERMINATED_EARLY"}

EventKinds == {"activated", "extended", "terminated", "ended_early"}

Tenancy ==
  [status: Statuses \cup {"none"}, end: Days \cup {NoDay},
   moveOut: Days \cup {NoDay}]
NoTenancy == [status |-> "none", end |-> NoDay, moveOut |-> NoDay]
Draft(end) == [status |-> "DRAFT", end |-> end, moveOut |-> NoDay]

\* day: the date it will write.  first: the end date a draft is inserted with.
\* signs: it signs the reading first.  stamped: the reading was promoted.
\* moves: the copy goes to the column, and changes it.
Request ==
  {q \in [pc: {"idle", "approve", "open", "write", "amend", "copy", "activate",
              "tell", "extend", "told", "end"},
          doc: Documents \cup {Nobody}, key: Days \cup {NoDay},
          day: Days \cup {NoDay}, first: Days \cup {NoDay},
          signs: BOOLEAN, stamped: BOOLEAN, moves: BOOLEAN] :
     q.pc = "amend" => q.doc \in Amendments}
Idle ==
  [pc |-> "idle", doc |-> Nobody, key |-> NoDay, day |-> NoDay,
   first |-> NoDay, signs |-> FALSE, stamped |-> FALSE, moves |-> FALSE]

TypeOK ==
  /\ today \in Days
  /\ startOf \in [Leases -> Days]
  /\ reading \in [Documents -> [signed: Days \cup {NoDay}, promoted: BOOLEAN]]
  /\ linked \in [Documents -> Days \cup {NoDay}]
  /\ letting \in [Days -> Tenancy]
  /\ events \in [Days -> Seq(EventKinds)]
  /\ stamps \in [Days -> Seq(Documents)]
  /\ confirmed \subseteq Amendments
  /\ handover \subseteq Days /\ rewritten \subseteq Days
  /\ extended \in [Days -> Days \cup {NoDay}]
  /\ request \in [Requests -> Request]
  /\ signings \in 0..MaxSignings /\ paperless \in 0..MaxPaperless
  /\ overlapped \in BOOLEAN

Init ==
  /\ today = 1
  /\ startOf \in [Leases -> Days]
  /\ reading = [d \in Documents |-> [signed |-> NoDay, promoted |-> FALSE]]
  /\ linked = [d \in Documents |-> NoDay]
  /\ letting = [k \in Days |-> NoTenancy]
  /\ events = [k \in Days |-> <<>>]
  /\ stamps = [k \in Days |-> <<>>]
  /\ confirmed = {} /\ handover = {} /\ rewritten = {}
  /\ request = [r \in Requests |-> Idle]
  /\ extended = [k \in Days |-> NoDay]
  /\ signings = 0 /\ paperless = 0
  /\ overlapped = FALSE

-----------------------------------------------------------------------------
Exists(k) == letting[k].status # "none"
Active(k) == letting[k].status = "ACTIVE"
Overlap(k, row, other) == k <= letting[other].end /\ other <= row.end

\* tenancy_period_is_ordered and one_active_tenancy_per_unit.
PeriodIsOrdered(k, row) == k <= row.end
Allowed(k, row) ==
  /\ PeriodIsOrdered(k, row)
  /\ row.status = "ACTIVE" =>
       \A other \in Days \ {k} : Active(other) => ~Overlap(k, row, other)

At(r, step) == request[r].pc = step
Begin(r, new) ==
  /\ At(r, "idle")
  /\ request' = [request EXCEPT ![r] = new]
  /\ overlapped' = (overlapped \/ \E q \in Requests : ~At(q, "idle"))
  /\ UNCHANGED <<today, paper, records>>
Goto(r, new) == request' = [request EXCEPT ![r] = new] /\ UNCHANGED overlapped
Finish(r) == Goto(r, Idle)
Tell(k, kind) == events' = [events EXCEPT ![k] = Append(@, kind)]

\* The stamps of the other documents, and what the last of them carries.  A
\* document stamped again counts where it was stamped last.
OtherStamps(k, d) == {i \in DOMAIN stamps[k] : stamps[k][i] # d}
Occupant(k, d) ==
  IF OtherStamps(k, d) = {} THEN NoDay
  ELSE reading[stamps[k][CHOOSE i \in OtherStamps(k, d) :
                           \A j \in OtherStamps(k, d) : j <= i]].signed
SameValueHeld(k, d, column, day) ==
  day = IF Occupant(k, d) = NoDay THEN column ELSE Occupant(k, d)
Free(k, d, day) == Occupant(k, d) \in {NoDay, day}

Stamp(k, d) ==
  stamps' = [stamps EXCEPT ![k] = Append(@, d)]

-----------------------------------------------------------------------------
\* The routes ask whether the lease's reading is closed, and then sign.
BeginApprove(r, d, day) ==
  /\ d \in Leases => linked[d] = NoDay
  /\ signings < MaxSignings /\ signings' = signings + 1
  /\ Begin(r, [Idle EXCEPT !.pc = "approve", !.doc = d, !.day = day])
  /\ UNCHANGED paperless

MaySign(d, day) ==
  /\ reading[d].signed # day
  /\ reading[d].signed # NoDay => ~reading[d].promoted

ApproveExtractedField(r) ==
  LET d == request[r].doc
      day == request[r].day IN
  /\ At(r, "approve")
  /\ reading' = IF MaySign(d, day) THEN [reading EXCEPT ![d].signed = day]
                                   ELSE reading
  /\ Finish(r)
  /\ UNCHANGED <<today, startOf, linked, stamps, confirmed, records, bounds>>

-----------------------------------------------------------------------------
\* openLeaseDraft holds the document's row, not the flat, from here on.
Held(d) ==
  \E q \in Requests : request[q].pc \in {"open", "write"} /\ request[q].doc = d

BeginOpen(r, d) ==
  /\ linked[d] = NoDay /\ ~Held(d)
  /\ reading[d].signed # NoDay
  /\ ~Exists(startOf[d])                                       \* unit_taken
  /\ Begin(r, [Idle EXCEPT !.pc = "open", !.doc = d, !.key = startOf[d],
                           !.first = reading[d].signed])
  /\ UNCHANGED bounds

\* The promotion reads the signed value again.
ReadSigned(r) ==
  /\ At(r, "open")
  /\ Goto(r, [request[r] EXCEPT !.pc = "write",
                                !.day = reading[request[r].doc].signed])
  /\ UNCHANGED <<today, paper, records, bounds>>

\* upsertTenancy writes over a row another lease put there in between.
OpenLeaseDraft(r) ==
  LET d == request[r].doc
      k == request[r].key
      day == request[r].day
      copies == ~SameValueHeld(k, d, request[r].first, day)
      end == IF copies THEN day ELSE request[r].first IN
  /\ At(r, "write")
  /\ Finish(r)
  /\ IF Allowed(k, Draft(request[r].first)) /\ Allowed(k, Draft(end))
        /\ Free(k, d, day)
     THEN /\ letting' = [letting EXCEPT ![k] = Draft(end)]
          /\ rewritten' = IF Exists(k) THEN rewritten \cup {k} ELSE rewritten
          /\ extended' = [extended EXCEPT ![k] = NoDay]
          /\ linked' = [linked EXCEPT ![d] = k]
          /\ reading' = [reading EXCEPT ![d].promoted = TRUE]
          /\ Stamp(k, d)
     ELSE UNCHANGED <<letting, rewritten, extended, linked, reading, stamps>>
  /\ UNCHANGED <<today, startOf, confirmed, events, handover, bounds>>

\* attachTo: the letting is there, and the lease only joins it.
Attach(d) ==
  /\ linked[d] = NoDay /\ ~Held(d)
  /\ Exists(startOf[d])
  /\ linked' = [linked EXCEPT ![d] = startOf[d]]
  /\ UNCHANGED <<today, startOf, reading, stamps, confirmed, records, request,
                 bounds, overlapped>>

FileAmendment(d, k) ==
  /\ linked[d] = NoDay
  /\ Exists(k)
  /\ linked' = [linked EXCEPT ![d] = k]
  /\ UNCHANGED <<today, startOf, reading, stamps, confirmed, records, request,
                 bounds, overlapped>>

-----------------------------------------------------------------------------
\* confirmAmendment signs as read what nobody signed, and supersedes.
BeginAmend(r, d, read) ==
  /\ linked[d] # NoDay /\ d \notin confirmed
  /\ LET signs == reading[d].signed = NoDay IN
     Begin(r, [Idle EXCEPT !.pc = "amend", !.doc = d, !.key = linked[d],
                 !.day = IF signs THEN read ELSE reading[d].signed,
                 !.signs = signs])
  /\ UNCHANGED bounds

\* What promoteExtractedField reads before it writes onto the letting.
ReadPromotion(r) ==
  LET d == request[r].doc
      k == request[r].key
      day == IF request[r].signs THEN request[r].day ELSE reading[d].signed IN
  /\ At(r, "amend")
  /\ Goto(r, [request[r] EXCEPT
                !.pc = "copy", !.day = day,
                !.stamped = reading[d].promoted,
                !.moves = /\ ~SameValueHeld(k, d, letting[k].end, day)
                          /\ letting[k].end # day])
  /\ UNCHANGED <<today, paper, records, bounds>>

\* The column and the stamp; the event of the column goes with them.
Copy(r) ==
  LET d == request[r].doc
      k == request[r].key
      row == [letting[k] EXCEPT !.end = request[r].day] IN
  /\ request[r].moves => Allowed(k, row)
  /\ letting' = IF request[r].moves
                THEN [letting EXCEPT ![k] = row] ELSE letting
  /\ extended' = IF request[r].moves
                 THEN [extended EXCEPT ![k] = NoDay] ELSE extended
  /\ Stamp(k, d)

ConfirmAmendment(r) ==
  LET d == request[r].doc IN
  /\ At(r, "copy")
  /\ request[r].signs => MaySign(d, request[r].day)
  /\ IF request[r].stamped
     THEN UNCHANGED <<letting, extended, stamps, reading>>
     ELSE /\ Copy(r)
          /\ reading' =
               [reading EXCEPT ![d] =
                 [signed |-> IF request[r].signs THEN request[r].day
                                                 ELSE @.signed,
                  promoted |-> TRUE]]
  /\ confirmed' = confirmed \cup {d}
  /\ Finish(r)
  /\ UNCHANGED <<today, startOf, linked, events, handover, rewritten,
                 bounds>>

\* A constraint or a second signature refuses it, and all of it rolls back.
CopyRefused(r) ==
  /\ At(r, "copy")
  /\ \/ /\ request[r].moves /\ ~request[r].stamped
        /\ ~Allowed(request[r].key,
                    [letting[request[r].key] EXCEPT !.end = request[r].day])
     \/ request[r].signs /\ ~MaySign(request[r].doc, request[r].day)
  /\ Finish(r)
  /\ UNCHANGED <<today, paper, records, bounds>>

-----------------------------------------------------------------------------
\* A handover protocol confirmed on the letting, or waived for it.
Handover(k) ==
  /\ Exists(k) /\ k \notin handover
  /\ handover' = handover \cup {k}
  /\ UNCHANGED <<today, paper, letting, events, rewritten, extended, request,
                 bounds, overlapped>>

DocumentsHeld(k) == k \in handover /\ \E d \in Leases : linked[d] = k
UnitFree(k) ==
  \A other \in Days \ {k} : Active(other) => ~Overlap(k, letting[k], other)
\* Mutant: a gate that leaves the start to the clock.
GateWithoutStart(k) ==
  letting[k].status = "DRAFT" /\ DocumentsHeld(k) /\ UnitFree(k)
ActivationGate(k) ==
  /\ letting[k].status = "DRAFT"
  /\ DocumentsHeld(k)
  /\ k <= today /\ today <= letting[k].end
  /\ UnitFree(k)

BeginActivate(r, k) ==
  /\ ActivationGate(k)
  /\ Begin(r, [Idle EXCEPT !.pc = "activate", !.key = k])
  /\ UNCHANGED bounds

\* The UPDATE commits alone: the event is another statement.
ActivateTenancy(r) ==
  LET k == request[r].key
      row == [letting[k] EXCEPT !.status = "ACTIVE"] IN
  /\ At(r, "activate")
  /\ IF letting[k].status = "DRAFT" /\ Allowed(k, row)
     THEN /\ letting' = [letting EXCEPT ![k] = row]
          /\ Goto(r, [request[r] EXCEPT !.pc = "tell"])
     ELSE UNCHANGED letting /\ Finish(r)
  /\ UNCHANGED <<today, paper, events, handover, rewritten, extended, bounds>>

TellActivated(r) ==
  /\ At(r, "tell")
  /\ Tell(request[r].key, "activated")
  /\ Finish(r)
  /\ UNCHANGED <<today, paper, letting, handover, rewritten, extended, bounds>>

-----------------------------------------------------------------------------
\* exerciseOption, which the contract exports and no route calls yet.
BeginExtend(r, k, option) ==
  /\ Active(k) /\ letting[k].end < option
  /\ paperless < MaxPaperless /\ paperless' = paperless + 1
  /\ Begin(r, [Idle EXCEPT !.pc = "extend", !.key = k, !.day = option])
  /\ UNCHANGED signings

\* The UPDATE does not ask again for an active row.
ExerciseOption(r) ==
  LET k == request[r].key
      day == request[r].day
      row == [letting[k] EXCEPT !.end = day] IN
  /\ At(r, "extend")
  /\ IF Allowed(k, row)
     THEN /\ letting' = [letting EXCEPT ![k] = row]
          /\ extended' = [extended EXCEPT ![k] = day]
          /\ Goto(r, [request[r] EXCEPT !.pc = "told"])
     ELSE UNCHANGED <<letting, extended>> /\ Finish(r)
  /\ UNCHANGED <<today, paper, events, handover, rewritten, bounds>>

TellExtended(r) ==
  /\ At(r, "told")
  /\ Tell(request[r].key, "extended")
  /\ Finish(r)
  /\ UNCHANGED <<today, paper, letting, handover, rewritten, extended, bounds>>

-----------------------------------------------------------------------------
BeginEnd(r, k, moveOut) ==
  /\ Active(k)
  /\ k <= moveOut /\ moveOut <= letting[k].end /\ moveOut <= today
  /\ Begin(r, [Idle EXCEPT !.pc = "end", !.key = k, !.day = moveOut])
  /\ UNCHANGED bounds

\* The event is written whether or not the UPDATE still found an active row.
\* Mutant: the UPDATE without its status = 'ACTIVE'.
MayEndAnything(k) == Exists(k)
MayEnd(k) == Active(k)
EndTenancyEarly(r) ==
  LET k == request[r].key IN
  /\ At(r, "end")
  /\ letting' = IF ~MayEnd(k) THEN letting
                ELSE [letting EXCEPT ![k].status = "TERMINATED_EARLY",
                                     ![k].moveOut = request[r].day]
  /\ Tell(k, "ended_early")
  /\ Finish(r)
  /\ UNCHANGED <<today, paper, handover, rewritten, extended, bounds>>

Due(k) == Active(k) /\ letting[k].end < today
ExpireDueTenancies ==
  /\ \E k \in Days : Due(k)
  /\ letting' = [k \in Days |->
       IF Due(k) THEN [letting[k] EXCEPT !.status = "ENDED"] ELSE letting[k]]
  /\ events' = [k \in Days |->
       IF Due(k) THEN Append(events[k], "terminated") ELSE events[k]]
  /\ UNCHANGED <<today, paper, handover, rewritten, extended, request, bounds,
                 overlapped>>

\* One row of the register: the same upsert, any status, and no event.
ImportRegister(k, end, status) ==
  LET row == [status |-> status, end |-> end, moveOut |-> NoDay] IN
  /\ paperless < MaxPaperless
  /\ Allowed(k, row)
  /\ letting' = [letting EXCEPT ![k] = row]
  /\ rewritten' = rewritten \cup {k}
  /\ paperless' = paperless + 1
  /\ UNCHANGED <<today, paper, events, handover, extended, request, signings,
                 overlapped>>

NextDay ==
  /\ today < MaxDay
  /\ today' = today + 1
  /\ UNCHANGED <<paper, records, request, bounds, overlapped>>

\* The process or its connection stops; what was not committed is gone.
Stop(r) ==
  /\ ~At(r, "idle")
  /\ Finish(r)
  /\ UNCHANGED <<today, paper, records, bounds>>

Next ==
  \/ \E r \in Requests, d \in Documents, day \in Days : BeginApprove(r, d, day)
  \/ \E r \in Requests, d \in Leases : BeginOpen(r, d)
  \/ \E r \in Requests, d \in Amendments, read \in Days : BeginAmend(r, d, read)
  \/ \E r \in Requests, k \in Days : BeginActivate(r, k)
  \/ \E r \in Requests, k, option \in Days : BeginExtend(r, k, option)
  \/ \E r \in Requests, k, moveOut \in Days : BeginEnd(r, k, moveOut)
  \/ \E r \in Requests :
       \/ ApproveExtractedField(r) \/ ReadSigned(r) \/ OpenLeaseDraft(r)
       \/ ReadPromotion(r) \/ ConfirmAmendment(r) \/ CopyRefused(r)
       \/ ActivateTenancy(r) \/ TellActivated(r) \/ EndTenancyEarly(r)
       \/ ExerciseOption(r) \/ TellExtended(r)
       \/ Stop(r)
  \/ \E d \in Leases : Attach(d)
  \/ \E d \in Amendments, k \in Days : FileAmendment(d, k)
  \/ \E k \in Days : Handover(k)
  \/ \E k, end \in Days, status \in Statuses : ImportRegister(k, end, status)
  \/ ExpireDueTenancies
  \/ NextDay

Spec == Init /\ [][Next]_vars

-----------------------------------------------------------------------------
\* No two active lettings of the flat share a day, whatever activation, a
\* promoted end date or the register wrote in between the gate and the UPDATE.
OneHouseholdPerDay ==
  \A k, other \in Days :
    k < other /\ Active(k) /\ Active(other) => letting[k].end < other

\* A letting the program opened is activated only with a lease linked, the
\* handover confirmed or waived, and its first day reached, although the UPDATE
\* asks for none of them again.
ActivationIsEarned ==
  \A k \in Days :
    letting[k].status \notin {"none", "DRAFT"} =>
      k \in rewritten \/ (DocumentsHeld(k) /\ k <= today)

\* The first end a letting's log tells is the one its row carries, and a move-out
\* is recorded with an early end alone: a late press of the other end leaves an
\* event and changes nothing.
Ends == {"terminated", "ended_early"}
FirstEnd(k, kind) ==
  \E i \in DOMAIN events[k] :
    /\ events[k][i] = kind
    /\ \A j \in 1..(i - 1) : events[k][j] \notin Ends
LogTellsTheEnd ==
  \A k \in Days \ rewritten :
    /\ letting[k].status = "ENDED" <=> FirstEnd(k, "terminated")
    /\ letting[k].status = "TERMINATED_EARLY" <=> FirstEnd(k, "ended_early")
    /\ letting[k].moveOut # NoDay <=> letting[k].status = "TERMINATED_EARLY"

\* While requests do not overlap, the end date of a letting is what the person
\* signed on the paper promoted onto it last, or the option taken since a paper
\* moved the date: a promoted reading is closed, and only an addendum moves a
\* date that another paper carries.
ColumnTellsThePaper ==
  \A k \in Days \ rewritten :
    ~overlapped /\ stamps[k] # <<>> =>
      letting[k].end = IF extended[k] # NoDay THEN extended[k]
                       ELSE reading[Last(stamps[k])].signed

\* The books agree: row, log and papers tell one story of a letting.
BooksAgree == LogTellsTheEnd /\ ColumnTellsThePaper
=============================================================================
