# TLA+ verification of dona-v5

Dona is the office of a housing company in one TypeScript server over one Postgres
database: messages come in by WhatsApp and email, become service calls, are answered
and closed; leases and other papers are filed, read and approved into the books of
tenancies, parties and flats; tenants sign in to a portal and follow their calls. This
project keeps the specifications of its moving parts: state machines that TLC checks on
small instances, and theorems that TLAPS proves for every instance.

All paths below are under `src/src/` unless they begin with `SPEC`.

## 1. How the system runs, and what makes it hard

One server process (or several) answers HTTP requests, and a timer in it drains a table
of durable work. Three facts of the code decide the shape of every module here.

- **`inTransaction` (`kernel/db.ts`) makes a command one step.** A command that opens a
  transaction and locks its row (`SELECT ... FOR UPDATE`) is one action, with the
  triggers and CHECK constraints of the migrations in it. Code that writes outside a
  transaction is one action per statement.
- **Nothing waits on anything else.** No lock is held over a call to a provider or a
  model. What was read before such a call is used after it, and the modules keep what a
  request has read in a record of its own (`proc`, `loop`, `task`, `request`, `tab`,
  `press`, `desk`).
- **Only Postgres survives.** Handlers, deferred briefs and registrations live in
  memory; a restart is an action wherever that matters.

### Components

| component | state it keeps | operations | what is hard | what must hold |
|---|---|---|---|---|
| calls: commands (`calls/internal/commands.ts`, migrations 0045-0050) | `service_call`, `service_call_transition`, `call_category` | open by hand, open from a message, flag, clear, identify, re-identify, save the address, set a category, return, restore, four exits | triggers and CHECKs refuse what the code does not ask; tenancy and contacts change beside it | a state names its facts, a closed call is frozen, the timeline tells the row |
| calls: pages and lists (`calls/internal/views.ts`, `routes.ts`) | none: derived on each load | the page of a call with its forms; open, closed and filtered lists; older windows | a form is posted after another command; windows move between two pages | what is offered is taken; no call is lost between two windows |
| calls and staff: thread of a call (`calls/internal/brief.ts`, `draft.ts`, `send.ts`, `staff/internal/call-thread.ts`) | `call_thread`, `call_turn`, REPLIED rows | brief, refresh, follow-up, draft, send | no lock at all; the brief is an in-memory callback | the brief comes first, a draft rests on it, a reply is told |
| calls: settings and clocks (same files) | `config_settings` | save goals and targets, add and remove a free date | keys saved one by one; a list read, changed and written back | no call goes from no band to red; the dates add up to the audit |
| channel: intake door (`channel/internal/door.ts`), WhatsApp webhook (`whatsapp.ts`) | `message`, `conversation` | one delivery: store, read the thread, claim and send the duty reply, label, attach or sort, open, record | two deliveries at once, a stop anywhere, the office meanwhile, retries | one call per message, one open call per thread, one reply per emergency, nothing forgotten |
| channel: mailbox (`outlook.ts`) | `email_cursor` | page by page with a cursor | a failing message holds back a page; two pollers; a lost cursor | the cursor never passes mail nobody read |
| channel: attachments, holds (`attachments.ts`, `holds.ts`) | `attachment_hold` | hold, scan, take over into a message, file | a cap asked before the scan | never more files than the cap, one document per file |
| channel: retention (`retention.ts`) | deletes of `message` | the sweep of filtered messages | a rescue beside the sweep | nothing a call holds is swept |
| kernel: durable work (`kernel/work.ts`) | `scheduled_work` | schedule, cancel, claim, run, release | leases that run out, a loop that dies, a late release | work is not lost, done is final |
| evidence: filing (`evidence/internal/intake.ts`, `routes.ts`) | the bucket, `document`, `document_link` | read, look up, put, insert, link, schedule, audit | no transaction; a create-only bucket; a daily cap | a row names an object that was put; readings are rationed |
| evidence: reading (`intake.ts`, `extract.ts`, `passages.ts`) | `extracted_field`, `document_passage` | delete, insert, write passages | each statement commits alone; two loops on one document | one unsigned row of a field and done means read, short of an overrun lease |
| evidence: ledger and leases (`approve.ts`, `lease.ts`, `promote.ts`, `views.ts`) | `extracted_field`, `document_link`, links to people | sign, sign all, correct, reveal, open a draft, confirm an addendum | a press from an old page; what is read is not locked until the commit | nobody signs what was not shown; a draft has all its paper's people |
| evidence: catalogue, office turns (`catalogue.ts`, `staff/internal/office-thread.ts`) | `document_type_field`, `office_retrieval_*` | correct, retire, seed; ask, clear | midnight inside an edit; two tabs on one thread | a field governs until retired; every answer is listed once |
| portal: sign-in (`portal/internal/codes.ts`) | `portal_sign_in_code`, `portal_session` | prepare, rotate, send, supersede, verify | sends outside the locks, entries that read before any writes | a code brings one session, sends are rationed |
| portal: sessions, passkeys (`sessions.ts`, `passkeys.ts`) | `portal_session`, `portal_passkey`, `portal_passkey_challenge` | mint, resolve, revoke; register, assert, remove | sign counts and challenges under concurrent use | a challenge is used once |
| portal: pages (`routes.ts`, `legal.ts`, `call-screen.ts`) | `portal_acknowledgement`, `portal_opt_in` | the notice; home, lists, follow-up, continuation, question | texts and calls that move under an open page | the portal opens on seen texts; a tenant is told what became of a press |
| tenancy (`tenancy/internal/*.ts`) | `tenancy`, `tenancy_event` and what hangs on them | open, promote, activate, end, expire, book, queue | a gate read before the UPDATE; expiry beside a command; an UPDATE and its event apart | one household of a flat at a time, an activation that was earned, books that agree |
| parties, scope (`parties/`, `scope/`, `party-directory.ts`) | `party`, `party_contact` | create, update, add, close, merge; find whose address it is | periods read without a lock; disclosure before its line | a number names at most one person on a day |
| estate (`estate/internal/*.ts`) | `building`, `space`, `unit`, `asset` | mint, add, remove, assign, sell, purge; tiles and pages | checks before writes; keys turned off | nothing referred to is removed; every screen tells one story |
| register (`register/internal/*.ts`) | writes the tables of tenancy and parties | import a file of rows | an upsert over a live letting | `rewritten` marks them |
| policy (`policy/internal/*.ts`) | `policy_document` and its passages | upload a version | two uploads at once | from the first day on, one version is in force |
| staff (`staff/internal/*.ts`) | `staff_account`, `staff_session` | sign in, bind, invite, withdraw | callbacks of several browsers | a row is bound once |
| kernel: the rest; adapters of providers | none, or `audit_log` | one request and one answer | - | - |

### Interactions

The webhook and the mailbox hand messages to the **door**; so does the **portal**, whose
follow-ups the door attaches by `followThread`. The door opens, flags and marks **calls**
through their commands (`openIntakeCall`, `flagCallByTerms`), asks **scope** whose address
the sender is, and calls back `onCallIdentified`, which starts the **brief**. The office
moves the same calls meanwhile, from pages drawn earlier. Filing a document writes it,
schedules one row of **durable work**, registers the handler of that kind of work, may
drain the table at once, and then writes the document's passages; the timer's loop drains
the table too. The handler is the **reading**. Approving what was read on the **ledger**
**promotes** it into estate, tenancy and parties, and a role a promotion writes can make a
caller a guarantor, which the **calls'** trigger then reads.

`PROJECT.json` lists every component with its files, and 40 hazards at the lines where
they bite, each with the properties that would catch it, or with the reason why none
does: where the code itself lets the hazard happen, section 6 says what happens.

## 2. The modules

Each module begins with a comment that says what it models, where its steps are cut and
what it abstracts.

| module | models | run |
|---|---|---|
| `ServiceCall` | the commands of calls with the migrations' triggers and CHECKs | `ServiceCall` |
| `CallPage` (EXTENDS `ServiceCall`) | the page of one call: its forms, their posts, the course it draws | `ServiceCall` |
| `CallsDesk` | the lists of calls: open, closed in windows, filtered | `ServiceCall` |
| `EstateDesk` | what book, tiles and their counts, queue, record and pages derive of flats and lettings; the sale of a flat | `ServiceCall` |
| `Intake` | what the door promises: each message is held, judged once, kept in one place | `IntakeDoor` |
| `IntakeDoor` | deliveries through the door, step by step, and the office beside them; refines `Intake` | `IntakeDoor`, `Background` |
| `WorkRunner` | durable work: rows, leases, loops, restarts | `Background`, `Office` |
| `Extraction` (EXTENDS `WorkRunner`) | the handler that reads a document, inside a loop | `Office` |
| `Mailbox` | polls, pages, the stored cursor, its loss | `Background` |
| `CallThread` | brief, refresh, follow-up, draft and reply on one call | `Background` |
| `Filtered` | the filtered tab, rescues and the monthly sweep | `FilteredRescue` |
| `Letting` | the lettings of one flat: signing, opening, amending, activating, taking an option, ending, expiry, the register's row | `Letting` |
| `LeasePeople` | the people a lease names, and the draft opened with them | `Office` |
| `Filing` | filing from every door that takes a file, statement by statement | `Office`, `FilingStuck` |
| `Ledger` | the screens of one reading and the presses on them | `Office` |
| `Catalogue`, `Library` | the declarations of a document type; the versions of a policy | `Office` |
| `Staff`, `OfficeThread`, `Settings` | accounts and sessions; the office's questions; settings and the two clocks | `Office` |
| `People` | periods of numbers, identifiers, disclosure with its audit line, the isolation join | `Office` |
| `Purge`, `Spaces` | the operator's purge in both modes; spaces minted, added, assigned, removed | `Office` |
| `LegalNotice` | the texts a tenant must have seen | `Office` |
| `SignIn`, `Passkeys` | codes, challenges, sends and entries; ceremonies, sign counts, sessions | `Portal` |
| `ReportFiles`, `PortalCalls` | a report with its files; a tenant's calls, follow-up, continuation, question | `Portal` |
| `MCServiceCall`, `MCBackground`, `MCPortal`, `MCOffice` | sums of the above: one part moves, the others rest | theirs |
| `MCIntakeDoor`, `MCLetting`, `MCWorkRunner`, `MCEstateDesk` | the instances and symmetry of one module | theirs |
| `ServiceCallProofs`, `IntakeDoorProofs`, `WorkRunnerProofs`, `LettingProofs`, `PortalProofs`, `BackgroundProofs`, `OfficeProofs`, `DeskProofs` | the theorems | - |

Names are the source's where TLA+ allows it; `PROJECT.json` maps every definition to its
lines. Definitions that stand beside another with the same parameters and a name like
`FlagRowsForgotten`, `GateWithoutStart` or `MayEndAnything` are wrong on purpose: each is a
plausible bug, and putting it in the place of the right one makes the property listed
with it fail. Every property of every passing run has one.

How the larger ones correspond to the code:

**ServiceCall.** `call[c]` is the row (state, flag, requester and how it was matched,
predecessor, returned, exit), `timeline[c]` its transition rows, `holder` the party an
address belongs to, `guarantor` the parties with no other role. One action is one
command; `Write` puts the row through the triggers and CHECKs and appends the timeline
row in the same step. A reply is the exception, as in `send.ts`: `BeginReply` reads the
call without a lock and sends, `RecordReply` appends the row REPLIED later, whatever the
call has become. `ContactBegins`, `ContactEnds`, `TenancyRoleChange` and `UpsertCategory`
are the other modules' writes that the commands read: a lease's promotion, the register's
import and the party directory give an address to a party (`parties/internal/commands.ts`)
and the door identifies by what they filed, which the history `filed` remembers.

**IntakeDoor.** `proc[d]` is a delivery: where it is and what it has read. `message[m]`,
`calls[c]`, `echo` and `sent` are the tables and what the provider took. Steps follow
`intake()`: `Receive`, the thread's read, the claim of the duty reply, the send, its
record, the label, `settleAttach`, the sorter, `settleVerdict`, `recordDutyReply`.
`Stop` ends a delivery between two steps with nothing undone. The office's commands are
the parts of ServiceCall the door can notice, and `OpenElsewhere` is a call that is not of
the thread (opened by phone, or by another thread's message), which a call of the thread
can be merged into. The order of `received_at` is kept by the
message's number; a reply's own time is not kept, so a call that holds one may come
first.

**WorkRunner, Extraction.** `row[j]` (state, attempts, lease), `runAt[j]`, and a loop for
the timer and one for a request on each instance. Times are relative to now, so the state
space is finite without a bound on the clock; overdue rows keep only their order, the one
the `ORDER BY run_at` reads. `Poison` jobs always throw. A handler may stay longer than its
lease (`overrun` remembers the jobs where one did). The handler is a program: ask the
reader, delete the unsigned rows, insert one row per field, and, only for a document
with pages left to read (`unread`), write one passage per page; a loop's
`HandlerReturns` is possible only at its end. `FileDocument` is the filing request, which
drains the table and then writes the first passages itself (`writer`). `Approve` is what
people do to the same rows.

**CallThread.** A `task` is a request (identify, refresh, follow-up, draft, send) or the
deferred brief one leaves behind. A turn is written in three statements: read the next
ordinal, insert, mark the thread ready. The provider or the model answers between steps.

**SignIn, Passkeys.** `codes` are rows in order of creation. `PrepareCode` and `Rotate`
are the transaction under the advisory locks of number and address; the send holds none;
`Supersede` or `SendFails` follow it. `LoadCode` reads the row, and `CountMiss` or
`ConsumeCode` writes it, each with its own WHERE. A `tab` of `Passkeys` keeps the
challenge and the sign count its ceremony has read until the statements that write them.

**Letting.** `letting[k]` is the row whose start date is `k` (the natural key of one
flat), `events[k]` its status events, `reading[d]` the signed end date of a paper and
whether it was promoted, `linked[d]` its link to a letting, `stamps[k]` the papers
promoted onto a letting, in order. A `request` keeps what its transaction has read:
`BeginOpen`, `ReadSigned` and `OpenLeaseDraft` are the opening (its lock is the document's
row, `Held`, and not the flat); `BeginAmend`, `ReadPromotion` and `ConfirmAmendment` the
addendum, which signs, copies and stamps at its commit; `BeginActivate` the gate,
`ActivateTenancy` the UPDATE and `TellActivated` the INSERT, each a commit of its own.
`BeginExtend`, `ExerciseOption` and `TellExtended` are `exerciseOption`
(`tenancy/internal/commands.ts:745-797`), which moves the end date of an active letting
with no paper; `extended` remembers the option until a paper moves the date again. The
contract exports the command and no route calls it yet. `Allowed` is the two constraints
of migration 0007. The end date stands for every column a paper carries. `rewritten` marks
the lettings an upsert wrote over or the register wrote, of which some properties promise
nothing.

**EstateDesk, CallsDesk, CallPage.** The screens keep no state: each is an operator over
the rows, written as its query is, and the properties relate the operators. The actions
are the commands that move the rows between a load and a post. A post does not need the
page that offers it: the handlers of `EstateDesk` are guarded by what they ask
themselves. `WritesLetting` is the upsert of a letting on the row of its flat and first
day, standing or not, so a row of the register may put any letting back to any status and
add a person to it. `EndsEarly` files the letter and keeps it when the end is refused.

**Ledger.** A row of `captured` is named by its reading and its key, so a re-read, which
deletes the unsigned rows and inserts the new reading's one by one (`ReadingInserts`),
leaves a browser with names that are gone. `tab[v]` is what a browser was drawn: the forms,
what was printed unmasked, the flats and lettings its opening offers. `inHand[v]` is a
press between the route's look at the reading and the command, which then takes the rows
one by one. `leasePlace` says where the paper stands (no flat, the one the filing door
stored, or its anchor), `leaseDraft` the flat of the letting it is linked to, and
`linkedBy` the press that did it, the opening or `AttachesLease`.

**LeasePeople, Filing.** A request (`press`, `filings`) holds what it has read, and the
statements that follow use it. The directory or another filing moves in between.

## 3. The runs

| run | instance | distinct states | shows |
|---|---|---|---|
| `ServiceCall` | 2 calls, 2 parties, 1 category, 1 staff, 1 address, in *people*: contacts and roles that come and go, e-mail and phone, no flags and replies (297,356), and in *course*: flags, a reply, e-mail and portal, no contacts (226,672); *lists*: 2 calls over 5 ticks, windows of 2 (40,200); *estate*: 2 lettings of one flat that share a day, 2 desktops, 4 days (226,288) | 790,516 | facts, predecessors, address matches, replayed timeline, frozen when closed but for a late reply; page and commands agree; lists hold; screens agree; a sold flat is not let |
| `IntakeDoor` | 2 messages (1 emergency), 3 deliveries, 2 at once, 2 calls, 1 stop, 1 refusal, 1 repeat, the office and a call opened elsewhere | 6,195,547 | one call per message, no answer before it is settled, lands on an open call, refines `Intake` |
| `Background` | *work*: 2 jobs (1 poison), lease 2, handlers of 2, 1 failure, 1 restart (275 thousand); *mailbox*: 2 pollers, 3 mails, 1 refused (55 thousand); *thread*: 3 requests, 1 failure, 1 restart, 1 switch (323 thousand); *door*: one delivery at a time, 5 deliveries of 3 messages (2 emergencies), within three bounds (106 thousand) | 758,482 | no work, mail or message is lost; a thread tells its call; one open call of a thread; one reply to a flagged call |
| `Letting` | 2 requests, 2 leases, 1 addendum, 2 days, 2 signings, 1 row of the register or 1 option | 8,330,536 | households apart, activation earned, row, log and papers agree |
| `Portal` | *codes*: 2 requests, 1 number, 2 addresses, 2 channels, 5 moments; *passkeys*: 2 tabs, 1 key, 3 challenges; *report*: 3 files for 2 places, 2 sends, 2 clerks; *calls*: 2 presses, 2 forms, 2 homes, 2 moves | 3,802,086 | one session per code, rationing; challenges and counts spent once; whole reports; answered tenants |
| `Office` | 13 parts: library, staff, ask, settings, filing, people, purge, catalogue, spaces, household, reading, ledger, notice | 2,697,268 | what section 1 says of each part: one property each, but that `InForceHolds` is of library and catalogue, `EstateHolds` of spaces and purge, and the reading has two |
| `ServiceCallExit`, `IntakeDoorUnanswered`, `WorkRunnerRestart`, `FilteredRescue`, `FilingStuck`, `SoldFlatDraft` | small | | the six findings of section 6 |

**Sums.** Parts of one run write no table in common, so a behaviour of the system is an
interleaving of independent ones and a property of one part can be violated only by that
part. A run therefore starts every part, picks one, and lets only it move: the state
spaces add where they would multiply, and nothing is lost. Parts that share a table are
one module (`Extraction` with `WorkRunner`, `CallPage` with `ServiceCall`).

**Why these bounds are enough to meet the cases.** Two calls are what a predecessor, a
duplicate and a reopened thread relate; two parties are what re-identification needs, and
a second address would only repeat the first. A race at the door is between two
deliveries, and three let one be a retry. Two entries in hand and one attempt let a right
code race the last wrong one. A day of three ticks lets a code pass its wait, its life
and the cap, in this order. Handlers may take as long as the lease, in `Background` (2
ticks) as in `Office` (1), so a second loop reads beside a first that outstayed it: the
code's lease is 30 s (`kernel/work.ts:47`) and its reader may take 60
(`kernel/extraction.ts:67`). Two days let two lettings of a flat share one, and let one
expire beside a command; two leases race for one start date, and an addendum meets both a
lease's stamp and a second signature. Five ticks and windows of two let the windows move
once while a reader goes through them. Three uploads let two cross while a third has
committed. Three files meet a room for two. Two papers of one flat race in the household,
one naming a guarantor and one with an identifier that names nobody. The constants named
`Max...` are the bounds, each a guard of the actions it bounds and named as a bound where
it is declared. They limit how often something begins or goes wrong, never a step of the
code that has begun.

**Deadlock.** The runs say `CHECK_DEADLOCK FALSE`, because the modelled systems do come to
rest: all calls closed, all deliveries used, the clock at its bound, the last day of the
calendar. `WorkRunnerRestart` checks it: the clock of durable work never stops.

**Type invariants.** Each module has one. No run spends time on them: they are proved
(section 5), except that of `Filtered`; `CallPage` adds no variable of its own.

**The door in `Background`.** `OneThreadOneCall` and `FlaggedIsAnsweredOnce` state their
own hypotheses: one delivery in hand, nothing returned, rescued or merged into a call
opened elsewhere for the first; one delivery in hand, no stop, no closed call and no flag
taken off for the second (`Undisturbed`). Without each of them the code breaks what the
property says, and section 6 says how. The three ways the door runs there are only bounds:
in "settles" deliveries stop anywhere and the office closes and flags, past a message
already filtered; in "replies" the channel repeats, the provider refuses and the office
rescues; in "merges" the office closes calls and merges them with one another and with one
opened elsewhere. Both properties are theorems for every bound (section 5).

**What an instance leaves to the theorem.** `Office` runs the ledger with no typed
correction, one date and one field that may be blurred; the flat an address leads to, the
other keys and corrected values are covered by `LedgerAlwaysHolds`. `ServiceCall` runs the
estate with the main tenant's role and the handover's exception; the guarantor and the
other exceptions are covered by `EstateAlwaysAgrees`; every flat is of one building there.
One reply is at the send at a time.

### Fairness

- *Work*: the clock runs, and the timer's loop and a drain that was begun keep working. A
  handler of a good job either returns or fails by chance, and chance is bounded; a
  poison job's throws for ever. No instance is assumed to file a document, so none is
  assumed to register the handler. `WorkRunnerRestart` uses the same `Fairness`.
- *Mailbox*: hours pass, and a poll that was begun goes on; the timer begins the next.
- *Door*: a delivery in hand goes on (its process has no other waits than the steps
  modelled), and as long as some message has no answer, one such message is delivered
  again. Meta repeats a webhook that failed; the mailbox's cursor is saved after a page
  has passed, so a page that fails is read again. Nothing is assumed of the office.

No other run has a liveness property, and none of the safety properties uses fairness.

## 4. The properties

Each relates several steps, most of several actors. Those of the form "A and B" are
conjunctions of named parts, commented where they are defined.

- *Calls.* `CallsNameTheirFacts`: a call's state and its columns agree, whatever sequence
  of commands led here. `RestsOnThePast`: successors follow closed calls, in no circle,
  and a match by address goes back to a contact the office's records held of that address
  or to a person who identified its holder on another call, though addresses move between
  parties and contacts end. `TimelineTellsTheCall`: replaying the rows gives the columns.
  `ClosedCallIsFrozen`: no step changes the row of a closed call, and its timeline grows
  only by a reply that was at the send when it closed. `PageAgrees`: an offered form
  is taken, is already so, or is refused in words; a command that would be taken is
  offered; the two ways to draw a call's course agree. `ListsHold`: the older links reach
  every closed call, a call is on one list, counts are lengths.
- *Flats.* `EstateAgrees`: the queue, which asks for a paper and for the gate, is the
  book's ready and what of its waiting begins soon; the tile of a flat draws some draft
  where the queue offers one, and none as ready that it does not; the record names one
  letting, of exactly the flats drawn let; on the inventory's pages the flats let, vacant
  and sold are all there are; and a draft is nowhere stuck. `SoldFlatIsNotLet`: unless a
  sale and an activation overlapped.
- *Door.* `SettledOnce`, `MessagesLandWell`, `ImplementsIntake`; `OneThreadOneCall`,
  `FlaggedIsAnsweredOnce`; `EveryMessageSettles` is liveness.
- *Background.* `DoneIsEarned`, `DoneIsFinal`, `BoundWorkGetsDone` (liveness);
  `CursorSkipsNoMail`, `MailIsReadOrTold` (liveness); `ThreadTellsTheCall`,
  `SkippedStaysSilent`. In `Office`: `OneRunnerPerJob`, two loops are on one job only after
  one outstayed its lease on it; `ReadingIsWhole`, short of that a field has one row to
  sign and a done document a row for every field, and always the passages stored are those
  of the first pages, whoever writes them.
- *Lettings.* `OneHouseholdPerDay`: active lettings share no day though three kinds of
  writes can make one active or move its end after the gate was read.
  `ActivationIsEarned`: what the gate read still holds when the UPDATE commits.
  `BooksAgree`: the row has the first end its log tells, the move-out goes with an early
  end alone, and while requests do not overlap the end date is the one signed on the paper
  promoted last, or the option taken since a paper moved it.
- *Portal.* `CodesEndWell`: a code opens one session and none after its tries are spent, a
  superseded code names a delivered one, sends are rationed by number and address, a live
  code can be typed. `PasskeysAreSpentOnce`, `FilesKeepTheirWord`. `TenantsAreAnswered`:
  what a press is told is what became of it, and every call of a letting is found on one
  list whose word agrees with its page. `OpensOnSeenTexts` (in `Office`).
- *Office.* `InForceHolds`, `ThreadTellsItsTurns`, `FilingHolds`, `PeopleHold`,
  `EstateHolds`, `LedgerHolds`, `RowIsBoundOnce`, `SettingsHold`, `HouseholdIsWhole`: what
  the tables of section 1 say must hold, each under interleaved requests.

**Refinement.** `Intake` knows only where a message is (unseen, held, filtered, on a
call) and what a call is (none, open, returned, closed). `IntakeDoor` maps its tables to
these and every step of a delivery, its retries and stops included, is a step of
`Intake` or none.

## 5. The proofs

58 theorems are listed in `PROJECT.json`. Thirty-six of the forty properties of the
passing runs are stated by one: every invariant and action property but those named under
"Only model-checked" below. The others are type correctness and facts about the past.
Each proof is the same argument: an inductive invariant, one lemma for each action (or for
each kind of write), a step lemma over `Next`, and a last step in temporal logic.

| Module | Theorem → property of a run | Other theorems |
|---|---|---|
| `ServiceCallProofs` | `FactsHold` → `CallsNameTheirFacts`, `ClosedStaysFrozen` → `ClosedCallIsFrozen`, `TimelinesTellTheirCalls` → `TimelineTellsTheCall`, `CallsRestOnThePast` → `RestsOnThePast` | `TypeCorrect`, `SuccessorsFollowClosedCalls`, `HistoryIsKept`, `CoursesAreOne` (the part `CourseIsOne` of `PageAgrees`) |
| `WorkRunnerProofs` | `WorkIsNotLost` → `DoneIsEarned`, `OnlyAnOverrunOverlaps` → `OneRunnerPerJob`, `FinishedStaysFinished` → `DoneIsFinal`, `ReadingsAreWhole` → `ReadingIsWhole` | – |
| `LettingProofs` | `HouseholdsNeverShareADay` → `OneHouseholdPerDay`, `ActivationStaysEarned` → `ActivationIsEarned`, `BooksAlwaysAgree` → `BooksAgree` | – |
| `IntakeDoorProofs` | `MessagesSettleOnce` → `SettledOnce`, `MessagesLandOnOpenCalls` → `MessagesLandWell`, `DoorKeepsThePromise` → `ImplementsIntake`, `ThreadsKeepOneCall` → `OneThreadOneCall`, `FlaggedCallsGetOneReply` → `FlaggedIsAnsweredOnce` | `DoorTypeCorrect` |
| `PortalProofs` | `CodesEndWellAlways` → `CodesEndWell`, `PasskeysSpendOnce` → `PasskeysAreSpentOnce`, `PortalOpensOnSeenTexts` → `OpensOnSeenTexts`, `FilesAreWhole` → `FilesKeepTheirWord`, `TenantsAlwaysAnswered` → `TenantsAreAnswered` | `SignInTypeCorrect`, `PasskeyTypeCorrect`, `NoticeTypeCorrect`, `PortalCallsTypeCorrect` |
| `BackgroundProofs` | `MailIsNeverSkipped` → `CursorSkipsNoMail`, `ThreadsTellTheirCall` → `ThreadTellsTheCall`, `SkippedThreadsStaySilent` → `SkippedStaysSilent` | `MailboxTypeCorrect`, `ThreadTypeCorrect` |
| `OfficeProofs` | `AccountsAreBoundOnce` → `RowIsBoundOnce`, `FilingsHold` → `FilingHolds`, `ThreadsTellTheirTurns` → `ThreadTellsItsTurns`, `OneIsAlwaysInForce` → `InForceHolds`, `EstateIsNeverStranded` → `EstateHolds`, `NumbersNameOnePerson` → `PeopleHold`, `SettingsAlwaysHold` → `SettingsHold`, `LedgerAlwaysHolds` → `LedgerHolds`, `DraftsAreWhole` → `HouseholdIsWhole` | `StaffTypeCorrect`, `OfficeThreadTypeCorrect`, `LibraryTypeCorrect`, `CatalogueTypeCorrect`, `SpacesTypeCorrect`, `PurgeTypeCorrect`, `PeopleTypeCorrect`, `SettingsTypeCorrect`, `LeasePeopleTypeCorrect` |
| `DeskProofs` | `ListsAlwaysHold` → `ListsHold`, `SoldFlatsAreNotLet` → `SoldFlatIsNotLet`, `EstateAlwaysAgrees` → `EstateAgrees` | `DeskTypeCorrect`, `EstateTypeCorrect` |

**ServiceCallProofs.** `CallsNameTheirFacts` is not inductive alone: a new call's
predecessor must exist and be closed, and a call not yet opened must be blank, or a first
write would inherit what no one wrote; so `IInv` adds both. The shared lemma about `Write`
says that a row the triggers and CHECKs let through keeps the invariant of its call and
leaves the others alone. `TimelineTellsTheCall` is proved without unfolding the replay:
what the timeline tells of a column is its last row of that kind, and each command appends
the rows of the columns it writes. `PastInv` serves `RestsOnThePast`. That a chain of
predecessors ends is said without recursion: every set of calls has one whose predecessor
is outside it; a new call joins with a predecessor that is there already. A holder of an
address that a match may use is `Vouched`: another module filed the contact, or a person
identified the holder on some call whose rows are never taken back. For
`ClosedCallIsFrozen` the replies at the send are on calls that exist, none begins on a
closed one, and a recorded one is taken out of hand. `CourseInv` serves `CoursesAreOne`:
the kinds of row a timeline holds say which columns were ever written, a category waits
for `TRIAGED` and outlasts it only in `CLOSED`, and what was cleared had been flagged.

**IntakeDoorProofs.** `IInv` says where a delivery may be, given its message: stored
before anything else, settled before `record`. The heart is that `settleAttach` and
`settleVerdict` ask again under the message's row lock, so a delivery cannot settle what
another settled between two of its steps. The refinement takes the steps one by one
(`StepCases`): each is `Receive`, `Hold`, a settling or an office step of `Intake`, or
changes nothing it can see.

`ThreadInv` is why a thread keeps one call: an open call holds mail, so the thread's read
finds it; between that read and the attach step a lone delivery knows of no open call but
the one it read, and once it asks the sorter there is none, so what it opens is alone. A
rescue, or a merge into a call that no message of the thread opened, ends all of this for
good, which is why `~Rescued` and `~MergedElsewhere` are hypotheses and not bounds.
`ReplyInv` is why a flagged call gets one reply: from the claim to the record it ties the
mark on the call (`dutyAt`), the reply its message carries (`duty`) and the replies the
provider took, so that at each step a reply is owed, on its way, or told, and never two of
these. `Undisturbed` is a state predicate that once false stays false, so the invariant is
`Undisturbed => ReplyInv`: nothing is assumed of behaviours that leave it.

**WorkRunnerProofs.** `Accounts` says a loop about to mark a row done has seen its handler
return. `Covered` says that the age of a loop on a job nobody overran and what the job's
lease still has add up to the lease, so such a row is not claimable and has no other loop;
it assumes nothing of how long handlers take. `ReadingsAreWhole` has two parts. `FieldsInv`
rests on `Covered`: on such a job only the loop that holds it writes its rows, and what it
has still to insert and what is stored are complements. `PagesInv` needs no such thing:
passages only grow, and whoever is about to write a page finds all the earlier ones
stored, by its own hand or another's, so it is about every document.

**LettingProofs.** `Apart` is what the two constraints keep over the rows; every action is
a write they let through or leaves the active rows as they were. `ActivationIsEarned` is
not inductive alone, since nothing asks the lease, the handover or the first day again at
the UPDATE: `Earned` adds that a request at the UPDATE still has all three, because links,
waivers and days are never taken back. The one step that might is a second opening of the
same paper, so `Earned` also says that an opening's paper is held by no other opening: the
lock on the document's row is what activation rests on. `BooksAgree` has two invariants.
`LogInv`: a letting that stands has no end in its log, and a request that ends one was
drawn while it was active, so its event comes after the other end's or is the first.
`PapersInv`: a stamped paper is promoted, hence never signed again; a request alone in
hand finds what it has read still standing; and a copy that moves nothing does so because
its own date is on the column already - otherwise the last stamp of another paper carries
it (`OccupantIsLast`). `OptionInv`: an option taken is on the row until a paper moves the
date.

**DeskProofs.** For the lists: no row is of the future, and a call that was closed when
the reader began and was not drawn yet stays closed, behind the window the older link
goes to; the clock only moves the windows on. That the inbox previews an emergency as
long as there is one rests on a lemma about what stands first in the order the query
states. For the screens: a letting is *taken* once it is active, and already from the look
of its activation on; taken lettings of one flat share no day, and unless a sale
overlapped an activation none is on a flat that is sold or being sold. The agreement of
the screens then follows letting by letting; that the tile of a flat the queue offers a
draft of draws one is that of the open drafts one begins first, and the counts add up
because no let flat is sold. `Peopled` adds that every letting the office
knows has somebody on it: the tiles read an occupancy that has a letting only once a
person is on it, the record reads the table, and without it the two would tell two
stories (`OccupiedBy(f) = RecordLetting(f)`).

**PortalProofs.** Notice: the versions are counted, a text is shown before it is posted
and posted before it is acknowledged. Report: a file is held only when scanned clean, what
a send listed was held, one clerk at a time has a file's row, and the room for files is
asked again where it is taken. Codes: `Rationed` says the caps for one number, address and
window at a time, which is what a new code is counted against; a number that was sent a
code has a latest one; of the entries that read one row a single one may mint, because
the UPDATE's WHERE asks again. Passkeys: what a tab has read stays true of the rows it
will write, and two tabs that spent a challenge spent different ones; the sign count rises
but for two counts written in the wrong order, which `lowered` records. Calls: `CallsInv`
says that whatever was printed, stored or told is about a call of the number until the
office or the number moves it; that a press carries a form that was printed and, once it
stored, a message that is there; that the call an answer names has been merged, if at all,
into the one its message is on; and that a continuation goes on from the closed call its
form was about. Merges are followed without recursion: a call is reached if it is in every
set that holds the first and is closed under the merges.
Its bound `MaxTickets` is at least 1 because a letting starts with one call.

**BackgroundProofs.** Every link a poll holds is covered like the stored cursor, so
whichever instance stores last skips nothing. A task fits the thread: the ordinal it read
follows a turn that is there, a draft under way has its brief below it, an emailed
reply past its sending was taken by the provider; and one turn is last.

**OfficeProofs.** *Staff*: bound rows carry different accounts, and a row that is gone
carries none. *Filing*: two counts, of the filings owed a line and of those at their
reading, bound by how much the cap is passed. *Office threads*: the turns have a latest,
and a question knows those stored before it. *Library*: two uploads in hand have ended
different versions, and at most one has inserted its own: the exclusion constraint refuses
the second. *Catalogue*: a field nobody retired has a declaration without end that has
begun. *Spaces*: a hand that takes a bay off names one that stood, and the foreign keys do
the rest. *Purge*: what a statement has deleted is named by nobody, as long as the keys
are on. *People*: the periods of a number share no day, and the answers on their way out
each had their line. *Settings*: a save carries an ordered pair and commits it whole, and
unless two changes of the list overlapped whoever holds a copy of it holds the list.
*Ledger*: a row gets its name from its reading, so a replaced row is never taken for the
one that was shown; a form is of a row its page showed, and an identifier was shown to
who revealed it (`TabFits`); a press holds only rows its page or its query allowed
(`HeldRowsFit`); a row signed alone was seen, and one signed with the rest was legible and
of the kind that may be (`SignatureFits`); only signed rows are promoted, and only with a
letting (`DraftFits`).
*Household*: the seats of a paper that is not opened are nobody's, so whoever a press
creates is new, and a press and a number hold parties that are there.

**Assumptions.** Only those the modules declare, which TLC evaluates on every run: bounds
are natural numbers (and no smaller than the rows there are at the start), names of
different kinds are different (a call's uuid is none of the words that stand for no call,
a registered party is no seat of a paper, `Unset` is no number), windows and leases are
positive, the requests counted by a cap (`Filers`, `Desks`) and the calls on a list and
the flats are finitely many, a document has a page, a letting's term is ordered and two of
one flat start on different days, which is the table's key. No theorem assumes anything of
how long a handler takes.

**Only model-checked.**

- Liveness: `BoundWorkGetsDone`, `MailIsReadOrTold`, `EveryMessageSettles`. The prover has
  no rule for fairness.
- `PageAgrees`, but for its part `CourseIsOne`: whether a command would be taken is
  ENABLED, which the prover cannot expand.
- The six findings, which are false.

## 6. Where the code and its documents disagree

Six have a run that shows the counterexample.

1. **A call that can no longer be closed** (`ServiceCallExit`). A requester identified on
   an open call becomes a guarantor on a tenancy. The trigger
   `service_call_reject_guarantor_requester` then refuses every update of the row, the
   exits included. `SPEC-calls.md:120`: the four exits close a call from any state before
   SCHEDULED.
2. **An emergency never answered** (`IntakeDoorUnanswered`). A stop between the claim and
   the send leaves an open call marked as replied to; the retry asks `dutyReplyOwed`
   first and is told no. `channel/internal/door.ts:338-339`: "A blank claim is a send
   that never finished: the next delivery takes it and sends".
3. **Work that waits for the next filing** (`WorkRunnerRestart`). A runner starts with no
   handler; only filing registers one. `SPEC-kernel.md:421`: a runner started after a
   restart picks up what an earlier one scheduled.
4. **A rescued message deleted** (`FilteredRescue`). The monthly sweep deletes the ids a
   subquery selected; a message rescued after the snapshot and before the row is reached
   is deleted though a call holds it. `channel/internal/retention.ts:1-2` and
   `SPEC-calls.md:274`: a rescued message stays, because it is a call.
5. **A filing that cannot be repeated** (`FilingStuck`). A filing cut off between the
   object and the row makes every later filing of those bytes at that place throw.
   `evidence/internal/intake.ts:329`: an object with no row is invisible.
6. **A draft on a sold flat** (`SoldFlatDraft`). `unit_tenure_guard` looks for an active
   letting only. `SPEC-estate.md:124-125`: no DRAFT or ACTIVE tenancy may sit on a SOLD
   flat.

Others met while modelling, which the properties above are worded around.

*Calls and their pages.* A stale exit posted on a call returned meanwhile fails on the
table's CHECK instead of being refused in words. The page offers to save the contact of a
returned call only after its rescue, where `saveSenderContact` would take it at once.

*At the door.*

- Two first messages of one thread, delivered at once, open two calls
  (`SPEC-channel.md:27`), and two emergencies on a new thread bring two replies
  (`SPEC-channel.md:162`), because the thread is read without a lock.
- A second delivery takes up a blank claim while the first is still sending, and both
  send. A call flagged by hand and cleared before the attach step is the reverse case.
- A call closed, returned or merged between the thread's read and the claim: the message
  opens a new call that is flagged and, its message's claim spent, not answered.
- A reply's own row can be stored on a call already closed as a duplicate
  (`SPEC-calls.md:124`; `door.ts:420`). A rescue, or a return and a restore, give a thread
  two open calls. So does a merge: a call of the thread merged into an open call of
  another thread, or into one opened by phone, takes the thread's mail with it
  (`exitCall`, `calls/internal/commands.ts:1866`), and the delivery in hand, which read
  the thread before, opens a second one, where `SPEC-channel.md:27` has a message on a
  thread with an open call attach to it and stop. Hence `~MergedElsewhere`.
  `onCallIdentified` runs after the message is settled and is lost by a stop
  (`door.ts:268`).
- The claim locks the call and then the message, `settleAttach` the message and then
  the call. Postgres breaks the tie by aborting one, which is a `Stop` here; a stop while
  releasing a claim equals one while sending and is left out.

*In durable work, filing and reading.*

- The lease of a job is 30 s (`kernel/work.ts:47`, `serve.ts:81`) and the reader its
  handler asks may take 60 (`kernel/extraction.ts:67`), so a second loop can run a job
  beside the first, where `SPEC-kernel.md:417` says two runners can never take the same
  one. Then a field can have two unsigned rows (`SPEC-evidence.md:179`), and a document
  marked done can miss a field, since one loop's delete takes what the other inserted.
  Hence `overrun` in `OneRunnerPerJob` and `ReadingIsWhole`.
- A failure between two passages leaves those written for good, since the retry finds
  some and writes none (`evidence/internal/passages.ts:59`). `DoneHasFirstPages` says
  what is left of the promise. A retry whose reader is unavailable after the delete ends
  done, with part of the fields.
- `evidence/internal/routes.ts:242-243` says both outcomes count towards the day's cap;
  what a lease door refuses after its reading is not counted. `spent` leaves it out.
- Retiring a declaration made the same day is refused by a CHECK
  (`kernel/migrations/0011_evidence.sql:108`), not by the code. The type proof of
  `Catalogue` needs the CHECK.

*On the ledger.* A stale "approve as read" signs over another clerk's correction
(`approve.ts:256-260`). A bulk press may sign rows of a newer reading nobody was shown,
hence `SignedAsSeen` is about rows signed alone. The number the bulk button reports counts
rows it skipped. A re-read after the signature adds an unsigned twin with no control to
dismiss it.

*On the thread of a call.* A restart between the insert of the first turn and the mark
leaves the thread writing with a turn, and nothing works on it any more
(`SPEC-calls.md:59`). A first brief and a refresh that overlap both write the turn
numbered 0. A requester who became a guarantor still gets drafts
(`calls/internal/draft.ts:141` says a guarantor writes nothing). A draft that lands
between the page and the send turns "as written" into "edited". A reply can be recorded on
a call closed during the send (`calls/internal/send.ts:48-102`); `ClosedCallIsFrozen` says
that nothing else can.

*At sign-in.* The send has no timeout, so an older send that ends after a newer code's row
supersedes the newer one, and each can end the other; an overlapping second request
rotates the challenge and the first browser's is dead until it asks again.

*In the portal.* A follow-up whose call closes between `followThread` and `settleAttach`
opens a call without predecessor when it is the thread's first (`door.ts:781`), hence
`closedBetween`. A follow-up or question labelled noise tells the tenant to try again,
while the message is filtered. An office-opened call returned between the route and
`followThread` leaves the message held, and nothing delivers it again. After a merge into
another requester's call the tenant's thread is empty, and the survivor's page shows the
moved messages. The session sees the calls of whoever holds its number today.

*On a letting, a flat and their screens.*

- A signature that commits between the opening's reading of the value and its commit
  leaves a promoted reading whose signed value is not on the column, where
  `evidence/internal/approve.ts` says a promoted row is refused because "a new stamp
  would disagree with it". Hence `~overlapped` in `ColumnTellsThePaper`.
- `endTenancyEarly` appends `ended_early` whether or not its UPDATE found an active row
  (`tenancy/internal/commands.ts:715-737`), so a letting that expired meanwhile has two
  ends in its log. Hence the first end in `LogTellsTheEnd`.
- Two leases of one flat and one start date opened at once: each locks its own document,
  both find the flat free, and the second upsert writes over the first, even one already
  active, which is a draft again (`SPEC-tenancy.md:24`: a unit accumulates tenancies and
  never overwrites them). Importing a register again does the same and tells no event.
  Hence `rewritten`.
- An option moves the end date with no paper (`exerciseOption`). An addendum promoted
  afterwards whose date is the one the previous paper carried counts as the same value
  held, and leaves the option's date on the column.
- A stop between activation's UPDATE and its INSERT leaves an active letting whose log
  never says so (`tenancy/internal/activation.ts:329-358`).
- An activation and a sale of the flat that overlap both commit. Hence `crossed`.
- The estate's page of one building does not ask for the tenure and counts a sold flat as
  vacant, where `SPEC-estate.md:131-132` says it is in neither count; `EstateAgrees` is
  about the inventory's pages, which do ask. A draft that
  fails only its term or its flat misses nothing by `missingItems`. A register draft with
  no paper is on no list of the incomplete. An active letting with nobody on it would be
  drawn vacant on the tiles and let in the record; no command modelled leads there
  (`Peopled`). A termination notice is filed although the
  end is refused.

*Among the accounts.* Two Google accounts that call back with one address while its row is
unbound: the row takes the first (`RowIsBoundOnce`), and the browser of the second still
gets a session of that row, since the count of `linkLocalId`'s UPDATE is not looked at
(`staff/internal/routes.ts:284-294`). The list of free dates loses one of two changes at
once and the audit tells both (`calls/internal/commands.ts:2425`); hence `overlapped` in
`SettingsHold`. A purge with the keys off leaves rows that name what is gone
(`estate/internal/purge.ts:654`); hence `bypassed` in `EstateHolds`.

## 7. What is not modelled, and what is next

Not modelled because they keep no state of their own: searches, adapters of outside
services, the wiring of the server, wording and layout of pages. Texts, labels (but
noise), wording and logging are abstracted throughout; the audit is modelled where a
property reads it. `inTransaction` is taken as atomic and isolated by its row locks.
Migrations are modelled where a constraint or trigger refuses what a command would write.

Left for lack of reach so far: the handover protocol's readings, the obligations of a
letting, the lists of incomplete lettings and of leases that end soon, the importer's plan
with assets and providers, the catalogue's page and the screens of a confirmation, the
notice of a new device, the pages that list people. Pure conversions (the mapping of words
to fields, business days beyond the two clocks, the checks of a register row) are
abstracted where they occur.

Next, in this order:

1. `ThreadInv` with two deliveries in hand, which needs what the thread's lock would be:
   the theorem to state once the code takes one.
2. The type correctness of `Filtered`.
