------------------------------ MODULE CallThread ------------------------------
(***************************************************************************)
(* The thread beside one service call: the brief the model writes when the *)
(* caller is identified, its refreshes, the staff's follow-up questions,   *)
(* the draft replies, and the reply that is sent (calls/internal/brief.ts, *)
(* draft.ts, send.ts; staff/internal/call-thread.ts).                      *)
(*                                                                         *)
(* No step holds a lock: a request reads the call, the settings and the    *)
(* thread, waits for the model or the mail provider, and then writes a     *)
(* turn in three statements, each committed alone.  The brief itself runs  *)
(* after its request has ended, in memory only.                            *)
(*                                                                         *)
(* Abstracted: texts, citations, what the model is shown, who asks.        *)
(***************************************************************************)
EXTENDS Naturals, FiniteSets, FiniteSetsExt

CONSTANTS
  Tasks,         \* requests and deferred briefs, numbered as they begin
  Channels,      \* the source channels a call may have come from
  ModelFailures, \* bound: calls of the model or the mail provider that fail
  ThreadRestarts, \* bound: restarts of the server
  MaxSwitches,   \* bound: flips of the switch and of the requester's role
  Nobody

ASSUME TasksAssumption == Tasks \subseteq Nat /\ Nobody \notin Tasks
ASSUME ChannelsAssumption ==
  Channels \subseteq {"WHATSAPP", "EMAIL", "PHONE", "WALK_IN", "PORTAL"}
ASSUME ThreadBoundsAssumption ==
  {ModelFailures, ThreadRestarts, MaxSwitches} \subseteq Nat

VARIABLES
  call,        \* service_call: what these commands read of it
  guarantor,   \* whether every role of the requester is a guarantor's
  enabled,     \* the setting calls.brief
  thread,      \* call_thread.status, "absent" before there is one
  turns,       \* call_turn
  replies,     \* the REPLIED rows of the timeline
  sent,        \* replies the mail provider accepted
  task,        \* the requests and deferred briefs under way
  modelFailures, threadRestarts, switches

bounds == <<modelFailures, threadRestarts, switches>>
office == <<call, guarantor, enabled>>
callThreadVars == <<office, thread, turns, replies, sent, task, bounds>>

Kind == {"start", "refresh", "followUp", "draft", "send"}
Step == {"idle", "begin", "open", "load", "check", "model", "ordinal",
         "insert", "ready", "mail", "mark", "record",
         "done", "refused", "failed", "lost"}

\* source: the brief turn a draft rests on, or the draft a reply is a copy of.
Task ==
  [pc: Step, kind: Kind \cup {Nobody}, again: BOOLEAN, skip: BOOLEAN,
   ordinal: Nat, source: Tasks \cup {Nobody}, mark: BOOLEAN]

Idle ==
  [pc |-> "idle", kind |-> Nobody, again |-> FALSE, skip |-> FALSE,
   ordinal |-> 0, source |-> Nobody, mark |-> FALSE]

Turn ==
  [by: Tasks, kind: {"brief", "followUp", "draft"}, ordinal: Nat,
   source: Tasks \cup {Nobody}]

CallThreadTypeOK ==
  /\ call \in [state: {"NEW", "IDENTIFIED", "CLOSED"}, returned: BOOLEAN,
               channel: Channels]
  /\ guarantor \in BOOLEAN /\ enabled \in BOOLEAN
  /\ thread \in {"absent", "writing", "ready", "skipped"}
  /\ turns \subseteq Turn
  /\ replies \subseteq [by: Tasks, source: Tasks \cup {Nobody},
                        asWritten: BOOLEAN]
  /\ sent \subseteq Tasks
  /\ task \in [Tasks -> Task]
  /\ modelFailures \in 0..ModelFailures
  /\ threadRestarts \in 0..ThreadRestarts
  /\ switches \in 0..MaxSwitches

CallThreadInit ==
  /\ \E ch \in Channels :
       call = [state |-> "NEW", returned |-> FALSE, channel |-> ch]
  /\ guarantor = FALSE /\ enabled = TRUE
  /\ thread = "absent" /\ turns = {} /\ replies = {} /\ sent = {}
  /\ task = [t \in Tasks |-> Idle]
  /\ modelFailures = 0 /\ threadRestarts = 0 /\ switches = 0

-----------------------------------------------------------------------------
Ended == {"idle", "done", "refused", "failed", "lost"}
BusyTasks == {t \in Tasks : task[t].pc \notin Ended}
IsNext(t) ==
  task[t].pc = "idle" /\ \A s \in Tasks : task[s].pc = "idle" => t <= s

At(t, step) == task[t].pc = step
Goto(t, step) == task' = [task EXCEPT ![t].pc = step]

\* Turns are read ORDER BY ordinal; of two with one ordinal either may be last.
LastOf(S) == {x \in S : \A y \in S : y.ordinal <= x.ordinal}
Briefs == {x \in turns : x.kind = "brief"}
Drafts == {x \in turns : x.kind = "draft"}

Launch(t, kind, step) ==
  /\ IsNext(t)
  /\ task' = [task EXCEPT ![t] = [Idle EXCEPT !.kind = kind, !.pc = step]]

-----------------------------------------------------------------------------
(* The brief.                                                              *)

\* A person or the door links the requester, and the same request begins the
\* brief.  A guarantor cannot be linked.
Identify(t) ==
  /\ call.state = "NEW" /\ ~guarantor
  /\ call' = [call EXCEPT !.state = "IDENTIFIED"]
  /\ Launch(t, "start", "begin")
  /\ UNCHANGED <<guarantor, enabled, thread, turns, replies, sent, bounds>>

\* The door does the same for every message that lands on the call.
MessageLands(t) ==
  /\ call.state # "CLOSED" /\ ~call.returned
  /\ Launch(t, "start", "begin")
  /\ UNCHANGED <<office, thread, turns, replies, sent, bounds>>

BeginBrief(t) ==
  /\ At(t, "begin")
  /\ IF call.state = "NEW" \/ call.returned
       THEN Goto(t, "refused")
       ELSE task' = [task EXCEPT
              ![t].pc = "open",
              ![t].skip = guarantor \/ ~enabled \/ call.channel = "WHATSAPP"]
  /\ UNCHANGED <<office, thread, turns, replies, sent, bounds>>

\* beginCallThread: ON CONFLICT DO NOTHING, and the model's turn is put off.
OpenThread(t) ==
  /\ At(t, "open")
  /\ thread' = IF thread # "absent" THEN thread
               ELSE IF task[t].skip THEN "skipped" ELSE "writing"
  /\ Goto(t, IF thread = "absent" /\ ~task[t].skip THEN "load" ELSE "done")
  /\ UNCHANGED <<office, turns, replies, sent, bounds>>

Refresh(t) ==
  /\ Launch(t, "refresh", "load")
  /\ UNCHANGED <<office, thread, turns, replies, sent, bounds>>

\* What writeCallBrief and runCallBrief each ask of the thread they load.
MayWriteAnyThread(again) == again => thread = "ready"
MayWriteBrief(again) ==
  /\ thread \notin {"absent", "skipped"}
  /\ IF again THEN thread = "ready" ELSE turns = {}

LoadThread(t) ==
  LET again == task[t].kind = "refresh" /\ turns # {} IN
  /\ At(t, "load")
  /\ task' = [task EXCEPT
       ![t].again = again,
       ![t].pc = IF MayWriteBrief(again) /\ enabled /\ ~guarantor
                 THEN "check" ELSE "refused"]
  /\ UNCHANGED <<office, thread, turns, replies, sent, bounds>>

CheckThread(t) ==
  /\ At(t, "check")
  /\ Goto(t, IF IF task[t].kind = "followUp" THEN thread = "ready"
                ELSE MayWriteBrief(task[t].again)
             THEN "model" ELSE "refused")
  /\ UNCHANGED <<office, thread, turns, replies, sent, bounds>>

ModelAnswers(t) ==
  /\ At(t, "model")
  /\ Goto(t, "ordinal")
  /\ UNCHANGED <<office, thread, turns, replies, sent, bounds>>

Fails(t, step) ==
  /\ At(t, step)
  /\ modelFailures < ModelFailures
  /\ modelFailures' = modelFailures + 1
  /\ Goto(t, "failed")
  /\ UNCHANGED <<office, thread, turns, replies, sent, threadRestarts,
                 switches>>

-----------------------------------------------------------------------------
(* insertTurn: three statements.                                           *)
NextOrdinalFromOne == Max({0} \cup {x.ordinal : x \in turns}) + 1
NextOrdinal == IF turns = {} THEN 0 ELSE Max({x.ordinal : x \in turns}) + 1

ReadOrdinal(t) ==
  /\ At(t, "ordinal")
  /\ task' = [task EXCEPT ![t].pc = "insert", ![t].ordinal = NextOrdinal]
  /\ UNCHANGED <<office, thread, turns, replies, sent, bounds>>

TurnKind(kind) == IF kind \in {"start", "refresh"} THEN "brief" ELSE kind

InsertTurn(t) ==
  /\ At(t, "insert")
  /\ turns' = turns \cup
       {[by |-> t, kind |-> TurnKind(task[t].kind),
         ordinal |-> task[t].ordinal, source |-> task[t].source]}
  /\ Goto(t, "ready")
  /\ UNCHANGED <<office, thread, replies, sent, bounds>>

MarkReady(t) ==
  /\ At(t, "ready")
  /\ thread' = "ready"
  /\ Goto(t, "done")
  /\ UNCHANGED <<office, turns, replies, sent, bounds>>

-----------------------------------------------------------------------------
(* Follow-ups, drafts and replies.                                         *)

\* A question that names another unit or party is the record refusal, and the
\* model is not asked.
FollowUp(t, outside) ==
  /\ thread = "ready" /\ enabled /\ ~guarantor
  /\ Launch(t, "followUp", IF outside THEN "ordinal" ELSE "check")
  /\ UNCHANGED <<office, thread, turns, replies, sent, bounds>>

DraftSource == LastOf(Briefs)

\* A brief that cited nothing is answered with the refusal, without the model.
Draft(t, cited) ==
  /\ call.state # "NEW" /\ ~call.returned /\ call.channel # "WHATSAPP"
  /\ thread = "ready" /\ enabled
  /\ \E brief \in DraftSource :
       /\ IsNext(t)
       /\ task' = [task EXCEPT ![t] =
            [Idle EXCEPT !.kind = "draft", !.source = brief.by,
                         !.pc = IF cited THEN "model" ELSE "ordinal"]]
  /\ UNCHANGED <<office, thread, turns, replies, sent, bounds>>

\* The page posts the text of the draft it shows, or an edit of it.
Send(t) ==
  /\ call.state = "IDENTIFIED"
  /\ call.channel \in {"EMAIL", "PORTAL"}
  /\ IsNext(t)
  /\ \E text \in {x.by : x \in Drafts} \cup {Nobody} :
       task' = [task EXCEPT ![t] =
         [Idle EXCEPT !.kind = "send", !.source = text,
                      !.pc = IF call.channel = "EMAIL" THEN "mail" ELSE "mark"]]
  /\ UNCHANGED <<office, thread, turns, replies, sent, bounds>>

MailAccepted(t) ==
  /\ At(t, "mail")
  /\ sent' = sent \cup {t}
  /\ Goto(t, "mark")
  /\ UNCHANGED <<office, thread, turns, replies, bounds>>

IsText(t, last) == last.by = task[t].source

\* The text is compared with the last draft on the thread, as it is now.
ReadMark(t) ==
  /\ At(t, "mark")
  /\ IF Drafts = {}
       THEN Goto(t, "record")
       ELSE \E last \in LastOf(Drafts) :
              task' = [task EXCEPT ![t].pc = "record",
                                   ![t].mark = IsText(t, last)]
  /\ UNCHANGED <<office, thread, turns, replies, sent, bounds>>

RecordReply(t) ==
  /\ At(t, "record")
  /\ replies' = replies \cup
       {[by |-> t, source |-> task[t].source, asWritten |-> task[t].mark]}
  /\ Goto(t, "done")
  /\ UNCHANGED <<office, thread, turns, sent, bounds>>

-----------------------------------------------------------------------------
(* What goes on beside them.                                               *)
ExitCall ==
  /\ call.state # "CLOSED" /\ ~call.returned
  /\ call' = [call EXCEPT !.state = "CLOSED"]
  /\ UNCHANGED <<guarantor, enabled, thread, turns, replies, sent, task, bounds>>

ReturnOrRestore ==
  /\ call.state # "CLOSED" /\ call.channel # "PORTAL"
  /\ call' = [call EXCEPT !.returned = ~@]
  /\ UNCHANGED <<guarantor, enabled, thread, turns, replies, sent, task, bounds>>

Switch ==
  /\ switches < MaxSwitches
  /\ switches' = switches + 1
  /\ \/ enabled' = ~enabled /\ UNCHANGED guarantor
     \/ guarantor' = ~guarantor /\ UNCHANGED enabled
  /\ UNCHANGED <<call, thread, turns, replies, sent, task, modelFailures,
                 threadRestarts>>

LoseTasks ==
  /\ threadRestarts < ThreadRestarts /\ BusyTasks # {}
  /\ threadRestarts' = threadRestarts + 1
  /\ task' = [t \in Tasks |->
       IF t \in BusyTasks THEN [task[t] EXCEPT !.pc = "lost"] ELSE task[t]]
  /\ UNCHANGED <<office, thread, turns, replies, sent, modelFailures,
                 switches>>

-----------------------------------------------------------------------------
TaskStep(t) ==
  \/ BeginBrief(t) \/ OpenThread(t) \/ LoadThread(t) \/ CheckThread(t)
  \/ ModelAnswers(t) \/ ReadOrdinal(t) \/ InsertTurn(t) \/ MarkReady(t)
  \/ MailAccepted(t) \/ ReadMark(t) \/ RecordReply(t)

CallThreadNext ==
  \/ \E t \in Tasks :
       \/ Identify(t) \/ MessageLands(t) \/ Refresh(t) \/ Send(t)
       \/ \E b \in BOOLEAN : FollowUp(t, b) \/ Draft(t, b)
       \/ TaskStep(t)
       \/ Fails(t, "model") \/ Fails(t, "mail")
  \/ ExitCall \/ ReturnOrRestore \/ Switch \/ LoseTasks

CallThreadSpec == CallThreadInit /\ [][CallThreadNext]_callThreadVars

-----------------------------------------------------------------------------
(* SPEC-calls.md: the brief is the first turn of the thread.  Whatever     *)
(* overlaps, the turns count up from the brief without a gap.              *)
BriefComesFirst ==
  /\ \A x \in turns : x.ordinal = 0 => x.kind = "brief"
  /\ \A x \in turns : x.ordinal > 0 =>
       \E y \in turns : y.ordinal = x.ordinal - 1

(* SPEC-calls.md: a draft is grounded in the latest brief turn.  It is     *)
(* always one that stands above the draft on the page.                     *)
DraftFollowsItsBrief ==
  \A x \in Drafts :
    \E y \in Briefs : y.by = x.source /\ y.ordinal < x.ordinal

(* A reply is recorded as written only if its text is a draft of the       *)
(* thread, and an email reply only after the provider took it.             *)
RepliesAreTold ==
  \A r \in replies :
    /\ r.asWritten => \E x \in Drafts : x.by = r.source
    /\ call.channel = "EMAIL" => r.by \in sent

(* A thread that was skipped stays skipped and gets no turn: no refresh,   *)
(* follow-up or draft begun before or after brings one.                    *)
SkippedStaysSilent ==
  [][thread = "skipped" => thread' = "skipped" /\ turns' = {}]_callThreadVars

(* The thread as the page shows it.                                        *)
ThreadTellsTheCall ==
  BriefComesFirst /\ DraftFollowsItsBrief /\ RepliesAreTold

=============================================================================
