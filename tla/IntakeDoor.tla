------------------------------ MODULE IntakeDoor ------------------------------
(***************************************************************************)
(* The intake door of the channel module (channel/internal/door.ts): every *)
(* delivery of a message runs the steps of intake in order, each database  *)
(* transaction or outside call a step of its own, so deliveries interleave *)
(* with one another and with the office's commands on the same calls.      *)
(*                                                                         *)
(* Two deliveries may be in hand at once (two webhooks, a webhook and its  *)
(* retry), and any of them may stop between two steps (an exception, a     *)
(* lost connection, a restart).  The channel then delivers again.          *)
(*                                                                         *)
(* The messages are those of one conversation.  Its calls may be merged    *)
(* into one that was opened elsewhere, by phone or by the messages of      *)
(* another conversation, which the thread then has like any other.         *)
(*                                                                         *)
(* Abstracted: texts, attachments, and every label of a model but noise,   *)
(* the one a step reads.  Two reads with no write between them, whose      *)
(* order no other step can tell apart, are one step.                       *)
(***************************************************************************)
EXTENDS Naturals, FiniteSets, FiniteSetsExt

CONSTANTS
  Deliveries,     \* attempts to hand a message to the door, numbered
  Messages,       \* inbound messages, numbered in the order they were sent
  Emergency,      \* those whose text matches the emergency terms
  Calls,          \* identifiers of service calls
  Office,         \* the commands the office issues in this run
  MaxInHand,      \* bound: deliveries in hand at one time
  MaxDoorStops,       \* bound: deliveries that stop half-way
  MaxRefusals,    \* bound: replies the provider refuses
  MaxExtra,       \* bound: deliveries the channel repeats though none failed
  Pending,        \* DUTY_REPLY_PENDING: claimed, not yet accepted
  Null          \* SQL NULL

OfficeCommands ==
  {"close", "duplicate", "return", "flag", "clear", "rescue", "elsewhere"}

ASSUME MessagesAssumption ==
  /\ Deliveries \subseteq Nat
  /\ Messages \subseteq Nat \ {0} /\ Emergency \subseteq Messages
ASSUME OfficeAssumption == Office \subseteq OfficeCommands
ASSUME DoorBoundsAssumption ==
  {MaxInHand, MaxDoorStops, MaxRefusals, MaxExtra} \subseteq Nat
ASSUME NullAssumption ==
  /\ {Null, Pending} \cap Messages = {}
  /\ {Null, Pending} \cap Deliveries = {}
  /\ Null \notin Calls \cup {"TERMS", "STAFF", "noise", Pending}
\* A call is named by a uuid, which is none of the marks of what is on no call.
ASSUME CallsAssumption ==
  Calls \cap {"unseen", "held", "filtered", "absent", "unlinked"} = {}

VARIABLES
  calls,      \* service_call: what the door and the office read of it
  message,    \* message: the inbound rows
  echo,       \* message: the row of the reply a delivery sent
  proc,       \* the deliveries in hand: their step and local variables
  dutySent,       \* replies the provider accepted
  acked,      \* messages the channel will not deliver again by itself
  opener,     \* history: the message a call was opened from, if one of these
  doorStops, refusals, extra

budget == <<doorStops, refusals, extra>>
besideCalls == <<message, echo, proc, dutySent, acked, opener, budget>>
doorVars == <<calls, besideCalls>>

CallRow ==
  [state: {"none", "open", "closed"}, returned: BOOLEAN,
   flag: {Null, "TERMS", "STAFF"},
   dutyAt: Deliveries \cup {Pending, Null},   \* Pending: by another conversation
   predecessor: Calls \cup {Null}, duplicateOf: Calls \cup {Null}]

NoCall ==
  [state |-> "none", returned |-> FALSE, flag |-> Null, dutyAt |-> Null,
   predecessor |-> Null, duplicateOf |-> Null]

MessageRow ==
  [stored: BOOLEAN, call: Calls \cup {Null},
   label: {Null, "noise"},
   duty: Deliveries \cup {Null, Pending}]

DeliveryStep ==
  {"idle", "recheck", "thread", "claim", "send", "release", "storeId",
   "storeEcho", "attach", "sort", "settle", "record", "done", "failed"}

Delivery ==
  [pc: DeliveryStep, msg: Messages \cup {Null}, open: Calls \cup {Null},
   pred: Calls \cup {Null}, result: Calls \cup {Null}]

NoDelivery == [pc |-> "idle", msg |-> Null, open |-> Null, pred |-> Null,
         result |-> Null]

\* An echo row: not stored, stored on no call, or stored on a call.
EchoRow == {"absent", "unlinked"} \cup Calls

DoorTypeOK ==
  /\ calls \in [Calls -> CallRow]
  /\ message \in [Messages -> MessageRow]
  /\ echo \in [Deliveries -> EchoRow]
  /\ proc \in [Deliveries -> Delivery]
  /\ dutySent \subseteq Deliveries
  /\ acked \subseteq Messages
  /\ opener \in [Calls -> Messages \cup {Null}]
  /\ doorStops \in 0..MaxDoorStops
  /\ refusals \in 0..MaxRefusals
  /\ extra \in 0..MaxExtra

DoorInit ==
  /\ calls = [c \in Calls |-> NoCall]
  /\ message = [m \in Messages |->
       [stored |-> FALSE, call |-> Null, label |-> Null, duty |-> Null]]
  /\ echo = [d \in Deliveries |-> "absent"]
  /\ proc = [d \in Deliveries |-> NoDelivery]
  /\ dutySent = {} /\ acked = {}
  /\ opener = [c \in Calls |-> Null]
  /\ doorStops = 0 /\ refusals = 0 /\ extra = 0

-----------------------------------------------------------------------------
SettledByLabel(m) == message[m].label # Null
StoredIsSettled(m) == message[m].stored
Settled(m) == message[m].call # Null \/ message[m].label # Null
StillOpen(c) == calls[c].state = "open"
Attachable(c) == calls[c].state = "open" /\ ~calls[c].returned
Matches(m) == m \in Emergency

\* The calls of the conversation, by the newest message each one holds.
OnCall(c) == {m \in Messages : message[m].call = c}
ThreadCalls ==
  {message[m].call : m \in Messages} \cup {echo[d] : d \in Deliveries}
NewestAt(c) == IF OnCall(c) = {} THEN 0 ELSE Max(OnCall(c))
HoldsReply(c) == \E d \in Deliveries : echo[d] = c

\* The order of received_at.  A reply's time is the moment it was claimed,
\* which the model does not keep: a call that holds one may come first.
Newest(S) ==
  {c \in S : HoldsReply(c) \/ \A d \in S : NewestAt(d) <= NewestAt(c)}

OpenOnThread == {c \in Calls \cap ThreadCalls : Attachable(c)}
ClosedOnThread == {c \in Calls \cap ThreadCalls : calls[c].state = "closed"}

\* threadOf: the newest open call, or else the newest closed one.
ThreadOpen == IF OpenOnThread = {} THEN {Null} ELSE Newest(OpenOnThread)
ThreadPredecessor ==
  IF OpenOnThread # {} \/ ClosedOnThread = {} THEN {Null}
  ELSE Newest(ClosedOnThread)

DeliveryAt(d, step) == proc[d].pc = step
GoesTo(d, step) == proc' = [proc EXCEPT ![d].pc = step]
Finish(d, c) == proc' = [proc EXCEPT ![d].pc = "record", ![d].result = c]
InTheDoor == {d \in Deliveries : proc[d].pc \notin {"idle", "done", "failed"}}
InHand(m) == \E d \in InTheDoor : proc[d].msg = m
Unused == {d \in Deliveries : proc[d].pc = "idle"}
NextAttempt(d) == d \in Unused /\ \A x \in Unused : d <= x

-----------------------------------------------------------------------------
(* One delivery.                                                           *)

\* The channel hands over a message it has no answer for, or repeats one.
\* A settled message is answered at once; any other is stored before anything
\* else is asked of it.
Receive(d, m) ==
  /\ NextAttempt(d)
  /\ Cardinality(InTheDoor) < MaxInHand
  /\ \/ m \notin acked /\ ~InHand(m) /\ extra' = extra
     \/ extra < MaxExtra /\ extra' = extra + 1
  /\ IF Settled(m)
       THEN /\ proc' = [proc EXCEPT ![d] =
                 [NoDelivery EXCEPT !.pc = "record", !.msg = m,
                              !.result = message[m].call]]
            /\ UNCHANGED message
       ELSE /\ proc' = [proc EXCEPT ![d] =
                 [NoDelivery EXCEPT !.pc = "recheck", !.msg = m]]
            /\ message' = [message EXCEPT ![m].stored = TRUE]
  /\ UNCHANGED <<calls, echo, dutySent, acked, opener, doorStops, refusals>>

Recheck(d) ==
  LET m == proc[d].msg IN
  /\ DeliveryAt(d, "recheck")
  /\ IF Settled(m) THEN Finish(d, message[m].call) ELSE GoesTo(d, "thread")
  /\ UNCHANGED <<calls, message, echo, dutySent, acked, opener, budget>>

SortAlways(open) == "sort"
NextAfterReply(open) == IF open # Null THEN "attach" ELSE "sort"

ReadThread(d) ==
  /\ DeliveryAt(d, "thread")
  /\ \E open \in ThreadOpen, pred \in ThreadPredecessor :
       proc' = [proc EXCEPT
         ![d].open = open, ![d].pred = pred,
         ![d].pc = IF Matches(proc[d].msg) THEN "claim"
                   ELSE NextAfterReply(open)]
  /\ UNCHANGED <<calls, message, echo, dutySent, acked, opener, budget>>

\* dutyReplyOwed: a call the terms did not flag is owed one when this message
\* is about to flag it.
OwedUnlessByHand(c) ==
  Attachable(c) /\ calls[c].flag \in {Null, "TERMS"}

DutyReplyOwed(c) ==
  /\ Attachable(c)
  /\ calls[c].dutyAt = Null
  /\ calls[c].flag \in {Null, "TERMS"}

Unclaimed(m) == message[m].duty \in {Null, Pending}

ClaimReply(d) ==
  LET m == proc[d].msg
      c == proc[d].open
      mine == (c # Null => DutyReplyOwed(c)) /\ Unclaimed(m)
  IN
  /\ DeliveryAt(d, "claim")
  /\ IF mine
       THEN /\ message' = [message EXCEPT ![m].duty = Pending]
            /\ calls' = IF c = Null THEN calls
                        ELSE [calls EXCEPT ![c].dutyAt = d]
            /\ GoesTo(d, "send")
       ELSE /\ GoesTo(d, NextAfterReply(c))
            /\ UNCHANGED <<calls, message>>
  /\ UNCHANGED <<echo, dutySent, acked, opener, budget>>

SendAccepted(d) ==
  /\ DeliveryAt(d, "send")
  /\ dutySent' = dutySent \cup {d}
  /\ GoesTo(d, "storeId")
  /\ UNCHANGED <<calls, message, echo, acked, opener, budget>>

SendRefused(d) ==
  /\ DeliveryAt(d, "send")
  /\ refusals < MaxRefusals
  /\ refusals' = refusals + 1
  /\ GoesTo(d, "release")
  /\ UNCHANGED <<calls, message, echo, dutySent, acked, opener, doorStops,
                 extra>>

\* The mark a delivery set is taken back, and no other.
ReleasedMarks(d) ==
  LET c == proc[d].open IN
  IF c # Null /\ calls[c].dutyAt = d
  THEN [calls EXCEPT ![c].dutyAt = Null] ELSE calls

\* releaseDutyClaim, then the error leaves the door.
ReleaseClaim(d) ==
  LET m == proc[d].msg IN
  /\ DeliveryAt(d, "release")
  /\ message' = IF message[m].duty = Pending
                THEN [message EXCEPT ![m].duty = Null] ELSE message
  /\ calls' = ReleasedMarks(d)
  /\ GoesTo(d, "failed")
  /\ UNCHANGED <<echo, dutySent, acked, opener, budget>>

StoreReplyId(d) ==
  LET m == proc[d].msg IN
  /\ DeliveryAt(d, "storeId")
  /\ message' = IF message[m].duty = Pending
                THEN [message EXCEPT ![m].duty = d] ELSE message
  /\ GoesTo(d, "storeEcho")
  /\ UNCHANGED <<calls, echo, dutySent, acked, opener, budget>>

\* The reply's own row, linked to the call the thread had when it was read.
StoreReplyEcho(d) ==
  LET c == proc[d].open IN
  /\ DeliveryAt(d, "storeEcho")
  /\ echo' = IF echo[d] # "absent" THEN echo
             ELSE [echo EXCEPT ![d] = IF c = Null THEN "unlinked" ELSE c]
  /\ GoesTo(d, NextAfterReply(c))
  /\ UNCHANGED <<calls, message, dutySent, acked, opener, budget>>

\* storeEcho: the provider delivers the reply itself, as something the office
\* sent.  One transaction; the unique key keeps whichever row came first.
ReceiveEcho(d) ==
  /\ d \in dutySent
  /\ echo[d] = "absent"
  /\ \E open \in ThreadOpen :
       echo' = [echo EXCEPT ![d] = IF open = Null THEN "unlinked" ELSE open]
  /\ UNCHANGED <<calls, message, proc, dutySent, acked, opener, budget>>

FlaggedByTerms(row, byTerms) ==
  IF byTerms /\ row.flag = Null THEN [row EXCEPT !.flag = "TERMS"] ELSE row

SettleAttach(d) ==
  LET m == proc[d].msg
      c == proc[d].open
  IN
  /\ DeliveryAt(d, "attach")
  /\ IF Settled(m)
       THEN Finish(d, message[m].call) /\ UNCHANGED <<calls, message>>
     ELSE IF Attachable(c)
       THEN /\ message' = [message EXCEPT ![m].call = c]
            /\ calls' = [calls EXCEPT ![c] = FlaggedByTerms(@, Matches(m))]
            /\ Finish(d, c)
     ELSE GoesTo(d, "sort") /\ UNCHANGED <<calls, message>>
  /\ UNCHANGED <<echo, dutySent, acked, opener, budget>>

\* The sorter is asked, and a delivery that found an open call reads the
\* thread a second time for a predecessor.
AskSorter(d) ==
  /\ DeliveryAt(d, "sort")
  /\ \E pred \in IF proc[d].open = Null THEN {proc[d].pred}
                 ELSE ThreadPredecessor :
       proc' = [proc EXCEPT ![d].pc = "settle", ![d].pred = pred]
  /\ UNCHANGED <<calls, message, echo, dutySent, acked, opener, budget>>

OpenedCall(pred, byTerms) ==
  [NoCall EXCEPT !.state = "open", !.predecessor = pred,
                 !.flag = IF byTerms THEN "TERMS" ELSE Null]

\* The verdict is noise, or a call, an unsure verdict or a sorter that failed.
SettleVerdict(d, noise) ==
  LET m == proc[d].msg
      pred == proc[d].pred
  IN
  /\ DeliveryAt(d, "settle")
  /\ IF Settled(m)
       THEN Finish(d, message[m].call) /\ UNCHANGED <<calls, message, opener>>
     ELSE IF noise /\ ~Matches(m)
       THEN /\ message' = [message EXCEPT ![m].label = "noise"]
            /\ Finish(d, Null)
            /\ UNCHANGED <<calls, opener>>
     ELSE \E c \in Calls :
            /\ calls[c].state = "none"
            /\ pred # Null => calls[pred].state = "closed"
            /\ calls' = [calls EXCEPT ![c] = OpenedCall(pred, Matches(m))]
            /\ message' = [message EXCEPT ![m].call = c]
            /\ opener' = [opener EXCEPT ![c] = m]
            /\ Finish(d, c)
  /\ UNCHANGED <<echo, dutySent, acked, budget>>

\* recordDutyReply: the call is marked, the reply's row joins the call if it
\* is on none, and the channel gets its answer.
RecordDutyReply(d) ==
  LET m == proc[d].msg
      c == proc[d].result
      reply == message[m].duty
  IN
  /\ DeliveryAt(d, "record")
  /\ IF c # Null /\ reply \in Deliveries
       THEN /\ calls' = IF calls[c].dutyAt = Null /\ calls[c].flag = "TERMS"
                        THEN [calls EXCEPT ![c].dutyAt = d] ELSE calls
            /\ echo' = IF echo[reply] = "unlinked"
                       THEN [echo EXCEPT ![reply] = c] ELSE echo
       ELSE UNCHANGED <<calls, echo>>
  /\ acked' = acked \cup {m}
  /\ GoesTo(d, "done")
  /\ UNCHANGED <<message, dutySent, opener, budget>>

\* A delivery stops between two steps.  Nothing is undone.
Stop(d) ==
  /\ proc[d].pc \notin {"idle", "release", "done", "failed"}
  /\ doorStops < MaxDoorStops
  /\ doorStops' = doorStops + 1
  /\ GoesTo(d, "failed")
  /\ UNCHANGED <<calls, message, echo, dutySent, acked, opener, refusals,
                 extra>>

-----------------------------------------------------------------------------
(* The office's commands, as far as the door can see them.                 *)

CloseCall(c) ==
  /\ "close" \in Office
  /\ Attachable(c)
  /\ calls' = [calls EXCEPT ![c].state = "closed"]
  /\ UNCHANGED besideCalls

\* openCall, or the door of another conversation, where the terms may have
\* flagged it and its own delivery have sent the reply.
OpenElsewhere(c, byTerms, answered) ==
  /\ "elsewhere" \in Office
  /\ calls[c].state = "none"
  /\ answered => byTerms
  /\ calls' = [calls EXCEPT ![c] = [OpenedCall(Null, byTerms) EXCEPT
                 !.dutyAt = IF answered THEN Pending ELSE Null]]
  /\ UNCHANGED besideCalls

\* The exit and the trigger that moves the call's messages, in one write.
DuplicateCall(c, other) ==
  /\ "duplicate" \in Office
  /\ Attachable(c)
  /\ other # c /\ calls[other].state # "none"
  /\ calls' = [calls EXCEPT ![c].state = "closed", ![c].duplicateOf = other]
  /\ message' = [m \in Messages |->
       IF message[m].call = c THEN [message[m] EXCEPT !.call = other]
                              ELSE message[m]]
  /\ echo' = [d \in Deliveries |-> IF echo[d] = c THEN other ELSE echo[d]]
  /\ UNCHANGED <<proc, dutySent, acked, opener, budget>>

ReturnCall(c) ==
  /\ "return" \in Office
  /\ Attachable(c)
  /\ calls' = [calls EXCEPT ![c].returned = TRUE]
  /\ UNCHANGED besideCalls

RestoreCall(c) ==
  /\ "return" \in Office
  /\ calls[c].returned
  /\ calls' = [calls EXCEPT ![c].returned = FALSE]
  /\ UNCHANGED besideCalls

FlagByHand(c) ==
  /\ "flag" \in Office
  /\ calls[c].state = "open" /\ calls[c].flag = Null
  /\ calls' = [calls EXCEPT ![c].flag = "STAFF"]
  /\ UNCHANGED besideCalls

ClearFlag(c) ==
  /\ "clear" \in Office
  /\ calls[c].state = "open" /\ calls[c].flag # Null
  /\ calls' = [calls EXCEPT ![c].flag = Null]
  /\ UNCHANGED besideCalls

LabelledNoise(m) == message[m].label = "noise"
Filtered(m) == message[m].label = "noise" /\ message[m].call = Null

RescueNoise(m) ==
  /\ "rescue" \in Office
  /\ Filtered(m)
  /\ \E c \in Calls :
       /\ calls[c].state = "none"
       /\ calls' = [calls EXCEPT ![c] = OpenedCall(Null, Matches(m))]
       /\ message' = [message EXCEPT ![m].call = c]
       /\ opener' = [opener EXCEPT ![c] = m]
  /\ UNCHANGED <<echo, proc, dutySent, acked, budget>>

-----------------------------------------------------------------------------
DoorStep(d) ==
  \/ Recheck(d) \/ ReadThread(d) \/ ClaimReply(d)
  \/ SendAccepted(d) \/ ReleaseClaim(d)
  \/ StoreReplyId(d) \/ StoreReplyEcho(d)
  \/ SettleAttach(d) \/ AskSorter(d) \/ RecordDutyReply(d)
  \/ \E noise \in BOOLEAN : SettleVerdict(d, noise)

DoorNext ==
  \/ \E d \in Deliveries :
       \/ \E m \in Messages : Receive(d, m)
       \/ DoorStep(d) \/ SendRefused(d) \/ Stop(d) \/ ReceiveEcho(d)
  \/ \E c \in Calls :
       \/ CloseCall(c) \/ ReturnCall(c) \/ RestoreCall(c)
       \/ FlagByHand(c) \/ ClearFlag(c)
       \/ \E byTerms, answered \in BOOLEAN : OpenElsewhere(c, byTerms, answered)
       \/ \E other \in Calls : DuplicateCall(c, other)
  \/ \E m \in Messages : RescueNoise(m)

DoorSpec == DoorInit /\ [][DoorNext]_doorVars

\* A delivery in hand runs on, and the channel delivers again what it has no
\* answer for: Meta retries a webhook that failed and the mailbox cursor does
\* not move past a page that failed.  The office owes the door nothing.
DoorFairness ==
  /\ \A d \in Deliveries : WF_doorVars(DoorStep(d))
  /\ \A m \in Messages :
       WF_doorVars(\E d \in Deliveries : m \notin acked /\ Receive(d, m))

FairDoorSpec == DoorSpec /\ DoorFairness

-----------------------------------------------------------------------------
(* A message opens at most one call, however often it is delivered, by two *)
(* deliveries at once, after a stop, or by a rescue from the filtered.     *)
OpensOneCall ==
  \A c, d \in Calls : opener[c] = opener[d] /\ opener[c] # Null => c = d

(* The channel gets its answer only for a message that is settled: no      *)
(* delivery is acknowledged and then forgotten.                            *)
AnsweredIsSettled ==
  \A m \in acked : message[m].call # Null \/ message[m].label = "noise"

(* However many deliveries carry a message, they end in one call or the    *)
(* filtered tab, and none is answered before.                              *)
SettledOnce == OpensOneCall /\ AnsweredIsSettled

Linked(m) == message[m].call = Null /\ message'[m].call # Null

(* A message lands on a call that is open and not filtered when it lands,  *)
(* whatever the office did since the thread was read, and an emergency     *)
(* lands on a call that is flagged.                                        *)
LandsWell(m) ==
  LET c == message'[m].call IN
  /\ calls'[c].state = "open" /\ ~calls'[c].returned
  /\ m \in Emergency => calls'[c].flag # Null

(* A message leaves its call only with the call itself, by the exit that   *)
(* names the call it repeats.                                              *)
MovesOnlyWithItsCall(m) ==
  LET c == message[m].call IN
  message'[m].call # c =>
    calls[c].state = "open" /\ calls'[c].duplicateOf = message'[m].call

MessagesLandWell ==
  [][\A m \in Messages :
       /\ Linked(m) => LandsWell(m)
       /\ message[m].call # Null => MovesOnlyWithItsCall(m)]_doorVars

(* SPEC-channel.md, step 4: a message on a thread with an open call        *)
(* attaches to it, so one thread has one open call.                        *)
OneOpenCallPerThread == Cardinality(OpenOnThread) <= 1

(* SPEC-calls.md: the duty reply is sent once for a call.                  *)
RepliesOn(c) == {d \in dutySent : message[proc[d].msg].call = c}
OneReplyPerCall ==
  \A c \in Calls :
    c \notin {calls[x].duplicateOf : x \in Calls} =>
      Cardinality(RepliesOn(c)) <= 1

(* SPEC-channel.md: when the terms flag a call, the channel sends a reply. *)
(* So once every delivery is over no call of the conversation that they    *)
(* flagged is without one: a claim that sent nothing was taken up by a     *)
(* later delivery.                                                         *)
Quiet == Messages \subseteq acked /\ InTheDoor = {}
EmergencyIsAnswered ==
  Quiet => \A c \in Calls :
    /\ calls[c].flag = "TERMS" /\ calls[c].duplicateOf = Null
    /\ opener[c] # Null
    => RepliesOn(c) # {}

(* A rescue opens a call beside whatever the thread has open, and a call   *)
(* put back to the office's manager comes back into its thread.  A call    *)
(* merged into one opened elsewhere leaves the thread an open call that    *)
(* the delivery in hand does not know: it opens another.  But for those    *)
(* three, deliveries that come one at a time leave one open call, wherever *)
(* they stop and whatever the office closes, or merges with another call   *)
(* of the conversation, between their steps.                               *)
Rescued == \E m \in Messages : LabelledNoise(m) /\ message[m].call # Null
MergedElsewhere ==
  \E c \in Calls :
    calls[c].duplicateOf # Null /\ opener[calls[c].duplicateOf] = Null

OneThreadOneCall ==
  MaxInHand <= 1 /\ "return" \notin Office /\ ~Rescued /\ ~MergedElsewhere
    => OneOpenCallPerThread

(* What may come between the claim of a reply and the message it answers:  *)
(* another delivery, a stop, a close, a flag taken off.                    *)
Undisturbed ==
  /\ MaxInHand <= 1 /\ Office \cap {"clear", "return"} = {}
  /\ doorStops = 0 /\ \A c \in Calls : calls[c].state # "closed"

(* Where none of them did, every call that the terms flag got one reply:   *)
(* whatever the provider refuses, the channel repeats, the office flags by *)
(* hand and rescues.                                                       *)
FlaggedIsAnsweredOnce == Undisturbed => OneReplyPerCall /\ EmergencyIsAnswered

(* The door implements the abstract Intake: whatever the deliveries do     *)
(* between them, each message is held, judged once and kept in one place.  *)
Place(m) ==
  IF message[m].call # Null THEN message[m].call
  ELSE IF message[m].label # Null THEN "filtered"
  ELSE IF message[m].stored THEN "held" ELSE "unseen"

Status(c) == IF calls[c].returned THEN "returned" ELSE calls[c].state

Promise == INSTANCE Intake WITH
  place <- [m \in Messages |-> Place(m)],
  status <- [c \in Calls |-> Status(c)]

ImplementsIntake == Promise!Spec

(* Every message sent to the office is in the end settled and answered,    *)
(* though deliveries stop and replies are refused.                         *)
AllMessagesSettle ==
  <>(\A m \in Messages : m \in acked /\ Place(m) # "held")

=============================================================================
