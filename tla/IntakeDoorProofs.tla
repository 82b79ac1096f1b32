--------------------------- MODULE IntakeDoorProofs ---------------------------
(***************************************************************************)
(* Proofs about IntakeDoor for any deliveries, messages, calls and office  *)
(* commands and any bounds.                                                *)
(*                                                                         *)
(* IInv is inductive.  A delivery asks Settled again under the message's   *)
(* row lock before it settles, so it cannot settle twice what another      *)
(* delivery settled between two of its steps; and it reaches `record' only *)
(* with a settled message, which no later step unsettles.                  *)
(***************************************************************************)
EXTENDS IntakeDoor, FiniteSetTheorems, TLAPS

\* A delivery that was begun knows its message, and one that is to attach it
\* knows a call.
CarriesAMessage ==
  \A d \in Deliveries :
    /\ proc[d].pc # "idle" => proc[d].msg \in Messages
    /\ proc[d].pc = "attach" => proc[d].open # Null

\* A delivery answers the channel for a settled message only.
RecordsTheSettled == \A d \in Deliveries : proc[d].pc = "record" => Settled(proc[d].msg)

\* The message a call was opened from has been on a call ever since.
OpenersAreLinked == \A c \in Calls : opener[c] # Null => message[opener[c]].call # Null

Typed == DoorTypeOK /\ CarriesAMessage

\* A message in hand was stored before anything else was asked of it.
StoredFirst ==
  \A d \in Deliveries :
    proc[d].pc # "idle" => message[proc[d].msg].stored \/ Settled(proc[d].msg)

\* A call put back to the office's manager is still open.
ReturnedAreOpen == \A c \in Calls : calls[c].returned => calls[c].state = "open"

\* A call that is not there yet was opened from no message, and no call was
\* closed as its duplicate.
CallsExist ==
  \A c \in Calls :
    /\ calls[c].state = "none" => opener[c] = Null
    /\ calls[c].duplicateOf # Null =>
         calls[c].state = "closed" /\ calls[calls[c].duplicateOf].state # "none"

IInv ==
  /\ Typed /\ RecordsTheSettled /\ StoredFirst /\ OpenersAreLinked
  /\ ReturnedAreOpen /\ CallsExist /\ SettledOnce

-----------------------------------------------------------------------------
(* Typing.                                                                 *)
LEMMA RowTypes ==
  /\ NoCall \in CallRow
  /\ NoDelivery \in Delivery
  /\ \A pred \in Calls \cup {Null}, byTerms \in BOOLEAN :
       OpenedCall(pred, byTerms) \in CallRow
  /\ \A row \in CallRow, byTerms \in BOOLEAN : FlaggedByTerms(row, byTerms) \in CallRow
BY DEF NoCall, CallRow, NoDelivery, Delivery, DeliveryStep, OpenedCall, FlaggedByTerms

LEMMA ThreadTypes ==
  /\ ThreadOpen \subseteq Calls \cup {Null}
  /\ ThreadPredecessor \subseteq Calls \cup {Null}
BY DEF ThreadOpen, ThreadPredecessor, Newest, OpenOnThread, ClosedOnThread

LEMMA InitTyped == DoorInit => Typed
BY RowTypes, DoorBoundsAssumption
   DEF DoorInit, Typed, DoorTypeOK, CarriesAMessage, MessageRow, EchoRow, NoDelivery

\* A step of a delivery: it moves one row of proc, and nothing mistyped.
LEMMA ProcStep ==
  ASSUME Typed, NEW d \in Deliveries, proc[d].pc # "idle",
         NEW next \in Delivery, next.msg = proc[d].msg,
         next.pc = "attach" => next.open # Null,
         proc' = [proc EXCEPT ![d] = next]
  PROVE  proc' \in [Deliveries -> Delivery] /\ CarriesAMessage'
BY DEF Typed, DoorTypeOK, CarriesAMessage

LEMMA GotoStep ==
  ASSUME Typed, NEW d \in Deliveries, proc[d].pc # "idle",
         NEW step \in DeliveryStep, step = "attach" => proc[d].open # Null, GoesTo(d, step)
  PROVE  proc' \in [Deliveries -> Delivery] /\ CarriesAMessage'
BY DEF GoesTo, Delivery, Typed, DoorTypeOK, CarriesAMessage

LEMMA FinishStep ==
  ASSUME Typed, NEW d \in Deliveries, proc[d].pc # "idle",
         NEW c \in Calls \cup {Null}, Finish(d, c)
  PROVE  proc' \in [Deliveries -> Delivery] /\ CarriesAMessage'
<1> DEFINE next == [proc[d] EXCEPT !.pc = "record", !.result = c]
<1>1. proc' = [proc EXCEPT ![d] = next]
  BY DEF Finish, Typed, DoorTypeOK
<1>2. next \in Delivery /\ next.msg = proc[d].msg /\ next.pc # "attach"
  BY DEF Delivery, DeliveryStep, Typed, DoorTypeOK
<1> HIDE DEF next
<1> QED BY <1>1, <1>2, ProcStep

LEMMA NextSteps ==
  \A c : NextAfterReply(c) \in DeliveryStep /\ (NextAfterReply(c) = "attach" => c # Null)
BY DEF NextAfterReply, DeliveryStep

LEMMA ReceiveTyped ==
  ASSUME Typed, NEW d \in Deliveries, NEW m \in Messages, Receive(d, m)
  PROVE  Typed'
<1>1. extra' \in 0..MaxExtra
  BY DoorBoundsAssumption DEF Receive, Typed, DoorTypeOK
<1>2. CASE Settled(m)
  <2> DEFINE next == [NoDelivery EXCEPT !.pc = "record", !.msg = m, !.result = message[m].call]
  <2>1. message[m].call \in Calls \cup {Null}
    BY DEF Typed, DoorTypeOK, MessageRow
  <2>2. next \in Delivery /\ next.msg = m /\ next.pc # "attach"
    BY <2>1 DEF NoDelivery, Delivery, DeliveryStep
  <2>3. proc' = [proc EXCEPT ![d] = next] /\ UNCHANGED message
    BY <1>2 DEF Receive
  <2> HIDE DEF next
  <2> QED BY <1>1, <2>2, <2>3 DEF Receive, Typed, DoorTypeOK, CarriesAMessage
<1>3. CASE ~Settled(m)
  <2> DEFINE next == [NoDelivery EXCEPT !.pc = "recheck", !.msg = m]
  <2>2. next \in Delivery /\ next.msg = m /\ next.pc # "attach"
    BY DEF NoDelivery, Delivery, DeliveryStep
  <2>3. /\ proc' = [proc EXCEPT ![d] = next]
        /\ message' = [message EXCEPT ![m].stored = TRUE]
    BY <1>3 DEF Receive
  <2>4. message' \in [Messages -> MessageRow]
    BY <2>3 DEF Typed, DoorTypeOK, MessageRow
  <2> HIDE DEF next
  <2> QED BY <1>1, <2>2, <2>3, <2>4 DEF Receive, Typed, DoorTypeOK, CarriesAMessage
<1> QED BY <1>2, <1>3

LEMMA DoorTyped ==
  ASSUME Typed, NEW d \in Deliveries, DoorStep(d)
  PROVE  Typed'
<1> DEFINE m == proc[d].msg
           c == proc[d].open
<1> USE DEF Typed
<1>0. ASSUME proc[d].pc # "idle"
      PROVE  /\ m \in Messages /\ message[m] \in MessageRow
             /\ c \in Calls \cup {Null} /\ proc[d] \in Delivery
             /\ DeliveryAt(d, "attach") => c \in Calls
  BY <1>0 DEF DoorTypeOK, CarriesAMessage, Delivery, DeliveryAt
<1>1. CASE Recheck(d)
  BY <1>0, <1>1, GotoStep, FinishStep DEF Recheck, DeliveryAt, DoorTypeOK, MessageRow, budget, DeliveryStep
<1>2. CASE ReadThread(d)
  <2>1. PICK open \in ThreadOpen, pred \in ThreadPredecessor :
          proc' = [proc EXCEPT ![d].open = open, ![d].pred = pred,
                     ![d].pc = IF Matches(proc[d].msg) THEN "claim"
                               ELSE NextAfterReply(open)]
    BY <1>2 DEF ReadThread
  <2> DEFINE next == [proc[d] EXCEPT !.open = open, !.pred = pred,
                        !.pc = IF Matches(proc[d].msg) THEN "claim"
                               ELSE NextAfterReply(open)]
  <2>2. proc' = [proc EXCEPT ![d] = next]
    BY <2>1 DEF DoorTypeOK
  <2>3. next \in Delivery /\ next.msg = m /\ (next.pc = "attach" => next.open # Null)
    BY <1>0, <1>2, ThreadTypes, NextSteps DEF ReadThread, DeliveryAt, Delivery, DeliveryStep
  <2> HIDE DEF next
  <2> QED BY <1>2, <2>2, <2>3, ProcStep DEF ReadThread, DeliveryAt, DoorTypeOK, budget
<1>3. CASE ClaimReply(d)
  <2>1. calls' \in [Calls -> CallRow] /\ message' \in [Messages -> MessageRow]
    <3>1. ASSUME NEW x \in Deliveries, c # Null
          PROVE  [calls EXCEPT ![c].dutyAt = x] \in [Calls -> CallRow]
      BY <1>0, <1>3, <3>1 DEF ClaimReply, DeliveryAt, DoorTypeOK, CallRow
    <3>2. [message EXCEPT ![m].duty = Pending] \in [Messages -> MessageRow]
      BY DEF DoorTypeOK, MessageRow
    <3> QED BY <1>0, <1>3, <3>1, <3>2 DEF ClaimReply, DeliveryAt, DoorTypeOK
  <2>2. proc' \in [Deliveries -> Delivery] /\ CarriesAMessage'
    BY <1>3, GotoStep, NextSteps DEF ClaimReply, DeliveryAt, DeliveryStep
  <2> QED BY <1>3, <2>1, <2>2 DEF ClaimReply, DoorTypeOK, budget
<1>4. CASE SendAccepted(d)
  BY <1>4, GotoStep DEF SendAccepted, DeliveryAt, DoorTypeOK, budget, DeliveryStep
<1>5. CASE ReleaseClaim(d)
  <2>1. calls' \in [Calls -> CallRow] /\ message' \in [Messages -> MessageRow]
    BY <1>0, <1>5 DEF ReleaseClaim, ReleasedMarks, DeliveryAt, DoorTypeOK, CallRow, MessageRow
  <2>2. proc' \in [Deliveries -> Delivery] /\ CarriesAMessage'
    BY <1>5, GotoStep DEF ReleaseClaim, DeliveryAt, DeliveryStep
  <2> QED BY <1>5, <2>1, <2>2 DEF ReleaseClaim, DoorTypeOK, budget
<1>6. CASE StoreReplyId(d)
  <2>1. message' \in [Messages -> MessageRow]
    BY <1>0, <1>6 DEF StoreReplyId, DeliveryAt, DoorTypeOK, MessageRow
  <2> QED BY <1>6, <2>1, GotoStep DEF StoreReplyId, DeliveryAt, DoorTypeOK, budget, DeliveryStep
<1>7. CASE StoreReplyEcho(d)
  <2>1. echo' \in [Deliveries -> EchoRow]
    BY <1>0, <1>7 DEF StoreReplyEcho, DeliveryAt, DoorTypeOK, EchoRow
  <2> QED BY <1>7, <2>1, GotoStep, NextSteps DEF StoreReplyEcho, DeliveryAt, DoorTypeOK, budget
<1>8. CASE SettleAttach(d)
  <2>1. calls' \in [Calls -> CallRow] /\ message' \in [Messages -> MessageRow]
    <3>1. ASSUME Attachable(c)
          PROVE  [calls EXCEPT ![c] = FlaggedByTerms(@, Matches(m))] \in [Calls -> CallRow]
      <4>1. c \in Calls /\ Matches(m) \in BOOLEAN
        BY <1>0, <1>8 DEF SettleAttach, DeliveryAt, Matches
      <4> QED BY <4>1, RowTypes DEF DoorTypeOK
    <3>2. [message EXCEPT ![m].call = c] \in [Messages -> MessageRow]
      BY <1>0, <1>8 DEF SettleAttach, DeliveryAt, DoorTypeOK, MessageRow
    <3> QED BY <1>0, <1>8, <3>1, <3>2 DEF SettleAttach, DeliveryAt, DoorTypeOK
  <2>2. proc' \in [Deliveries -> Delivery] /\ CarriesAMessage'
    BY <1>0, <1>8, GotoStep, FinishStep DEF SettleAttach, DeliveryAt, DeliveryStep, MessageRow
  <2> QED BY <1>8, <2>1, <2>2 DEF SettleAttach, DoorTypeOK, budget
<1>9. CASE AskSorter(d)
  <2>1. PICK pred \in Calls \cup {Null} :
          proc' = [proc EXCEPT ![d].pc = "settle", ![d].pred = pred]
    BY <1>0, <1>9, ThreadTypes DEF AskSorter, DeliveryAt, Delivery
  <2> DEFINE next == [proc[d] EXCEPT !.pc = "settle", !.pred = pred]
  <2>2. proc' = [proc EXCEPT ![d] = next]
    BY <2>1 DEF DoorTypeOK
  <2>3. next \in Delivery /\ next.msg = m /\ (next.pc = "attach" => next.open # Null)
    BY <1>0, <1>9 DEF AskSorter, DeliveryAt, Delivery, DeliveryStep
  <2> HIDE DEF next
  <2> QED BY <1>9, <2>2, <2>3, ProcStep DEF AskSorter, DeliveryAt, DoorTypeOK, budget
<1>10. CASE RecordDutyReply(d)
  <2>0. proc[d].result \in Calls \cup {Null}
    BY <1>0, <1>10 DEF RecordDutyReply, DeliveryAt, Delivery
  <2>1. calls' \in [Calls -> CallRow] /\ echo' \in [Deliveries -> EchoRow]
    BY <2>0, <1>10 DEF RecordDutyReply, DeliveryAt, DoorTypeOK, CallRow, EchoRow
  <2>2. proc' \in [Deliveries -> Delivery] /\ CarriesAMessage'
    BY <1>10, GotoStep DEF RecordDutyReply, DeliveryAt, DeliveryStep
  <2>3. acked' \subseteq Messages
    BY <1>0, <1>10 DEF RecordDutyReply, DeliveryAt, DoorTypeOK
  <2> QED BY <1>10, <2>1, <2>2, <2>3 DEF RecordDutyReply, DoorTypeOK, budget
<1>11. ASSUME NEW noise \in BOOLEAN, SettleVerdict(d, noise) PROVE Typed'
  <2>0. proc[d].pred \in Calls \cup {Null} /\ Matches(m) \in BOOLEAN
    BY <1>0, <1>11 DEF SettleVerdict, DeliveryAt, Delivery, Matches
  <2>1. calls' \in [Calls -> CallRow] /\ message' \in [Messages -> MessageRow]
        /\ opener' \in [Calls -> Messages \cup {Null}]
    <3>1. ASSUME NEW k \in Calls
          PROVE  /\ [calls EXCEPT ![k] = OpenedCall(proc[d].pred, Matches(m))]
                       \in [Calls -> CallRow]
                 /\ [message EXCEPT ![m].call = k] \in [Messages -> MessageRow]
                 /\ [opener EXCEPT ![k] = m] \in [Calls -> Messages \cup {Null}]
      <4>1. OpenedCall(proc[d].pred, Matches(m)) \in CallRow
        BY <2>0, RowTypes
      <4>2. m \in Messages
        BY <1>0, <1>11 DEF SettleVerdict, DeliveryAt
      <4> QED BY <4>1, <4>2 DEF DoorTypeOK, MessageRow
    <3>2. [message EXCEPT ![m].label = "noise"] \in [Messages -> MessageRow]
      BY DEF DoorTypeOK, MessageRow
    <3>3. CASE /\ UNCHANGED <<calls, opener>>
               /\ message' \in {message, [message EXCEPT ![m].label = "noise"]}
      BY <3>2, <3>3 DEF DoorTypeOK
    <3>4. CASE \E k \in Calls :
                 /\ calls' = [calls EXCEPT ![k] = OpenedCall(proc[d].pred, Matches(m))]
                 /\ message' = [message EXCEPT ![m].call = k]
                 /\ opener' = [opener EXCEPT ![k] = m]
      BY <3>1, <3>4
    <3> QED BY <1>11, <3>3, <3>4 DEF SettleVerdict
  <2>2. proc' \in [Deliveries -> Delivery] /\ CarriesAMessage'
    BY <1>0, <1>11, FinishStep DEF SettleVerdict, DeliveryAt, MessageRow
  <2> QED BY <1>11, <2>1, <2>2 DEF SettleVerdict, DoorTypeOK, budget
<1> QED
  BY <1>1, <1>2, <1>3, <1>4, <1>5, <1>6, <1>7, <1>8, <1>9, <1>10, <1>11 DEF DoorStep
-----------------------------------------------------------------------------
LEMMA OfficeTyped ==
  ASSUME Typed,
         \/ \E c \in Calls :
              \/ CloseCall(c) \/ ReturnCall(c) \/ RestoreCall(c)
              \/ FlagByHand(c) \/ ClearFlag(c)
              \/ \E byTerms, answered \in BOOLEAN : OpenElsewhere(c, byTerms, answered)
              \/ \E other \in Calls : DuplicateCall(c, other)
         \/ \E m \in Messages : RescueNoise(m)
  PROVE  Typed'
<1> USE DEF Typed, DoorTypeOK
<1>1. ASSUME NEW c \in Calls,
             \/ CloseCall(c) \/ ReturnCall(c) \/ RestoreCall(c)
             \/ FlagByHand(c) \/ ClearFlag(c)
      PROVE  Typed'
  <2>1. calls' \in [Calls -> CallRow]
    <3>1. /\ [calls[c] EXCEPT !.state = "closed"] \in CallRow
          /\ \A returned \in BOOLEAN : [calls[c] EXCEPT !.returned = returned] \in CallRow
          /\ \A flag \in {"STAFF", Null} : [calls[c] EXCEPT !.flag = flag] \in CallRow
      BY DEF CallRow
    <3>2. \E row \in CallRow : calls' = [calls EXCEPT ![c] = row]
      BY <1>1, <3>1 DEF CloseCall, ReturnCall, RestoreCall, FlagByHand, ClearFlag
    <3> QED BY <3>2
  <2>2. UNCHANGED besideCalls
    BY <1>1 DEF CloseCall, ReturnCall, RestoreCall, FlagByHand, ClearFlag
  <2> QED BY <2>1, <2>2 DEF besideCalls, budget, CarriesAMessage
<1>2. ASSUME NEW c \in Calls, NEW other \in Calls, DuplicateCall(c, other) PROVE Typed'
  <2>1. calls' \in [Calls -> CallRow]
    BY <1>2 DEF DuplicateCall, CallRow
  <2>2. message' \in [Messages -> MessageRow]
    <3>1. \A m \in Messages : [message[m] EXCEPT !.call = other] \in MessageRow
      BY DEF MessageRow
    <3> QED BY <1>2, <3>1 DEF DuplicateCall
  <2>3. echo' \in [Deliveries -> EchoRow]
    BY <1>2 DEF DuplicateCall, EchoRow
  <2> QED BY <1>2, <2>1, <2>2, <2>3 DEF DuplicateCall, budget, CarriesAMessage
<1>3. ASSUME NEW m \in Messages, RescueNoise(m) PROVE Typed'
  <2>1. PICK c \in Calls :
          /\ calls' = [calls EXCEPT ![c] = OpenedCall(Null, Matches(m))]
          /\ message' = [message EXCEPT ![m].call = c]
          /\ opener' = [opener EXCEPT ![c] = m]
    BY <1>3 DEF RescueNoise
  <2>2. OpenedCall(Null, Matches(m)) \in CallRow
    <3>1. Null \in Calls \cup {Null} /\ Matches(m) \in BOOLEAN
      BY DEF Matches
    <3> QED BY <3>1, RowTypes
  <2> DEFINE row == OpenedCall(Null, Matches(m))
             mrow == [message[m] EXCEPT !.call = c]
  <2>3. mrow \in MessageRow
    BY DEF MessageRow
  <2>4. calls' = [calls EXCEPT ![c] = row] /\ message' = [message EXCEPT ![m] = mrow]
    BY <2>1
  <2> HIDE DEF row, mrow
  <2>5. calls' \in [Calls -> CallRow] /\ message' \in [Messages -> MessageRow]
    BY <2>2, <2>3, <2>4 DEF row
  <2> QED BY <1>3, <2>1, <2>5 DEF RescueNoise, budget, CarriesAMessage
<1>4. ASSUME NEW c \in Calls, NEW byTerms \in BOOLEAN, NEW answered \in BOOLEAN,
             OpenElsewhere(c, byTerms, answered)
      PROVE  Typed'
  <2> DEFINE row == [OpenedCall(Null, byTerms) EXCEPT
                       !.dutyAt = IF answered THEN Pending ELSE Null]
  <2>1. row \in CallRow
    BY DEF OpenedCall, NoCall, CallRow
  <2>2. calls' = [calls EXCEPT ![c] = row] /\ UNCHANGED besideCalls
    BY <1>4 DEF OpenElsewhere
  <2> HIDE DEF row
  <2> QED BY <2>1, <2>2 DEF besideCalls, budget, CarriesAMessage
<1> QED BY <1>1, <1>2, <1>3, <1>4

LEMMA NextTyped == Typed /\ [DoorNext]_doorVars => Typed'
<1> SUFFICES ASSUME Typed, [DoorNext]_doorVars PROVE Typed'
  OBVIOUS
<1>1. ASSUME NEW d \in Deliveries, SendRefused(d) PROVE Typed'
  <2>1. refusals' \in 0..MaxRefusals
    BY <1>1, DoorBoundsAssumption DEF SendRefused, Typed, DoorTypeOK
  <2> QED BY <1>1, <2>1, GotoStep DEF SendRefused, DeliveryAt, Typed, DoorTypeOK, DeliveryStep
<1>2. ASSUME NEW d \in Deliveries, Stop(d) PROVE Typed'
  <2>1. doorStops' \in 0..MaxDoorStops
    BY <1>2, DoorBoundsAssumption DEF Stop, Typed, DoorTypeOK
  <2> QED BY <1>2, <2>1, GotoStep DEF Stop, Typed, DoorTypeOK, DeliveryStep
<1>3. ASSUME NEW d \in Deliveries, ReceiveEcho(d) PROVE Typed'
  <2>1. echo' \in [Deliveries -> EchoRow]
    BY <1>3, ThreadTypes DEF ReceiveEcho, Typed, DoorTypeOK, EchoRow
  <2> QED BY <1>3, <2>1 DEF ReceiveEcho, Typed, DoorTypeOK, CarriesAMessage, budget
<1>4. CASE UNCHANGED doorVars
  BY <1>4 DEF doorVars, besideCalls, budget, Typed, DoorTypeOK, CarriesAMessage
<1> QED
  BY <1>1, <1>2, <1>3, <1>4, ReceiveTyped, DoorTyped, OfficeTyped DEF DoorNext

-----------------------------------------------------------------------------
(* What any step does, seen from the messages and the calls: both the      *)
(* action property and the refinement are read off these cases.            *)
Stays(m) ==
  /\ message'[m].stored = message[m].stored
  /\ message'[m].call = message[m].call
  /\ message'[m].label = message[m].label

SameCalls ==
  /\ opener' = opener
  /\ \A c \in Calls :
       /\ calls'[c].state = calls[c].state /\ calls'[c].returned = calls[c].returned
       /\ calls'[c].duplicateOf = calls[c].duplicateOf

NothingMoves == SameCalls /\ \A m \in Messages : Stays(m)

Stores(m) ==
  /\ ~Settled(m) /\ ~message[m].stored
  /\ message' = [message EXCEPT ![m].stored = TRUE]
  /\ SameCalls

InTheHold(m) == ~Settled(m) /\ message[m].stored

Filters(m) ==
  /\ InTheHold(m)
  /\ message' = [message EXCEPT ![m].label = "noise"]
  /\ SameCalls

Attaches(m, c) ==
  /\ InTheHold(m) /\ Attachable(c)
  /\ message' = [message EXCEPT ![m].call = c]
  /\ calls' = [calls EXCEPT ![c] = FlaggedByTerms(@, Matches(m))]
  /\ opener' = opener

Opens(m, c) ==
  /\ InTheHold(m) \/ Filtered(m)
  /\ calls[c].state = "none"
  /\ message' = [message EXCEPT ![m].call = c]
  /\ opener' = [opener EXCEPT ![c] = m]
  /\ \E pred \in Calls \cup {Null} :
       calls' = [calls EXCEPT ![c] = OpenedCall(pred, Matches(m))]

OpensElsewhere(c) ==
  \E byTerms, answered \in BOOLEAN : OpenElsewhere(c, byTerms, answered)

StepCases ==
  \/ NothingMoves
  \/ \E m \in Messages : Stores(m) \/ Filters(m)
  \/ \E m \in Messages, c \in Calls : Attaches(m, c) \/ Opens(m, c)
  \/ \E c \in Calls :
       CloseCall(c) \/ ReturnCall(c) \/ RestoreCall(c) \/ OpensElsewhere(c)
  \/ \E c, other \in Calls : DuplicateCall(c, other)

\* A write that leaves a message's place and a call's state alone.
LEMMA OtherWrites ==
  ASSUME Typed, UNCHANGED opener
  PROVE  /\ \A m \in Messages, reply \in Deliveries \cup {Null, Pending} :
              message' = [message EXCEPT ![m].duty = reply] => \A x \in Messages : Stays(x)
         /\ \A c \in Calls, d \in Deliveries \cup {Null} :
              calls' = [calls EXCEPT ![c].dutyAt = d] => SameCalls
         /\ \A c \in Calls, flag \in {Null, "STAFF"} :
              calls' = [calls EXCEPT ![c].flag = flag] => SameCalls
         /\ UNCHANGED message => \A x \in Messages : Stays(x)
         /\ UNCHANGED calls => SameCalls
<1> USE DEF Typed, DoorTypeOK
<1>1. ASSUME NEW m \in Messages, NEW reply \in Deliveries \cup {Null, Pending},
             message' = [message EXCEPT ![m].duty = reply]
      PROVE  \A x \in Messages : Stays(x)
  BY <1>1 DEF Stays, MessageRow
<1>2. ASSUME NEW c \in Calls, NEW d \in Deliveries \cup {Null},
             calls' = [calls EXCEPT ![c].dutyAt = d]
      PROVE  SameCalls
  BY <1>2 DEF SameCalls, CallRow
<1>3. ASSUME NEW c \in Calls, NEW flag \in {Null, "STAFF"},
             calls' = [calls EXCEPT ![c].flag = flag]
      PROVE  SameCalls
  BY <1>3 DEF SameCalls, CallRow
<1>4. UNCHANGED message => \A x \in Messages : Stays(x)
  BY DEF Stays
<1>5. UNCHANGED calls => SameCalls
  BY DEF SameCalls
<1> QED BY <1>1, <1>2, <1>3, <1>4, <1>5

LEMMA DoorStepCases ==
  ASSUME IInv, NEW d \in Deliveries, DoorStep(d)
  PROVE  StepCases
<1> DEFINE m == proc[d].msg
           c == proc[d].open
<1> USE DEF StepCases
<1>0. ASSUME proc[d].pc # "idle"
      PROVE  /\ m \in Messages /\ c \in Calls \cup {Null}
             /\ proc[d].pred \in Calls \cup {Null}
             /\ DeliveryAt(d, "attach") => c \in Calls
             /\ ~Settled(m) => InTheHold(m)
  BY <1>0 DEF IInv, Typed, DoorTypeOK, CarriesAMessage, Delivery, StoredFirst, InTheHold, DeliveryAt
<1>a. ASSUME UNCHANGED <<calls, message, opener>> PROVE StepCases
  BY <1>a DEF NothingMoves, SameCalls, Stays
<1>b. Typed
  BY DEF IInv
<1>1. CASE Recheck(d) \/ ReadThread(d) \/ SendAccepted(d) \/ StoreReplyEcho(d) \/ AskSorter(d)
  BY <1>1, <1>a DEF Recheck, ReadThread, SendAccepted, StoreReplyEcho, AskSorter
<1>2. CASE ClaimReply(d)
  <2>1. m \in Messages /\ c \in Calls \cup {Null}
    BY <1>0, <1>2 DEF ClaimReply, DeliveryAt
  <2>2. /\ UNCHANGED opener
        /\ \/ UNCHANGED <<calls, message>>
           \/ /\ message' = [message EXCEPT ![m].duty = Pending]
              /\ UNCHANGED calls \/ (c \in Calls /\ calls' = [calls EXCEPT ![c].dutyAt = d])
    BY <1>2, <2>1 DEF ClaimReply
  <2> QED BY <1>a, <1>b, <2>1, <2>2, OtherWrites DEF NothingMoves
<1>3. CASE ReleaseClaim(d)
  <2>1. m \in Messages /\ c \in Calls \cup {Null}
    BY <1>0, <1>3 DEF ReleaseClaim, DeliveryAt
  <2>2. /\ UNCHANGED message \/ message' = [message EXCEPT ![m].duty = Null]
        /\ UNCHANGED calls \/ (c \in Calls /\ calls' = [calls EXCEPT ![c].dutyAt = Null])
        /\ UNCHANGED opener
    BY <1>3, <2>1 DEF ReleaseClaim, ReleasedMarks
  <2> QED BY <1>b, <2>1, <2>2, OtherWrites DEF NothingMoves
<1>4. CASE StoreReplyId(d)
  <2>1. m \in Messages
    BY <1>0, <1>4 DEF StoreReplyId, DeliveryAt
  <2>2. /\ UNCHANGED message \/ message' = [message EXCEPT ![m].duty = d]
        /\ UNCHANGED <<calls, opener>>
    BY <1>4, <2>1 DEF StoreReplyId
  <2> QED BY <1>b, <2>1, <2>2, OtherWrites DEF NothingMoves
<1>5. CASE SettleAttach(d)
  <2>1. m \in Messages /\ c \in Calls /\ (~Settled(m) => InTheHold(m))
    BY <1>0, <1>5 DEF SettleAttach, DeliveryAt
  <2>2. UNCHANGED <<calls, message, opener>> \/ Attaches(m, c)
    BY <1>5, <2>1 DEF SettleAttach, Attaches
  <2> QED BY <1>a, <2>1, <2>2
<1>6. CASE RecordDutyReply(d)
  <2>1. proc[d].result \in Calls \cup {Null}
    BY <1>b DEF Typed, DoorTypeOK, Delivery
  <2>2. /\ UNCHANGED <<message, opener>>
        /\ \/ UNCHANGED calls
           \/ /\ proc[d].result \in Calls
              /\ calls' = [calls EXCEPT ![proc[d].result].dutyAt = d]
    BY <1>6, <2>1 DEF RecordDutyReply
  <2> QED BY <1>b, <2>2, OtherWrites DEF NothingMoves
<1>7. ASSUME NEW noise \in BOOLEAN, SettleVerdict(d, noise) PROVE StepCases
  <2>1. m \in Messages /\ proc[d].pred \in Calls \cup {Null} /\ (~Settled(m) => InTheHold(m))
    BY <1>0, <1>7 DEF SettleVerdict, DeliveryAt
  <2>2. \/ UNCHANGED <<calls, message, opener>>
        \/ Filters(m)
        \/ \E k \in Calls : Opens(m, k)
    BY <1>7, <2>1 DEF SettleVerdict, Filters, SameCalls, Opens
  <2> QED BY <1>a, <2>1, <2>2
<1> QED BY <1>1, <1>2, <1>3, <1>4, <1>5, <1>6, <1>7 DEF DoorStep

LEMMA NextCases == IInv /\ [DoorNext]_doorVars => StepCases
<1> SUFFICES ASSUME IInv, [DoorNext]_doorVars PROVE StepCases
  OBVIOUS
<1>a. ASSUME UNCHANGED <<calls, message, opener>> PROVE StepCases
  BY <1>a DEF StepCases, NothingMoves, SameCalls, Stays
<1>b. Typed
  BY DEF IInv
<1>1. ASSUME NEW d \in Deliveries, NEW m \in Messages, Receive(d, m) PROVE StepCases
  <2>1. CASE Settled(m)
    BY <1>1, <1>a, <2>1 DEF Receive
  <2>2. CASE ~Settled(m) /\ message[m].stored
    <3>1. message' = [message EXCEPT ![m].stored = TRUE]
      BY <1>1, <2>2 DEF Receive
    <3>2. NothingMoves
      BY <1>1, <1>b, <2>2, <3>1
         DEF Receive, NothingMoves, SameCalls, Stays, Typed, DoorTypeOK, MessageRow
    <3> QED BY <3>2 DEF StepCases
  <2>3. CASE ~Settled(m) /\ ~message[m].stored
    <3>1. Stores(m)
      BY <1>1, <2>3 DEF Receive, Stores, SameCalls
    <3> QED BY <3>1 DEF StepCases
  <2> QED BY <2>1, <2>2, <2>3
<1>2. ASSUME NEW d \in Deliveries, SendRefused(d) \/ Stop(d) \/ ReceiveEcho(d) PROVE StepCases
  BY <1>2, <1>a DEF SendRefused, Stop, ReceiveEcho
<1>3. ASSUME NEW c \in Calls,
             \/ CloseCall(c) \/ ReturnCall(c) \/ RestoreCall(c)
             \/ \E byTerms, answered \in BOOLEAN : OpenElsewhere(c, byTerms, answered)
             \/ \E other \in Calls : DuplicateCall(c, other)
      PROVE  StepCases
  BY <1>3 DEF StepCases, OpensElsewhere
<1>4. ASSUME NEW c \in Calls, FlagByHand(c) \/ ClearFlag(c) PROVE StepCases
  <2>1. /\ \E flag \in {Null, "STAFF"} : calls' = [calls EXCEPT ![c].flag = flag]
        /\ UNCHANGED <<message, opener>>
    BY <1>4 DEF FlagByHand, ClearFlag, besideCalls
  <2> QED BY <1>b, <2>1, OtherWrites DEF StepCases, NothingMoves
<1>5. ASSUME NEW m \in Messages, RescueNoise(m) PROVE StepCases
  <2>1. \E c \in Calls : Opens(m, c)
    BY <1>5 DEF RescueNoise, Opens
  <2> QED BY <2>1 DEF StepCases
<1>6. CASE UNCHANGED doorVars
  BY <1>6, <1>a DEF doorVars, besideCalls
<1> QED BY <1>1, <1>2, <1>3, <1>4, <1>5, <1>6, DoorStepCases DEF DoorNext

-----------------------------------------------------------------------------
(* What any step does to the rows of message, to opener, to acked and to   *)
(* the deliveries that are about to answer.                                *)
NowSettled(m) == message'[m].call # Null \/ message'[m].label # Null

KeepsSettled ==
  \A m \in Messages :
    /\ message[m].stored => message'[m].stored
    /\ message[m].call # Null => message'[m].call # Null
    /\ message[m].label # Null => message'[m].label # Null

OpensFor(m, c) ==
  /\ message[m].call = Null /\ message'[m].call # Null
  /\ opener' = [opener EXCEPT ![c] = m]

OpensForOne == \E m \in Messages, c \in Calls : OpensFor(m, c)

AnswersTheSettled ==
  \A d \in Deliveries :
    /\ proc'[d].pc = "record" =>
         \/ proc[d].pc = "record" /\ proc'[d].msg = proc[d].msg
         \/ NowSettled(proc'[d].msg)

AcksTheSettled ==
  \A m \in Messages : m \in acked' => m \in acked \/ Settled(m)

StepIsOrderly ==
  /\ KeepsSettled
  /\ opener' = opener \/ OpensForOne
  /\ AnswersTheSettled
  /\ AcksTheSettled

LEMMA DoorIsOrderly ==
  ASSUME IInv, NEW d \in Deliveries, DoorStep(d)
  PROVE  StepIsOrderly
<1> DEFINE m == proc[d].msg
           c == proc[d].open
<1> USE DEF IInv, Typed
<1>0. ASSUME proc[d].pc # "idle"
      PROVE  m \in Messages /\ c \in Calls \cup {Null}
  BY <1>0 DEF DoorTypeOK, CarriesAMessage, Delivery
<1> USE DEF StepIsOrderly
<1>a. ASSUME UNCHANGED <<message, opener, acked>>, AnswersTheSettled PROVE StepIsOrderly
  BY <1>a DEF KeepsSettled, AcksTheSettled
<1>b. ASSUME NEW step, GoesTo(d, step), step # "record" PROVE AnswersTheSettled
  BY <1>b DEF AnswersTheSettled, GoesTo, DoorTypeOK
<1>c. ASSUME NEW r, Finish(d, r), NowSettled(m) PROVE AnswersTheSettled
  <2>1. proc' = [proc EXCEPT ![d] = [proc[d] EXCEPT !.pc = "record", !.result = r]]
    BY <1>c DEF Finish, DoorTypeOK
  <2>2. proc'[d].msg = m
    BY <2>1 DEF DoorTypeOK, Delivery
  <2> QED BY <1>c, <2>1, <2>2 DEF AnswersTheSettled, DoorTypeOK
<1>d. ASSUME NEW k PROVE NextAfterReply(k) # "record"
  BY DEF NextAfterReply
<1>1. CASE Recheck(d)
  <2>1. AnswersTheSettled
    BY <1>0, <1>1, <1>b, <1>c DEF Recheck, DeliveryAt, Settled, NowSettled
  <2> QED BY <1>1, <1>a, <2>1 DEF Recheck
<1>2. CASE ReadThread(d)
  <2>1. AnswersTheSettled
    BY <1>2, <1>d DEF ReadThread, AnswersTheSettled, DoorTypeOK, Delivery
  <2> QED BY <1>2, <1>a, <2>1 DEF ReadThread
<1>3. CASE ClaimReply(d)
  <2>1. AnswersTheSettled
    BY <1>3, <1>b, <1>d DEF ClaimReply
  <2>2. KeepsSettled
    BY <1>0, <1>3 DEF ClaimReply, DeliveryAt, KeepsSettled, DoorTypeOK, MessageRow
  <2> QED BY <1>3, <2>1, <2>2 DEF ClaimReply, AcksTheSettled
<1>4. CASE SendAccepted(d)
  BY <1>4, <1>a, <1>b DEF SendAccepted
<1>5. CASE ReleaseClaim(d)
  <2>2. KeepsSettled
    BY <1>0, <1>5 DEF ReleaseClaim, DeliveryAt, KeepsSettled, DoorTypeOK, MessageRow
  <2> QED BY <1>5, <1>b, <2>2 DEF ReleaseClaim, AcksTheSettled
<1>6. CASE StoreReplyId(d)
  <2>2. KeepsSettled
    BY <1>0, <1>6 DEF StoreReplyId, DeliveryAt, KeepsSettled, DoorTypeOK, MessageRow
  <2> QED BY <1>6, <1>b, <2>2 DEF StoreReplyId, AcksTheSettled
<1>7. CASE StoreReplyEcho(d)
  BY <1>7, <1>a, <1>b, <1>d DEF StoreReplyEcho
<1>8. CASE SettleAttach(d)
  <2>0. DeliveryAt(d, "attach") /\ m \in Messages /\ c \in Calls
    BY <1>0, <1>8 DEF SettleAttach, DeliveryAt, CarriesAMessage
  <2>1. CASE Settled(m)
    BY <1>8, <1>a, <1>c, <2>0, <2>1 DEF SettleAttach, Settled, NowSettled
  <2>2. CASE ~Settled(m) /\ Attachable(c)
    <3>1. message' = [message EXCEPT ![m].call = c] /\ Finish(d, c)
      BY <1>8, <2>2 DEF SettleAttach
    <3>2. KeepsSettled
      BY <2>0, <2>2, <3>1, NullAssumption DEF KeepsSettled, DoorTypeOK, MessageRow, Settled
    <3>3. NowSettled(m)
      BY <2>0, <3>1, NullAssumption DEF NowSettled, DoorTypeOK, MessageRow
    <3>4. AnswersTheSettled
      BY <1>c, <3>1, <3>3
    <3> QED BY <1>8, <3>2, <3>4 DEF SettleAttach, AcksTheSettled
  <2>3. CASE ~Settled(m) /\ ~Attachable(c)
    BY <1>8, <1>a, <1>b, <2>3 DEF SettleAttach
  <2> QED BY <2>1, <2>2, <2>3
<1>9. CASE AskSorter(d)
  <2>1. AnswersTheSettled
    BY <1>9 DEF AskSorter, AnswersTheSettled, DoorTypeOK, Delivery
  <2> QED BY <1>9, <1>a, <2>1 DEF AskSorter
<1>10. CASE RecordDutyReply(d)
  <2>1. Settled(m)
    BY <1>10 DEF RecordDutyReply, DeliveryAt, RecordsTheSettled
  <2>2. AcksTheSettled
    BY <1>10, <2>1 DEF RecordDutyReply, AcksTheSettled
  <2> QED BY <1>10, <1>b, <2>2 DEF RecordDutyReply, KeepsSettled
<1>11. ASSUME NEW noise \in BOOLEAN, SettleVerdict(d, noise) PROVE StepIsOrderly
  <2>0. DeliveryAt(d, "settle") /\ m \in Messages
    BY <1>0, <1>11 DEF SettleVerdict, DeliveryAt
  <2>1. CASE Settled(m)
    BY <1>11, <1>a, <1>c, <2>0, <2>1 DEF SettleVerdict, Settled, NowSettled
  <2>2. CASE ~Settled(m) /\ noise /\ ~Matches(m)
    <3>1. /\ message' = [message EXCEPT ![m].label = "noise"] /\ Finish(d, Null)
          /\ UNCHANGED <<opener, acked>>
      BY <1>11, <2>2 DEF SettleVerdict
    <3>2. KeepsSettled /\ NowSettled(m)
      BY <2>0, <3>1, NullAssumption DEF KeepsSettled, DoorTypeOK, MessageRow, NowSettled
    <3> QED BY <1>c, <3>1, <3>2 DEF AcksTheSettled
  <2>3. CASE ~Settled(m) /\ ~(noise /\ ~Matches(m))
    <3>1. PICK k \in Calls :
            /\ message' = [message EXCEPT ![m].call = k] /\ Finish(d, k)
            /\ opener' = [opener EXCEPT ![k] = m] /\ acked' = acked
      BY <1>11, <2>3 DEF SettleVerdict
    <3>2. KeepsSettled /\ NowSettled(m) /\ message'[m].call # Null
      BY <2>0, <3>1, NullAssumption DEF KeepsSettled, DoorTypeOK, MessageRow, NowSettled
    <3>3. OpensFor(m, k)
      BY <2>0, <2>3, <3>1, <3>2 DEF OpensFor, Settled
    <3> QED BY <1>c, <2>0, <3>1, <3>2, <3>3 DEF AcksTheSettled, OpensForOne
  <2> QED BY <2>1, <2>2, <2>3
<1> QED
  BY <1>1, <1>2, <1>3, <1>4, <1>5, <1>6, <1>7, <1>8, <1>9, <1>10, <1>11 DEF DoorStep

LEMMA NextIsOrderly == IInv /\ [DoorNext]_doorVars => StepIsOrderly
<1> SUFFICES ASSUME IInv, [DoorNext]_doorVars PROVE StepIsOrderly
  OBVIOUS
<1> USE DEF IInv, Typed, StepIsOrderly
<1>a. ASSUME UNCHANGED <<message, opener, acked, proc>> PROVE StepIsOrderly
  BY <1>a DEF KeepsSettled, AcksTheSettled, AnswersTheSettled
<1>b. ASSUME NEW d \in Deliveries, NEW step, GoesTo(d, step), step # "record",
             UNCHANGED <<message, opener, acked>>
      PROVE  StepIsOrderly
  BY <1>b DEF KeepsSettled, AcksTheSettled, AnswersTheSettled, GoesTo, DoorTypeOK
<1>1. ASSUME NEW d \in Deliveries, NEW m \in Messages, Receive(d, m) PROVE StepIsOrderly
  <2>1. KeepsSettled
    BY <1>1 DEF Receive, KeepsSettled, DoorTypeOK, MessageRow
  <2>2. AnswersTheSettled
    BY <1>1 DEF Receive, AnswersTheSettled, DoorTypeOK, NoDelivery, Settled, NowSettled
  <2> QED BY <1>1, <2>1, <2>2 DEF Receive, AcksTheSettled
<1>2. ASSUME NEW d \in Deliveries, SendRefused(d) \/ Stop(d) PROVE StepIsOrderly
  BY <1>2, <1>b DEF SendRefused, Stop
<1>3. ASSUME NEW d \in Deliveries, ReceiveEcho(d) PROVE StepIsOrderly
  BY <1>3, <1>a DEF ReceiveEcho
<1>4. ASSUME NEW c \in Calls,
             \/ CloseCall(c) \/ ReturnCall(c) \/ RestoreCall(c)
             \/ FlagByHand(c) \/ ClearFlag(c)
             \/ \E byTerms, answered \in BOOLEAN : OpenElsewhere(c, byTerms, answered)
      PROVE  StepIsOrderly
  BY <1>4, <1>a
     DEF OpenElsewhere, CloseCall, ReturnCall, RestoreCall, FlagByHand, ClearFlag, besideCalls
<1>5. ASSUME NEW c \in Calls, NEW other \in Calls, DuplicateCall(c, other)
      PROVE  StepIsOrderly
  <2>1. KeepsSettled
    BY <1>5, NullAssumption DEF DuplicateCall, KeepsSettled, DoorTypeOK, MessageRow
  <2> QED BY <1>5, <2>1 DEF DuplicateCall, AcksTheSettled, AnswersTheSettled
<1>6. ASSUME NEW m \in Messages, RescueNoise(m) PROVE StepIsOrderly
  <2>1. PICK c \in Calls :
          message' = [message EXCEPT ![m].call = c] /\ opener' = [opener EXCEPT ![c] = m]
    BY <1>6 DEF RescueNoise
  <2>2. KeepsSettled /\ OpensFor(m, c)
    <3>1. c # Null /\ message[m].call = Null
      BY <1>6, NullAssumption DEF RescueNoise, Filtered
    <3>2. \A x \in Messages : /\ message'[x].stored = message[x].stored
                              /\ message'[x].label = message[x].label
                              /\ message'[x].call = IF x = m THEN c ELSE message[x].call
      BY <2>1 DEF DoorTypeOK, MessageRow
    <3> QED BY <2>1, <3>1, <3>2 DEF KeepsSettled, OpensFor
  <2> QED BY <1>6, <2>2 DEF RescueNoise, OpensForOne, AcksTheSettled, AnswersTheSettled
<1>7. CASE UNCHANGED doorVars
  BY <1>7, <1>a DEF doorVars, besideCalls
<1> QED BY <1>1, <1>2, <1>3, <1>4, <1>5, <1>6, <1>7, DoorIsOrderly DEF DoorNext

\* A delivery in hand keeps its message, and one that is begun has stored it.
BeginsWithTheStored ==
  \A d \in Deliveries :
    proc'[d].pc # "idle" =>
      \/ proc[d].pc # "idle" /\ proc'[d].msg = proc[d].msg
      \/ message'[proc'[d].msg].stored \/ NowSettled(proc'[d].msg)

LEMMA NextBegins == IInv /\ [DoorNext]_doorVars => BeginsWithTheStored
<1> SUFFICES ASSUME IInv, [DoorNext]_doorVars PROVE BeginsWithTheStored
  OBVIOUS
<1> USE DEF IInv, Typed, BeginsWithTheStored
<1>a. ASSUME NEW d \in Deliveries, proc[d].pc # "idle",
             NEW next \in Delivery, next.msg = proc[d].msg,
             proc' = [proc EXCEPT ![d] = next]
      PROVE  BeginsWithTheStored
  BY <1>a DEF DoorTypeOK
<1>b. ASSUME NEW d \in Deliveries, proc[d].pc # "idle", NEW step \in DeliveryStep, GoesTo(d, step)
      PROVE  BeginsWithTheStored
  BY <1>b DEF GoesTo, DoorTypeOK, Delivery
<1>c. ASSUME NEW d \in Deliveries, proc[d].pc # "idle", NEW c, Finish(d, c)
      PROVE  BeginsWithTheStored
  BY <1>c DEF Finish, DoorTypeOK, Delivery
<1>d. ASSUME UNCHANGED proc PROVE BeginsWithTheStored
  BY <1>d
<1>1. ASSUME NEW d \in Deliveries, NEW m \in Messages, Receive(d, m)
      PROVE  BeginsWithTheStored
  <2>1. \A x \in Deliveries \ {d} : proc'[x] = proc[x]
    BY <1>1 DEF Receive, DoorTypeOK
  <2>2. proc'[d].msg = m
    BY <1>1 DEF Receive, DoorTypeOK, NoDelivery
  <2>3. message'[m].stored \/ NowSettled(m)
    <3>1. CASE Settled(m)
      BY <1>1, <3>1 DEF Receive, NowSettled, Settled
    <3>2. CASE ~Settled(m)
      BY <1>1, <3>2 DEF Receive, DoorTypeOK, MessageRow
    <3> QED BY <3>1, <3>2
  <2> QED BY <2>1, <2>2, <2>3
<1>2. ASSUME NEW d \in Deliveries, ReadThread(d) PROVE BeginsWithTheStored
  <2>1. \A x \in Deliveries : proc'[x].msg = proc[x].msg /\ (x # d => proc'[x] = proc[x])
    BY <1>2 DEF ReadThread, DoorTypeOK, Delivery
  <2> QED BY <1>2, <2>1 DEF ReadThread, DeliveryAt
<1>3. ASSUME NEW d \in Deliveries, AskSorter(d) PROVE BeginsWithTheStored
  BY <1>3 DEF AskSorter, DeliveryAt, DoorTypeOK, Delivery
<1>4. ASSUME NEW d \in Deliveries,
             \/ Recheck(d) \/ ClaimReply(d) \/ SendAccepted(d) \/ ReleaseClaim(d)
             \/ StoreReplyId(d) \/ StoreReplyEcho(d) \/ SettleAttach(d)
             \/ RecordDutyReply(d) \/ SendRefused(d) \/ Stop(d)
             \/ \E noise \in BOOLEAN : SettleVerdict(d, noise)
      PROVE  BeginsWithTheStored
  <2>1. proc[d].pc # "idle"
    BY <1>4
       DEF Recheck, ClaimReply, SendAccepted, ReleaseClaim, StoreReplyId, StoreReplyEcho,
           SettleAttach, RecordDutyReply, SendRefused, Stop, SettleVerdict, DeliveryAt
  <2>2. (\E step \in DeliveryStep : GoesTo(d, step)) \/ (\E c : Finish(d, c))
    BY <1>4, NextSteps
       DEF Recheck, ClaimReply, SendAccepted, ReleaseClaim, StoreReplyId, StoreReplyEcho,
           SettleAttach, RecordDutyReply, SendRefused, Stop, SettleVerdict, DeliveryStep
  <2> QED BY <1>b, <1>c, <2>1, <2>2
<1>5. CASE UNCHANGED proc
  BY <1>5, <1>d
<1>6. ASSUME NEW c \in Calls,
             \/ CloseCall(c) \/ ReturnCall(c) \/ RestoreCall(c)
             \/ FlagByHand(c) \/ ClearFlag(c)
             \/ \E byTerms, answered \in BOOLEAN : OpenElsewhere(c, byTerms, answered)
             \/ \E other \in Calls : DuplicateCall(c, other)
      PROVE  BeginsWithTheStored
  BY <1>6, <1>d
     DEF OpenElsewhere, CloseCall, ReturnCall, RestoreCall, FlagByHand, ClearFlag, DuplicateCall, besideCalls
<1> QED
  BY <1>1, <1>2, <1>3, <1>4, <1>5, <1>6
     DEF DoorNext, DoorStep, ReceiveEcho, RescueNoise, doorVars, besideCalls

-----------------------------------------------------------------------------
LEMMA InitIInv == DoorInit => IInv
<1> SUFFICES ASSUME DoorInit PROVE IInv
  OBVIOUS
<1>1. OpensOneCall /\ AnsweredIsSettled
  BY DEF DoorInit, OpensOneCall, AnsweredIsSettled
<1>2. RecordsTheSettled /\ OpenersAreLinked /\ StoredFirst /\ ReturnedAreOpen /\ CallsExist
  BY DEF DoorInit, RecordsTheSettled, OpenersAreLinked, StoredFirst, ReturnedAreOpen, CallsExist,
         NoDelivery, NoCall
<1> QED BY <1>1, <1>2, InitTyped DEF IInv, SettledOnce

\* A call that is there stays there, and what it repeats, and no call that is
\* there gets another opener.
RowsStay ==
  \A c \in Calls :
    /\ calls[c].state # "none" => calls'[c].state # "none" /\ opener'[c] = opener[c]
    /\ calls[c].state = "closed" =>
         calls'[c].state = "closed" /\ calls'[c].duplicateOf = calls[c].duplicateOf

LEMMA CallsStayThere ==
  ASSUME Typed, Typed', CallsExist, StepCases
  PROVE  CallsExist' /\ RowsStay
<1> USE DEF Typed, DoorTypeOK, RowsStay
<1>a. ASSUME RowsStay, opener' = opener,
             \A c \in Calls :
               /\ calls'[c].state = "none" => calls[c].state = "none"
               /\ calls'[c].duplicateOf # Null => calls'[c].duplicateOf = calls[c].duplicateOf
      PROVE  CallsExist'
  BY <1>a DEF CallsExist, CallRow
<1>1. CASE SameCalls
  BY <1>1, <1>a DEF SameCalls
<1>2. ASSUME NEW m \in Messages, NEW c \in Calls, Attaches(m, c) PROVE CallsExist' /\ RowsStay
  BY <1>2, <1>a DEF Attaches, FlaggedByTerms, CallRow
<1>3. ASSUME NEW c \in Calls, NEW row \in CallRow, calls[c].state = "none",
             row.state = "open" /\ row.duplicateOf = Null,
             calls' = [calls EXCEPT ![c] = row],
             opener' = opener \/ \E m \in Messages : opener' = [opener EXCEPT ![c] = m]
      PROVE  CallsExist' /\ RowsStay
  <2>1. /\ \A x \in Calls \ {c} : calls'[x] = calls[x] /\ opener'[x] = opener[x]
        /\ calls'[c].state = "open" /\ calls'[c].duplicateOf = Null
    BY <1>3
  <2> QED BY <1>3, <2>1 DEF CallsExist, CallRow
<1>4. ASSUME NEW m \in Messages, NEW c \in Calls, Opens(m, c) PROVE CallsExist' /\ RowsStay
  <2>1. PICK pred \in Calls \cup {Null} :
          calls' = [calls EXCEPT ![c] = OpenedCall(pred, Matches(m))]
    BY <1>4 DEF Opens
  <2> DEFINE row == OpenedCall(pred, Matches(m))
  <2>2. row \in CallRow /\ row.state = "open" /\ row.duplicateOf = Null
    BY DEF OpenedCall, NoCall, CallRow
  <2>3. calls' = [calls EXCEPT ![c] = row] /\ calls[c].state = "none"
        /\ opener' = [opener EXCEPT ![c] = m]
    BY <1>4, <2>1 DEF Opens
  <2> HIDE DEF row
  <2> QED BY <1>3, <2>2, <2>3
<1>5. ASSUME NEW c \in Calls, OpensElsewhere(c) PROVE CallsExist' /\ RowsStay
  <2>1. PICK byTerms \in BOOLEAN, answered \in BOOLEAN : OpenElsewhere(c, byTerms, answered)
    BY <1>5 DEF OpensElsewhere
  <2> DEFINE row == [OpenedCall(Null, byTerms) EXCEPT
                       !.dutyAt = IF answered THEN Pending ELSE Null]
  <2>2. row \in CallRow /\ row.state = "open" /\ row.duplicateOf = Null
    BY DEF OpenedCall, NoCall, CallRow
  <2>3. calls' = [calls EXCEPT ![c] = row] /\ calls[c].state = "none" /\ opener' = opener
    BY <2>1 DEF OpenElsewhere, besideCalls
  <2> HIDE DEF row
  <2> QED BY <1>3, <2>2, <2>3
<1>6. ASSUME NEW c \in Calls, CloseCall(c) \/ ReturnCall(c) \/ RestoreCall(c)
      PROVE  CallsExist' /\ RowsStay
  <2>1. /\ opener' = opener
        /\ \A x \in Calls :
             /\ calls'[x].duplicateOf = calls[x].duplicateOf
             /\ \/ calls'[x].state = calls[x].state
                \/ calls[x].state = "open" /\ calls'[x].state = "closed"
    BY <1>6 DEF CloseCall, ReturnCall, RestoreCall, Attachable, besideCalls, CallRow
  <2> QED BY <1>a, <2>1
<1>7. ASSUME NEW c \in Calls, NEW other \in Calls, DuplicateCall(c, other)
      PROVE  CallsExist' /\ RowsStay
  <2>1. /\ opener' = opener /\ calls[other].state # "none" /\ other # c
        /\ calls[c].state = "open"
        /\ calls'[c].state = "closed" /\ calls'[c].duplicateOf = other
        /\ \A x \in Calls \ {c} : calls'[x] = calls[x]
    BY <1>7 DEF DuplicateCall, Attachable, CallRow
  <2> QED BY <2>1 DEF CallsExist, CallRow
<1> QED
  BY <1>1, <1>2, <1>4, <1>5, <1>6, <1>7 DEF StepCases, NothingMoves, Stores, Filters

LEMMA NextIInv == IInv /\ [DoorNext]_doorVars => IInv'
<1> SUFFICES ASSUME IInv, [DoorNext]_doorVars PROVE IInv'
  OBVIOUS
<1>1. Typed /\ Typed' /\ StepIsOrderly
  BY NextTyped, NextIsOrderly DEF IInv
<1>2. RecordsTheSettled'
  <2> SUFFICES ASSUME NEW d \in Deliveries, proc'[d].pc = "record"
               PROVE  NowSettled(proc'[d].msg)
    BY DEF RecordsTheSettled, Settled, NowSettled
  <2>1. CASE proc[d].pc = "record" /\ proc'[d].msg = proc[d].msg
    <3>1. proc[d].msg \in Messages /\ Settled(proc[d].msg)
      BY <1>1, <2>1 DEF IInv, Typed, CarriesAMessage, RecordsTheSettled
    <3> QED BY <1>1, <2>1, <3>1 DEF StepIsOrderly, KeepsSettled, Settled, NowSettled
  <2> QED BY <1>1, <2>1 DEF StepIsOrderly, AnswersTheSettled
<1>3. OpenersAreLinked' /\ OpensOneCall'
  <2>1. CASE opener' = opener
    BY <1>1, <2>1
       DEF IInv, StepIsOrderly, KeepsSettled, OpenersAreLinked, OpensOneCall, SettledOnce,
           Typed, DoorTypeOK
  <2>2. ASSUME NEW m \in Messages, NEW c \in Calls, OpensFor(m, c)
        PROVE  OpenersAreLinked' /\ OpensOneCall'
    <3>1. \A k \in Calls : opener[k] # m
      BY <2>2, NullAssumption DEF IInv, OpenersAreLinked, OpensFor
    <3>2. \A k \in Calls : opener'[k] = IF k = c THEN m ELSE opener[k]
      BY <2>2, <1>1 DEF OpensFor, Typed, DoorTypeOK
    <3>3. OpensOneCall'
      BY <3>1, <3>2 DEF IInv, SettledOnce, OpensOneCall
    <3>4. OpenersAreLinked'
      BY <1>1, <2>2, <3>2
         DEF IInv, StepIsOrderly, KeepsSettled, OpenersAreLinked, OpensFor, Typed, DoorTypeOK
    <3> QED BY <3>3, <3>4
  <2> QED BY <1>1, <2>1, <2>2 DEF StepIsOrderly, OpensForOne
<1>4. AnsweredIsSettled'
  <2> SUFFICES ASSUME NEW m \in acked'
               PROVE  message'[m].call # Null \/ message'[m].label = "noise"
    BY DEF AnsweredIsSettled
  <2>1. m \in Messages /\ message'[m] \in MessageRow
    BY <1>1 DEF Typed, DoorTypeOK
  <2>2. Settled(m)
    BY <1>1, <2>1, NullAssumption
       DEF IInv, SettledOnce, AnsweredIsSettled, StepIsOrderly, AcksTheSettled, Settled
  <2> QED BY <1>1, <2>1, <2>2 DEF StepIsOrderly, KeepsSettled, Settled, MessageRow
<1>5. StoredFirst'
  <2> SUFFICES ASSUME NEW d \in Deliveries, proc'[d].pc # "idle"
               PROVE  message'[proc'[d].msg].stored \/ NowSettled(proc'[d].msg)
    BY DEF StoredFirst, Settled, NowSettled
  <2>1. CASE proc[d].pc # "idle" /\ proc'[d].msg = proc[d].msg
    <3>1. /\ proc[d].msg \in Messages
          /\ message[proc[d].msg].stored \/ Settled(proc[d].msg)
      BY <2>1 DEF IInv, Typed, CarriesAMessage, StoredFirst
    <3> QED BY <1>1, <2>1, <3>1 DEF StepIsOrderly, KeepsSettled, Settled, NowSettled
  <2> QED BY <2>1, NextBegins DEF BeginsWithTheStored
<1>6. ReturnedAreOpen'
  <2>1. Typed /\ ReturnedAreOpen /\ StepCases
    BY NextCases DEF IInv
  <2>2. CASE SameCalls
    BY <2>1, <2>2 DEF SameCalls, ReturnedAreOpen
  <2>3. ASSUME NEW m \in Messages, NEW c \in Calls, Attaches(m, c) PROVE ReturnedAreOpen'
    BY <2>1, <2>3
       DEF Attaches, FlaggedByTerms, ReturnedAreOpen, Typed, DoorTypeOK, CallRow
  <2>4. ASSUME NEW m \in Messages, NEW c \in Calls, Opens(m, c) PROVE ReturnedAreOpen'
    BY <2>1, <2>4 DEF Opens, OpenedCall, NoCall, ReturnedAreOpen, Typed, DoorTypeOK
  <2>5. ASSUME NEW c \in Calls, CloseCall(c) \/ ReturnCall(c) \/ RestoreCall(c)
        PROVE  ReturnedAreOpen'
    BY <2>1, <2>5
       DEF CloseCall, ReturnCall, RestoreCall, Attachable, ReturnedAreOpen, Typed, DoorTypeOK,
           CallRow
  <2>6. ASSUME NEW c \in Calls, NEW other \in Calls, DuplicateCall(c, other)
        PROVE  ReturnedAreOpen'
    BY <2>1, <2>6
       DEF DuplicateCall, Attachable, ReturnedAreOpen, Typed, DoorTypeOK, CallRow
  <2>7. ASSUME NEW c \in Calls, OpensElsewhere(c) PROVE ReturnedAreOpen'
    BY <2>1, <2>7
       DEF OpensElsewhere, OpenElsewhere, OpenedCall, NoCall, ReturnedAreOpen, Typed, DoorTypeOK
  <2> QED
    BY <2>1, <2>2, <2>3, <2>4, <2>5, <2>6, <2>7 DEF StepCases, NothingMoves, Stores, Filters
<1>7. CallsExist'
  BY <1>1, NextCases, CallsStayThere DEF IInv
<1> QED BY <1>1, <1>2, <1>3, <1>4, <1>5, <1>6, <1>7 DEF IInv, SettledOnce

(* Every variable of the door keeps its type, for any deliveries, messages *)
(* and calls; and a delivery that is about to attach knows a call.         *)
THEOREM DoorTypeCorrect == DoorSpec => []DoorTypeOK
<1>1. IInv => DoorTypeOK
  BY DEF IInv, Typed
<1> QED BY <1>1, InitIInv, NextIInv, PTL DEF DoorSpec

(* A message opens at most one call, and the channel is answered only for  *)
(* a message that is on a call or filtered, however many deliveries carry  *)
(* it and wherever they stop.                                              *)
THEOREM MessagesSettleOnce == DoorSpec => []SettledOnce
<1>1. IInv => SettledOnce
  BY DEF IInv
<1> QED BY <1>1, InitIInv, NextIInv, PTL DEF DoorSpec

-----------------------------------------------------------------------------
(* A message lands on a call that is open and not filtered when it lands,  *)
(* an emergency on one that is flagged, whatever the office did between    *)
(* the reading of the thread and the settling; and it leaves its call only *)
(* with the call itself.                                                   *)
THEOREM MessagesLandOnOpenCalls == DoorSpec => MessagesLandWell
<1> DEFINE A == \A m \in Messages :
             /\ Linked(m) => LandsWell(m)
             /\ message[m].call # Null => MovesOnlyWithItsCall(m)
<1>1. IInv /\ [DoorNext]_doorVars => A
  <2> SUFFICES ASSUME IInv, [DoorNext]_doorVars PROVE A
    OBVIOUS
  <2>0. Typed /\ StepCases
    BY NextCases DEF IInv
  <2> USE DEF Typed, DoorTypeOK
  <2>a. ASSUME \A x \in Messages : message'[x].call = message[x].call PROVE A
    BY <2>a DEF Linked, MovesOnlyWithItsCall
  <2>b. ASSUME NEW m \in Messages, NEW c \in Calls, message[m].call = Null,
               message' = [message EXCEPT ![m].call = c],
               calls'[c].state = "open" /\ ~calls'[c].returned,
               m \in Emergency => calls'[c].flag # Null
        PROVE  A
    <3>1. \A x \in Messages : message'[x].call = IF x = m THEN c ELSE message[x].call
      BY <2>0, <2>b DEF MessageRow
    <3> QED BY <2>b, <3>1 DEF Linked, LandsWell, MovesOnlyWithItsCall
  <2>1. CASE NothingMoves
    BY <2>1, <2>a DEF NothingMoves, Stays
  <2>2. ASSUME NEW m \in Messages, Stores(m) \/ Filters(m) PROVE A
    <3>1. \A x \in Messages : message'[x].call = message[x].call
      BY <2>0, <2>2 DEF Stores, Filters, MessageRow
    <3> QED BY <2>a, <3>1
  <2>3. ASSUME NEW m \in Messages, NEW c \in Calls, Attaches(m, c) PROVE A
    <3>1. calls'[c] = FlaggedByTerms(calls[c], Matches(m))
      BY <2>0, <2>3 DEF Attaches
    <3>2. /\ calls'[c].state = "open" /\ ~calls'[c].returned
          /\ m \in Emergency => calls'[c].flag # Null
      BY <2>0, <2>3, <3>1, NullAssumption
         DEF Attaches, Attachable, FlaggedByTerms, Matches, CallRow
    <3>3. message[m].call = Null /\ message' = [message EXCEPT ![m].call = c]
      BY <2>3 DEF Attaches, InTheHold, Settled
    <3> QED BY <2>b, <3>2, <3>3
  <2>4. ASSUME NEW m \in Messages, NEW c \in Calls, Opens(m, c) PROVE A
    <3>1. PICK pred : calls'[c] = OpenedCall(pred, Matches(m))
      BY <2>0, <2>4 DEF Opens
    <3>2. /\ calls'[c].state = "open" /\ ~calls'[c].returned
          /\ m \in Emergency => calls'[c].flag # Null
      BY <3>1, NullAssumption DEF OpenedCall, NoCall, Matches
    <3>3. message[m].call = Null /\ message' = [message EXCEPT ![m].call = c]
      BY <2>4 DEF Opens, InTheHold, Settled, Filtered
    <3> QED BY <2>b, <3>2, <3>3
  <2>5. ASSUME NEW c \in Calls,
               CloseCall(c) \/ ReturnCall(c) \/ RestoreCall(c) \/ OpensElsewhere(c)
        PROVE  A
    BY <2>5, <2>a
       DEF CloseCall, ReturnCall, RestoreCall, OpensElsewhere, OpenElsewhere, besideCalls
  <2>6. ASSUME NEW c \in Calls, NEW other \in Calls, DuplicateCall(c, other) PROVE A
    <3>1. \A x \in Messages :
            message'[x].call = IF message[x].call = c THEN other ELSE message[x].call
      BY <2>0, <2>6 DEF DuplicateCall, MessageRow
    <3>2. calls[c].state = "open" /\ calls'[c].duplicateOf = other
      BY <2>0, <2>6 DEF DuplicateCall, Attachable, CallRow
    <3> QED BY <3>1, <3>2, NullAssumption DEF Linked, MovesOnlyWithItsCall
  <2> QED BY <2>0, <2>1, <2>2, <2>3, <2>4, <2>5, <2>6 DEF StepCases
<1>2. IInv /\ [DoorNext]_doorVars => [A]_doorVars
  BY <1>1
<1> QED BY <1>2, InitIInv, NextIInv, PTL DEF DoorSpec, MessagesLandWell

-----------------------------------------------------------------------------
(* The refinement of Intake.                                               *)
LEMMA PlaceTypes ==
  ASSUME Typed, NEW m \in Messages
  PROVE  /\ InTheHold(m) <=> Place(m) = "held"
         /\ Filtered(m) <=> Place(m) = "filtered"
         /\ Place(m) = "unseen" <=> ~Settled(m) /\ ~message[m].stored
         /\ \A c \in Calls : Place(m) = c <=> message[m].call = c
BY CallsAssumption, NullAssumption
   DEF InTheHold, Filtered, Place, Settled, Typed, DoorTypeOK, MessageRow

LEMMA PlacesFollow ==
  ASSUME NEW m \in Messages, Stays(m)
  PROVE  Place(m)' = Place(m)
BY DEF Stays, Place

LEMMA StatusFollows == SameCalls => \A c \in Calls : Status(c)' = Status(c)
BY DEF SameCalls, Status

\* The abstract state, and how one entry of it moves.
Places == [m \in Messages |-> Place(m)]
Statuses == [c \in Calls |-> Status(c)]

LEMMA OnePlaceMoves ==
  ASSUME NEW m \in Messages, NEW place, Place(m)' = place,
         \A x \in Messages \ {m} : Stays(x)
  PROVE  Places' = [Places EXCEPT ![m] = place]
<1>1. \A x \in Messages : Place(x)' = IF x = m THEN place ELSE Place(x)
  BY PlacesFollow
<1> QED BY <1>1 DEF Places

LEMMA OneStatusMoves ==
  ASSUME NEW c \in Calls, NEW status, Status(c)' = status,
         \A x \in Calls \ {c} : calls'[x] = calls[x]
  PROVE  Statuses' = [Statuses EXCEPT ![c] = status]
<1>1. \A x \in Calls : Status(x)' = IF x = c THEN status ELSE Status(x)
  BY DEF Status
<1> QED BY <1>1 DEF Statuses

LEMMA PromiseStep == IInv /\ [DoorNext]_doorVars => [Promise!Next]_(Promise!vars)
<1> SUFFICES ASSUME IInv, [DoorNext]_doorVars PROVE [Promise!Next]_(Promise!vars)
  OBVIOUS
<1>0. Typed /\ ReturnedAreOpen /\ StepCases
  BY NextCases DEF IInv
<1>a. ASSUME SameCalls PROVE Statuses' = Statuses
  BY <1>a, StatusFollows DEF Statuses
<1>b. ASSUME \A m \in Messages : Stays(m) PROVE Places' = Places
  BY <1>b, PlacesFollow DEF Places
<1> USE DEF Typed, DoorTypeOK
<1>1. CASE NothingMoves
  BY <1>1, <1>a, <1>b DEF NothingMoves, Promise!vars, Places, Statuses
<1>2. ASSUME NEW m \in Messages, Stores(m) PROVE Promise!Next
  <2>1. \A x \in Messages \ {m} : Stays(x)
    BY <1>0, <1>2 DEF Stores, Stays
  <2>2. Place(m) = "unseen" /\ Place(m)' = "held"
    BY <1>0, <1>2 DEF Stores, Settled, Place, MessageRow
  <2>3. Promise!Hold(m)
    BY <1>2, <1>a, <2>1, <2>2, OnePlaceMoves DEF Stores, Promise!Hold, Places, Statuses
  <2> QED BY <2>3 DEF Promise!Next
<1>3. ASSUME NEW m \in Messages, Filters(m) PROVE Promise!Next
  <2>1. \A x \in Messages \ {m} : Stays(x)
    BY <1>0, <1>3 DEF Filters, Stays
  <2>2. Place(m) = "held" /\ Place(m)' = "filtered"
    BY <1>0, <1>3, NullAssumption DEF Filters, InTheHold, Settled, Place, MessageRow
  <2>3. Promise!Filter(m)
    BY <1>3, <1>a, <2>1, <2>2, OnePlaceMoves DEF Filters, Promise!Filter, Places, Statuses
  <2> QED BY <2>3 DEF Promise!Next
<1>4. ASSUME NEW m \in Messages, NEW c \in Calls, Attaches(m, c) PROVE Promise!Next
  <2>1. \A x \in Messages \ {m} : Stays(x)
    BY <1>0, <1>4 DEF Attaches, Stays
  <2>2. Place(m) = "held" /\ Place(m)' = c
    <3>1. message'[m].call = c /\ c # Null
      BY <1>0, <1>4, NullAssumption DEF Attaches, MessageRow
    <3> QED BY <1>0, <1>4, <3>1, PlaceTypes DEF Attaches, Place
  <2>3. Status(c) = "open"
    BY <1>4 DEF Attaches, Attachable, Status
  <2>4. SameCalls
    BY <1>0, <1>4 DEF Attaches, FlaggedByTerms, SameCalls, CallRow
  <2>5. Promise!Attach(m, c)
    BY <1>a, <2>1, <2>2, <2>3, <2>4, OnePlaceMoves DEF Promise!Attach, Places, Statuses
  <2> QED BY <2>5 DEF Promise!Next
<1>5. ASSUME NEW m \in Messages, NEW c \in Calls, Opens(m, c) PROVE Promise!Next
  <2>1. \A x \in Messages \ {m} : Stays(x)
    BY <1>0, <1>5 DEF Opens, Stays
  <2>2. Place(m) \in {"held", "filtered"} /\ Place(m)' = c
    <3>1. message'[m].call = c /\ c # Null
      BY <1>0, <1>5, NullAssumption DEF Opens, MessageRow
    <3> QED BY <1>0, <1>5, <3>1, PlaceTypes DEF Opens, Place
  <2>3. PICK pred : calls' = [calls EXCEPT ![c] = OpenedCall(pred, Matches(m))]
    BY <1>5 DEF Opens
  <2>4. Status(c) = "none" /\ Status(c)' = "open"
    BY <1>0, <1>5, <2>3 DEF Opens, ReturnedAreOpen, Status, OpenedCall, NoCall
  <2>5. Statuses' = [Statuses EXCEPT ![c] = "open"]
    BY <2>3, <2>4, <1>0, OneStatusMoves
  <2>6. Promise!OpenFor(m, c)
    BY <2>1, <2>2, <2>4, <2>5, OnePlaceMoves DEF Promise!OpenFor, Places, Statuses
  <2> QED BY <2>6 DEF Promise!Next
<1>6. ASSUME NEW c \in Calls, CloseCall(c) \/ ReturnCall(c) \/ RestoreCall(c)
      PROVE  Promise!Next
  <2>1. Places' = Places
    BY <1>6, <1>b DEF CloseCall, ReturnCall, RestoreCall, besideCalls, Stays
  <2>2. \A x \in Calls \ {c} : calls'[x] = calls[x]
    BY <1>0, <1>6 DEF CloseCall, ReturnCall, RestoreCall
  <2>3. \/ Status(c) = "open" /\ Status(c)' = "closed"
        \/ Status(c) = "open" /\ Status(c)' = "returned"
        \/ Status(c) = "returned" /\ Status(c)' = "open"
    BY <1>0, <1>6
       DEF CloseCall, ReturnCall, RestoreCall, Attachable, Status, ReturnedAreOpen, CallRow
  <2>4. Promise!Close(c) \/ Promise!Return(c) \/ Promise!Restore(c)
    BY <2>1, <2>2, <2>3, OneStatusMoves
       DEF Promise!Close, Promise!Return, Promise!Restore, Places, Statuses
  <2> QED BY <2>4 DEF Promise!Next
<1>7. ASSUME NEW c \in Calls, NEW other \in Calls, DuplicateCall(c, other)
      PROVE  Promise!Next
  <2>1. \A x \in Calls \ {c} : calls'[x] = calls[x]
    BY <1>0, <1>7 DEF DuplicateCall
  <2>2. Status(c) = "open" /\ Status(c)' = "closed" /\ Status(other) # "none"
    BY <1>0, <1>7 DEF DuplicateCall, Attachable, Status, CallRow
  <2>3. Statuses' = [Statuses EXCEPT ![c] = "closed"]
    BY <2>1, <2>2, OneStatusMoves
  <2>4. \A m \in Messages : Place(m)' = IF Place(m) = c THEN other ELSE Place(m)
    <3> SUFFICES ASSUME NEW m \in Messages
                 PROVE  Place(m)' = IF Place(m) = c THEN other ELSE Place(m)
      OBVIOUS
    <3>1. Place(m) = c <=> message[m].call = c
      BY <1>0, PlaceTypes
    <3>2. CASE message[m].call = c
      <4>1. message'[m].call = other /\ other # Null
        BY <1>0, <1>7, <3>2, NullAssumption DEF DuplicateCall, MessageRow
      <4> QED BY <3>1, <3>2, <4>1 DEF Place
    <3>3. CASE message[m].call # c
      <4>1. message'[m] = message[m]
        BY <1>7, <3>3 DEF DuplicateCall
      <4> QED BY <3>1, <3>3, <4>1 DEF Place
    <3> QED BY <3>2, <3>3
  <2>5. Places' = [m \in Messages |-> IF Places[m] = c THEN other ELSE Places[m]]
    BY <2>4 DEF Places
  <2>6. Promise!Merge(c, other)
    BY <1>7, <2>2, <2>3, <2>5 DEF DuplicateCall, Promise!Merge, Places, Statuses
  <2> QED BY <2>6 DEF Promise!Next
<1>8. ASSUME NEW c \in Calls, OpensElsewhere(c) PROVE Promise!Next
  <2>1. Places' = Places
    BY <1>8, <1>b DEF OpensElsewhere, OpenElsewhere, besideCalls, Stays
  <2>2. \A x \in Calls \ {c} : calls'[x] = calls[x]
    BY <1>0, <1>8 DEF OpensElsewhere, OpenElsewhere
  <2>3. Status(c) = "none" /\ Status(c)' = "open"
    BY <1>0, <1>8
       DEF OpensElsewhere, OpenElsewhere, OpenedCall, NoCall, Status, ReturnedAreOpen
  <2>4. Promise!OpenElsewhere(c)
    BY <2>1, <2>2, <2>3, OneStatusMoves DEF Promise!OpenElsewhere, Places, Statuses
  <2> QED BY <2>4 DEF Promise!Next
<1> QED BY <1>0, <1>1, <1>2, <1>3, <1>4, <1>5, <1>6, <1>7, <1>8 DEF StepCases

LEMMA PromiseInit == DoorInit => Promise!Init
BY DEF DoorInit, Promise!Init, Place, Status, NoCall

(* The door implements Intake: every message is kept from the moment it is *)
(* seen, judged once and from then on found in one place, however the      *)
(* deliveries interleave, stop and repeat.                                 *)
THEOREM DoorKeepsThePromise == DoorSpec => ImplementsIntake
BY PromiseInit, PromiseStep, InitIInv, NextIInv, PTL
   DEF DoorSpec, ImplementsIntake, Promise!Spec

-----------------------------------------------------------------------------
(* One thread, one open call, when deliveries come one at a time.  A       *)
(* delivery reads the thread long before it settles its message, and the   *)
(* office may close what it read: the invariant says what a delivery still *)
(* knows between those two steps, that the conversation has no open call   *)
(* but the one it read, and none at all once it asks the sorter.  Until a  *)
(* call is merged into one that was opened elsewhere, the conversation has *)
(* mail on its own calls only.                                             *)
Asking == {"claim", "send", "release", "storeId", "storeEcho", "attach"}

OneAtATime == \A d, e \in InTheDoor : d = e

\* A call of the conversation is open.
IsOpen(c) == calls[c].state = "open" /\ opener[c] # Null

NoneReturned == \A c \in Calls : ~calls[c].returned

\* Why a thread without an open call means that no call is open.
OpenHoldsMail == \A c \in Calls : IsOpen(c) => \E m \in Messages : message[m].call = c

OneOpen == \A c, e \in Calls : IsOpen(c) /\ IsOpen(e) => c = e

KnowsTheOpenCall ==
  \A d \in Deliveries :
    /\ proc[d].pc \in Asking => \A c \in Calls : IsOpen(c) => c = proc[d].open
    /\ proc[d].pc \in {"sort", "settle"} => \A c \in Calls : ~IsOpen(c)

\* What the door holds of the conversation's calls are calls it opened.
Own(c) == opener[c] # Null
OnOwnCalls ==
  /\ \A m \in Messages : message[m].call # Null => Own(message[m].call)
  /\ \A d \in Deliveries :
       /\ echo[d] \in Calls => Own(echo[d])
       /\ proc[d].open # Null => Own(proc[d].open)
       /\ proc[d].result # Null => Own(proc[d].result)

ThreadInv ==
  /\ OneAtATime /\ NoneReturned /\ OpenHoldsMail
  /\ ~MergedElsewhere => OnOwnCalls
  /\ ~Rescued /\ ~MergedElsewhere => OneOpen /\ KnowsTheOpenCall

LEMMA NobodyInHand ==
  ASSUME OneAtATime, MaxInHand <= 1, Cardinality(InTheDoor) < MaxInHand
  PROVE  InTheDoor = {}
<1>1. IsFiniteSet(InTheDoor)
  <2>1. CASE InTheDoor = {}
    BY <2>1, FS_EmptySet
  <2>2. CASE InTheDoor # {}
    <3>1. PICK d \in InTheDoor : TRUE
      BY <2>2
    <3>2. InTheDoor = {d}
      BY <3>1 DEF OneAtATime
    <3> QED BY <3>2, FS_Singleton
  <2> QED BY <2>1, <2>2
<1>2. Cardinality(InTheDoor) \in Nat /\ MaxInHand \in Nat
  BY <1>1, FS_CardinalityType, DoorBoundsAssumption
<1>3. Cardinality(InTheDoor) = 0
  BY <1>2
<1> QED BY <1>1, <1>3, FS_EmptySet

\* A step moves one delivery, which keeps its message, or takes up a new one.
OthersStay(d) == \A x \in Deliveries \ {d} : proc'[x] = proc[x]

Moves(d) ==
  /\ d \in InTheDoor /\ OthersStay(d)
  /\ proc'[d].msg = proc[d].msg

LEMMA DoorMoves ==
  ASSUME Typed, NEW d \in Deliveries, DoorStep(d) \/ SendRefused(d) \/ Stop(d)
  PROVE  Moves(d)
<1> USE DEF Moves, OthersStay, InTheDoor
<1>a. ASSUME NEW step, GoesTo(d, step) PROVE OthersStay(d) /\ proc'[d].msg = proc[d].msg
  BY <1>a DEF GoesTo, Typed, DoorTypeOK, Delivery
<1>b. ASSUME NEW c, Finish(d, c) PROVE OthersStay(d) /\ proc'[d].msg = proc[d].msg
  BY <1>b DEF Finish, Typed, DoorTypeOK, Delivery
<1>1. CASE ReadThread(d)
  BY <1>1 DEF ReadThread, DeliveryAt, Typed, DoorTypeOK, Delivery
<1>2. CASE AskSorter(d)
  BY <1>2 DEF AskSorter, DeliveryAt, Typed, DoorTypeOK, Delivery
<1>3. CASE \/ Recheck(d) \/ ClaimReply(d) \/ SendAccepted(d) \/ ReleaseClaim(d)
           \/ StoreReplyId(d) \/ StoreReplyEcho(d) \/ SettleAttach(d)
           \/ RecordDutyReply(d) \/ SendRefused(d) \/ Stop(d)
           \/ \E noise \in BOOLEAN : SettleVerdict(d, noise)
  <2>1. d \in InTheDoor
    BY <1>3
       DEF Recheck, ClaimReply, SendAccepted, ReleaseClaim, StoreReplyId, StoreReplyEcho,
           SettleAttach, RecordDutyReply, SendRefused, Stop, SettleVerdict, DeliveryAt, Typed, DoorTypeOK,
           Delivery, DeliveryStep
  <2>2. (\E step : GoesTo(d, step)) \/ (\E c : Finish(d, c))
    BY <1>3
       DEF Recheck, ClaimReply, SendAccepted, ReleaseClaim, StoreReplyId, StoreReplyEcho,
           SettleAttach, RecordDutyReply, SendRefused, Stop, SettleVerdict
  <2> QED BY <1>a, <1>b, <2>1, <2>2
<1> QED BY <1>1, <1>2, <1>3 DEF DoorStep

LEMMA ReceiveMoves ==
  ASSUME Typed, NEW d \in Deliveries, NEW m \in Messages, Receive(d, m)
  PROVE  /\ OthersStay(d) /\ proc[d].pc = "idle"
         /\ proc'[d].msg = m /\ proc'[d].open = Null
         /\ proc'[d].pc = IF Settled(m) THEN "record" ELSE "recheck"
         /\ proc'[d].result = IF Settled(m) THEN message[m].call ELSE Null
<1>1. proc[d].pc = "idle"
  BY DEF Receive, NextAttempt, Unused
<1>2. CASE Settled(m)
  <2>1. proc' = [proc EXCEPT ![d] =
                   [NoDelivery EXCEPT !.pc = "record", !.msg = m, !.result = message[m].call]]
    BY <1>2 DEF Receive
  <2> QED BY <1>1, <1>2, <2>1 DEF OthersStay, NoDelivery, Typed, DoorTypeOK
<1>3. CASE ~Settled(m)
  <2>1. proc' = [proc EXCEPT ![d] = [NoDelivery EXCEPT !.pc = "recheck", !.msg = m]]
    BY <1>3 DEF Receive
  <2> QED BY <1>1, <1>3, <2>1 DEF OthersStay, NoDelivery, Typed, DoorTypeOK
<1> QED BY <1>2, <1>3

LEMMA NextMoves ==
  ASSUME Typed, [DoorNext]_doorVars
  PROVE  \/ UNCHANGED proc
         \/ \E d \in Deliveries :
              \/ Moves(d)
              \/ \E m \in Messages : Receive(d, m)
BY DoorMoves
   DEF DoorNext, ReceiveEcho, OpenElsewhere, CloseCall, ReturnCall, RestoreCall, FlagByHand, ClearFlag,
       DuplicateCall, RescueNoise, doorVars, besideCalls

LEMMA StaysOneAtATime ==
  ASSUME Typed, [DoorNext]_doorVars, MaxInHand <= 1, OneAtATime
  PROVE  OneAtATime'
<1>1. CASE UNCHANGED proc
  BY <1>1 DEF OneAtATime, InTheDoor
<1>2. ASSUME NEW d \in Deliveries, Moves(d) PROVE OneAtATime'
  BY <1>2 DEF Moves, OthersStay, OneAtATime, InTheDoor
<1>3. ASSUME NEW d \in Deliveries, NEW m \in Messages, Receive(d, m) PROVE OneAtATime'
  <2>1. InTheDoor = {}
    BY <1>3, NobodyInHand DEF Receive
  <2>2. OthersStay(d)
    BY <1>3, ReceiveMoves
  <2> QED BY <2>1, <2>2 DEF OthersStay, OneAtATime, InTheDoor
<1> QED BY <1>1, <1>2, <1>3, NextMoves

\* The calls as a step leaves them.
LEMMA OpenCallsHoldMail ==
  ASSUME IInv, [DoorNext]_doorVars, "return" \notin Office, NoneReturned, OpenHoldsMail
  PROVE  NoneReturned' /\ OpenHoldsMail'
<1> USE DEF IInv, Typed, DoorTypeOK, NoneReturned, OpenHoldsMail, IsOpen
<1>0. StepCases
  BY NextCases
<1>1. CASE SameCalls /\ \A m \in Messages : message'[m].call = message[m].call
  BY <1>1 DEF SameCalls
<1>2. CASE NothingMoves \/ \E m \in Messages : Stores(m) \/ Filters(m)
  BY <1>1, <1>2 DEF NothingMoves, Stays, Stores, Filters, MessageRow
<1>3. ASSUME NEW m \in Messages, NEW c \in Calls, Attaches(m, c)
      PROVE  NoneReturned' /\ OpenHoldsMail'
  <2>1. /\ \A x \in Calls : /\ calls'[x].state = calls[x].state
                            /\ calls'[x].returned = calls[x].returned
        /\ UNCHANGED opener
    BY <1>3 DEF Attaches, FlaggedByTerms, CallRow
  <2>2. /\ message[m].call = Null
        /\ \A x \in Messages : message'[x].call = IF x = m THEN c ELSE message[x].call
    BY <1>3 DEF Attaches, InTheHold, Settled, MessageRow
  <2> QED BY <2>1, <2>2, NullAssumption
<1>4. ASSUME NEW m \in Messages, NEW c \in Calls, Opens(m, c)
      PROVE  NoneReturned' /\ OpenHoldsMail'
  <2>1. \A x \in Calls : x # c => calls'[x] = calls[x] /\ opener'[x] = opener[x]
    BY <1>4 DEF Opens
  <2>2. ~calls'[c].returned
    BY <1>4 DEF Opens, OpenedCall, NoCall
  <2>3. /\ message[m].call = Null
        /\ \A x \in Messages : message'[x].call = IF x = m THEN c ELSE message[x].call
    BY <1>4 DEF Opens, InTheHold, Settled, Filtered, MessageRow
  <2> QED BY <2>1, <2>2, <2>3, NullAssumption
<1>5. ASSUME NEW c \in Calls, CloseCall(c) PROVE NoneReturned' /\ OpenHoldsMail'
  BY <1>5 DEF CloseCall, besideCalls, CallRow
<1>6. ASSUME NEW c \in Calls, NEW other \in Calls, DuplicateCall(c, other)
      PROVE  NoneReturned' /\ OpenHoldsMail'
  <2>1. /\ calls'[c].state = "closed" /\ ~calls'[c].returned
        /\ \A x \in Calls : x # c => calls'[x] = calls[x]
        /\ opener' = opener
    BY <1>6 DEF DuplicateCall, Attachable, CallRow
  <2>2. \A x \in Messages :
          message'[x].call = IF message[x].call = c THEN other ELSE message[x].call
    BY <1>6 DEF DuplicateCall, MessageRow
  <2> QED BY <2>1, <2>2
<1>7. ASSUME NEW c \in Calls, ReturnCall(c) \/ RestoreCall(c) PROVE FALSE
  BY <1>7 DEF ReturnCall, RestoreCall
<1>8. ASSUME NEW c \in Calls, OpensElsewhere(c) PROVE NoneReturned' /\ OpenHoldsMail'
  <2>1. /\ ~calls'[c].returned /\ opener[c] = Null
        /\ \A x \in Calls : x # c => calls'[x] = calls[x]
        /\ UNCHANGED <<message, opener>>
    BY <1>8 DEF OpensElsewhere, OpenElsewhere, OpenedCall, NoCall, CallsExist, besideCalls
  <2> QED BY <2>1
<1> QED BY <1>0, <1>2, <1>3, <1>4, <1>5, <1>6, <1>7, <1>8 DEF StepCases

\* What was rescued stays rescued.
LEMMA RescuedStays == IInv /\ [DoorNext]_doorVars /\ Rescued => Rescued'
<1> SUFFICES ASSUME IInv, [DoorNext]_doorVars, Rescued PROVE Rescued'
  OBVIOUS
<1>1. PICK m \in Messages : LabelledNoise(m) /\ message[m].call # Null
  BY DEF Rescued
<1>2. KeepsSettled /\ message'[m] \in MessageRow
  BY NextIsOrderly, NextTyped DEF StepIsOrderly, IInv, Typed, DoorTypeOK
<1>3. message'[m].label = "noise" /\ message'[m].call # Null
  BY <1>1, <1>2, NullAssumption DEF KeepsSettled, LabelledNoise, MessageRow
<1> QED BY <1>3 DEF Rescued, LabelledNoise

\* What was merged elsewhere stays so.
LEMMA MergedStays == IInv /\ [DoorNext]_doorVars /\ MergedElsewhere => MergedElsewhere'
<1> SUFFICES ASSUME IInv, [DoorNext]_doorVars, MergedElsewhere PROVE MergedElsewhere'
  OBVIOUS
<1>1. PICK c \in Calls : calls[c].duplicateOf # Null /\ opener[calls[c].duplicateOf] = Null
  BY DEF MergedElsewhere
<1>2. RowsStay
  BY NextCases, NextTyped, CallsStayThere DEF IInv
<1>3. calls[c].duplicateOf \in Calls /\ calls[c].state = "closed"
      /\ calls[calls[c].duplicateOf].state # "none"
  BY <1>1 DEF IInv, CallsExist, Typed, DoorTypeOK, CallRow
<1> QED BY <1>1, <1>2, <1>3 DEF RowsStay, MergedElsewhere

OwnNext(c) == opener'[c] # Null

LEMMA OwnStays ==
  ASSUME IInv, [DoorNext]_doorVars, NEW c \in Calls, Own(c)
  PROVE  OwnNext(c)
<1>1. RowsStay
  BY NextCases, NextTyped, CallsStayThere DEF IInv
<1> QED BY <1>1 DEF RowsStay, Own, OwnNext, IInv, CallsExist

\* The thread is read from what the conversation holds.
LEMMA ThreadIsOwn ==
  ASSUME OnOwnCalls
  PROVE  \A c \in OpenOnThread : IsOpen(c)
BY NullAssumption DEF OnOwnCalls, OpenOnThread, ThreadCalls, Attachable, IsOpen, Own

LEMMA NextOnOwnCalls ==
  ASSUME IInv, [DoorNext]_doorVars, ~MergedElsewhere', OnOwnCalls
  PROVE  OnOwnCalls'
<1> USE DEF IInv, Typed, DoorTypeOK
<1>0. /\ \A m \in Messages : message[m].call \in Calls \cup {Null}
      /\ \A d \in Deliveries : /\ proc[d].open \in Calls \cup {Null}
                               /\ proc[d].result \in Calls \cup {Null}
  BY DEF MessageRow, Delivery
<1>1. \A c \in Calls : Own(c) => OwnNext(c)
  BY OwnStays
<1> DEFINE Mail == \A m \in Messages : message'[m].call \in Calls => OwnNext(message'[m].call)
           Echoes == \A d \in Deliveries : echo'[d] \in Calls => OwnNext(echo'[d])
           Held == \A d \in Deliveries :
                     /\ proc'[d].open \in Calls => OwnNext(proc'[d].open)
                     /\ proc'[d].result \in Calls => OwnNext(proc'[d].result)
<1>2. ASSUME Mail, Echoes, Held PROVE OnOwnCalls'
  <2>1. Typed'
    BY NextTyped
  <2> QED BY <1>2, <2>1 DEF OnOwnCalls, Own, OwnNext, MessageRow, Delivery
<1>m. ASSUME \A m \in Messages : message'[m].call = message[m].call PROVE Mail
  BY <1>m, <1>0, <1>1, NullAssumption DEF OnOwnCalls
<1>e. ASSUME UNCHANGED echo PROVE Echoes
  BY <1>e, <1>1 DEF OnOwnCalls
<1>h. ASSUME UNCHANGED proc PROVE Held
  BY <1>h, <1>0, <1>1, NullAssumption DEF OnOwnCalls
<1>g. ASSUME NEW d \in Deliveries, NEW step, GoesTo(d, step) PROVE Held
  <2>1. \A x \in Deliveries : proc'[x].open = proc[x].open /\ proc'[x].result = proc[x].result
    BY <1>g DEF GoesTo, Delivery
  <2> QED BY <2>1, <1>0, <1>1, NullAssumption DEF OnOwnCalls
<1>f. ASSUME NEW d \in Deliveries, NEW r, Finish(d, r), r \in Calls => OwnNext(r) PROVE Held
  <2>1. \A x \in Deliveries : /\ proc'[x].open = proc[x].open
                              /\ proc'[x].result = IF x = d THEN r ELSE proc[x].result
    BY <1>f DEF Finish, Delivery
  <2> QED BY <2>1, <1>f, <1>0, <1>1, NullAssumption DEF OnOwnCalls
<1>s. \A m \in Messages : message[m].call \in Calls => OwnNext(message[m].call)
  BY <1>1, NullAssumption DEF OnOwnCalls
<1>t. \A open \in ThreadOpen : open \in Calls => OwnNext(open)
  <2>1. \A open \in ThreadOpen : open \in Calls => open \in OpenOnThread
    BY NullAssumption DEF ThreadOpen, Newest
  <2> QED BY <2>1, <1>1, ThreadIsOwn DEF IsOpen, Own
<1> HIDE DEF Mail, Echoes, Held
<1>3. ASSUME NEW d \in Deliveries, NEW m \in Messages, Receive(d, m) PROVE OnOwnCalls'
  <2>1. Held
    <3>1. /\ OthersStay(d) /\ proc'[d].open = Null
          /\ proc'[d].result \in {message[m].call, Null}
      BY <1>3, ReceiveMoves
    <3> QED BY <3>1, <1>0, <1>1, <1>s, NullAssumption DEF Held, OthersStay, OnOwnCalls
  <2>2. Mail
    <3>1. \A x \in Messages : message'[x].call = message[x].call
      BY <1>3 DEF Receive, MessageRow
    <3> QED BY <3>1, <1>m
  <2> QED BY <1>2, <1>3, <1>e, <2>1, <2>2 DEF Receive
<1>4. ASSUME NEW d \in Deliveries, Recheck(d) PROVE OnOwnCalls'
  <2>1. proc[d].msg \in Messages
    BY <1>4 DEF Recheck, DeliveryAt, CarriesAMessage
  <2> QED BY <1>4, <1>2, <1>m, <1>e, <1>f, <1>g, <1>s, <2>1 DEF Recheck
<1>5. ASSUME NEW d \in Deliveries, ReadThread(d) PROVE OnOwnCalls'
  <2>1. PICK open \in ThreadOpen :
          /\ proc'[d].open = open /\ proc'[d].result = proc[d].result
          /\ OthersStay(d)
    BY <1>5 DEF ReadThread, Delivery, OthersStay
  <2>2. Held
    BY <2>1, <1>0, <1>1, <1>t, NullAssumption DEF Held, OthersStay, OnOwnCalls
  <2> QED BY <1>5, <1>2, <1>m, <1>e, <2>2 DEF ReadThread
<1>6. ASSUME NEW d \in Deliveries,
             \/ ClaimReply(d) \/ SendAccepted(d) \/ SendRefused(d) \/ ReleaseClaim(d)
             \/ StoreReplyId(d) \/ Stop(d)
      PROVE  OnOwnCalls'
  <2>1. \A m \in Messages : message'[m].call = message[m].call
    BY <1>6 DEF ClaimReply, SendAccepted, SendRefused, ReleaseClaim, StoreReplyId, Stop, MessageRow
  <2>2. (\E step : GoesTo(d, step)) /\ UNCHANGED echo
    BY <1>6 DEF ClaimReply, SendAccepted, SendRefused, ReleaseClaim, StoreReplyId, Stop
  <2> QED BY <1>2, <1>m, <1>e, <1>g, <2>1, <2>2
<1>7. ASSUME NEW d \in Deliveries, StoreReplyEcho(d) PROVE OnOwnCalls'
  <2>1. Echoes
    <3>1. echo' = echo \/ echo' = [echo EXCEPT ![d] = proc[d].open]
          \/ echo' = [echo EXCEPT ![d] = "unlinked"]
      BY <1>7 DEF StoreReplyEcho
    <3>2. \A x \in Deliveries : echo'[x] \in {echo[x], "unlinked", proc[d].open}
      BY <3>1
    <3> QED BY <3>2, <1>0, <1>1, CallsAssumption, NullAssumption DEF Echoes, OnOwnCalls
  <2> QED BY <1>7, <1>2, <1>m, <1>g, <2>1 DEF StoreReplyEcho
<1>8. ASSUME NEW d \in Deliveries, SettleAttach(d) PROVE OnOwnCalls'
  <2>1. proc[d].msg \in Messages /\ proc[d].open \in Calls /\ OwnNext(proc[d].open)
    BY <1>8, <1>0, <1>1, NullAssumption
       DEF SettleAttach, DeliveryAt, CarriesAMessage, OnOwnCalls
  <2>2. CASE UNCHANGED message
    BY <1>8, <1>2, <1>m, <1>e, <1>f, <1>g, <1>s, <2>1, <2>2 DEF SettleAttach
  <2>3. CASE message' = [message EXCEPT ![proc[d].msg].call = proc[d].open]
    <3>1. Mail
      <4>1. \A x \in Messages : message'[x].call \in {message[x].call, proc[d].open}
        BY <2>1, <2>3 DEF MessageRow
      <4> QED BY <4>1, <1>s, <2>1 DEF Mail
    <3> QED BY <1>8, <1>2, <1>e, <1>f, <1>g, <1>s, <2>1, <3>1 DEF SettleAttach
  <2> QED BY <1>8, <2>2, <2>3 DEF SettleAttach
<1>9. ASSUME NEW d \in Deliveries, AskSorter(d) PROVE OnOwnCalls'
  <2>1. \A x \in Deliveries : proc'[x].open = proc[x].open /\ proc'[x].result = proc[x].result
    BY <1>9 DEF AskSorter, Delivery
  <2>2. Held
    BY <2>1, <1>0, <1>1, NullAssumption DEF Held, OnOwnCalls
  <2> QED BY <1>9, <1>2, <1>m, <1>e, <2>2 DEF AskSorter
<1>10. ASSUME NEW d \in Deliveries, NEW noise \in BOOLEAN, SettleVerdict(d, noise)
       PROVE  OnOwnCalls'
  <2>1. proc[d].msg \in Messages
    BY <1>10 DEF SettleVerdict, DeliveryAt, CarriesAMessage
  <2>2. CASE \A x \in Messages : message'[x].call = message[x].call
    <3>1. Settled(proc[d].msg) \/ (noise /\ ~Matches(proc[d].msg))
      <4> SUFFICES ASSUME ~Settled(proc[d].msg), ~(noise /\ ~Matches(proc[d].msg)) PROVE FALSE
        OBVIOUS
      <4>1. PICK c \in Calls : message' = [message EXCEPT ![proc[d].msg].call = c]
        BY <1>10 DEF SettleVerdict
      <4>2. message'[proc[d].msg].call = c /\ message[proc[d].msg].call = Null
        BY <2>1, <4>1 DEF Settled, MessageRow
      <4> QED BY <2>1, <2>2, <4>2, NullAssumption
    <3>2. \E r : Finish(d, r) /\ (r \in Calls => OwnNext(r))
      BY <1>10, <1>s, <2>1, <3>1, NullAssumption DEF SettleVerdict
    <3> QED BY <1>10, <1>2, <1>m, <1>e, <1>f, <2>2, <3>2 DEF SettleVerdict
  <2>3. CASE \E c \in Calls :
               /\ message' = [message EXCEPT ![proc[d].msg].call = c]
               /\ opener' = [opener EXCEPT ![c] = proc[d].msg]
               /\ Finish(d, c)
    <3>1. PICK c \in Calls :
               /\ message' = [message EXCEPT ![proc[d].msg].call = c]
               /\ opener' = [opener EXCEPT ![c] = proc[d].msg]
               /\ Finish(d, c)
      BY <2>3
    <3>2. OwnNext(c)
      BY <2>1, <3>1, NullAssumption DEF OwnNext
    <3>3. Mail
      <4>1. \A x \in Messages : message'[x].call \in {message[x].call, c}
        BY <2>1, <3>1 DEF MessageRow
      <4> QED BY <4>1, <1>s, <3>2 DEF Mail
    <3> QED BY <1>10, <1>2, <1>e, <1>f, <3>1, <3>2, <3>3 DEF SettleVerdict
  <2>4. CASE UNCHANGED message
    BY <2>2, <2>4
  <2>5. CASE message' = [message EXCEPT ![proc[d].msg].label = "noise"]
    <3>1. \A x \in Messages : message'[x].call = message[x].call
      BY <2>5 DEF MessageRow
    <3> QED BY <2>2, <3>1
  <2> QED BY <1>10, <2>3, <2>4, <2>5 DEF SettleVerdict
<1>11. ASSUME NEW d \in Deliveries, RecordDutyReply(d) PROVE OnOwnCalls'
  <2>1. Echoes
    <3>1. \A x \in Deliveries : echo'[x] \in {echo[x], proc[d].result}
      BY <1>11 DEF RecordDutyReply
    <3> QED BY <3>1, <1>0, <1>1, NullAssumption DEF Echoes, OnOwnCalls
  <2> QED BY <1>11, <1>2, <1>m, <1>g, <2>1 DEF RecordDutyReply
<1>12. ASSUME NEW d \in Deliveries, ReceiveEcho(d) PROVE OnOwnCalls'
  <2>1. Echoes
    <3>1. PICK open \in ThreadOpen :
            echo' = [echo EXCEPT ![d] = IF open = Null THEN "unlinked" ELSE open]
      BY <1>12 DEF ReceiveEcho
    <3>2. \A x \in Deliveries : echo'[x] \in {echo[x], "unlinked", open}
      BY <3>1
    <3> QED BY <3>2, <1>1, <1>t, CallsAssumption DEF Echoes, OnOwnCalls
  <2> QED BY <1>12, <1>2, <1>m, <1>h, <2>1 DEF ReceiveEcho
<1>13. ASSUME NEW c \in Calls, NEW other \in Calls, DuplicateCall(c, other)
       PROVE  OnOwnCalls'
  <2>1. OwnNext(other)
    <3>1. calls'[c].duplicateOf = other /\ other # Null
      BY <1>13, NullAssumption DEF DuplicateCall, CallRow
    <3> QED BY <3>1 DEF MergedElsewhere, OwnNext
  <2>2. Mail
    <3>1. \A x \in Messages : message'[x].call \in {message[x].call, other}
      BY <1>13 DEF DuplicateCall, MessageRow
    <3> QED BY <3>1, <1>s, <2>1 DEF Mail
  <2>3. Echoes
    <3>1. \A x \in Deliveries : echo'[x] \in {echo[x], other}
      BY <1>13 DEF DuplicateCall
    <3> QED BY <3>1, <1>1, <2>1 DEF Echoes, OnOwnCalls
  <2> QED BY <1>13, <1>2, <1>h, <2>2, <2>3 DEF DuplicateCall
<1>14. ASSUME NEW m \in Messages, RescueNoise(m) PROVE OnOwnCalls'
  <2>1. PICK c \in Calls :
          message' = [message EXCEPT ![m].call = c] /\ opener' = [opener EXCEPT ![c] = m]
    BY <1>14 DEF RescueNoise
  <2>2. OwnNext(c)
    BY <2>1, NullAssumption DEF OwnNext
  <2>3. Mail
    <3>1. \A x \in Messages : message'[x].call \in {message[x].call, c}
      BY <2>1 DEF MessageRow
    <3> QED BY <3>1, <1>s, <2>2 DEF Mail
  <2> QED BY <1>14, <1>2, <1>e, <1>h, <2>3 DEF RescueNoise
<1>15. ASSUME NEW c \in Calls,
              \/ CloseCall(c) \/ ReturnCall(c) \/ RestoreCall(c)
              \/ FlagByHand(c) \/ ClearFlag(c)
              \/ \E byTerms, answered \in BOOLEAN : OpenElsewhere(c, byTerms, answered)
       PROVE  OnOwnCalls'
  BY <1>15, <1>2, <1>m, <1>e, <1>h
     DEF CloseCall, ReturnCall, RestoreCall, FlagByHand, ClearFlag, OpenElsewhere, besideCalls
<1>16. CASE UNCHANGED doorVars
  BY <1>16, <1>2, <1>m, <1>e, <1>h DEF doorVars, besideCalls
<1> QED
  BY <1>3, <1>4, <1>5, <1>6, <1>7, <1>8, <1>9, <1>10, <1>11, <1>12, <1>13, <1>14, <1>15, <1>16
     DEF DoorNext, DoorStep

OnlyCloses == \A c \in Calls : IsOpen(c)' => IsOpen(c)

\* A delivery whose step opens no call needs only to know where it goes.
LEMMA KeepsKnowing ==
  ASSUME Typed, NEW d \in Deliveries, OthersStay(d), OnlyCloses,
         OneOpen, KnowsTheOpenCall,
         proc'[d].pc \in Asking => \A c \in Calls : IsOpen(c)' => c = proc'[d].open,
         proc'[d].pc \in {"sort", "settle"} => \A c \in Calls : ~IsOpen(c)'
  PROVE  OneOpen' /\ KnowsTheOpenCall'
BY DEF OthersStay, OnlyCloses, OneOpen, KnowsTheOpenCall

\* The steps of a delivery that settle nothing leave every call as it was.
LEMMA DoorKnows ==
  ASSUME IInv, NEW d \in Deliveries, DoorStep(d), OneAtATime, NoneReturned,
         OpenHoldsMail, OnOwnCalls, OneOpen, KnowsTheOpenCall
  PROVE  OneOpen' /\ KnowsTheOpenCall'
<1> DEFINE m == proc[d].msg
           c == proc[d].open
<1> USE DEF IInv, Typed
<1>0. /\ OthersStay(d) /\ proc[d].pc # "idle" /\ m \in Messages
      /\ c \in Calls \cup {Null} /\ (DeliveryAt(d, "attach") => c \in Calls)
  BY DoorMoves DEF Moves, InTheDoor, DoorTypeOK, CarriesAMessage, Delivery, DeliveryAt
<1>a. ASSUME UNCHANGED <<calls, opener>> PROVE OnlyCloses
  BY <1>a DEF OnlyCloses, IsOpen
<1>b. ASSUME NEW step, GoesTo(d, step) PROVE proc'[d].pc = step /\ proc'[d].open = c
  BY <1>b DEF GoesTo, DoorTypeOK, Delivery
<1>c. ASSUME NEW r, Finish(d, r) PROVE proc'[d].pc = "record"
  BY <1>c DEF Finish, DoorTypeOK, Delivery
<1>d. ASSUME NEW r, Finish(d, r), OnlyCloses PROVE OneOpen' /\ KnowsTheOpenCall'
  BY <1>0, <1>c, <1>d, KeepsKnowing DEF Asking
<1>e. ASSUME proc[d].pc \in Asking, OnlyCloses,
             GoesTo(d, NextAfterReply(c)) \/ \E step \in Asking : GoesTo(d, step)
      PROVE  OneOpen' /\ KnowsTheOpenCall'
  <2>1. \A k \in Calls : IsOpen(k) => k = c
    BY <1>e DEF KnowsTheOpenCall
  <2>2. CASE \E step \in Asking : GoesTo(d, step)
    BY <1>0, <1>b, <1>e, <2>1, <2>2, KeepsKnowing DEF OnlyCloses, Asking
  <2>3. CASE GoesTo(d, NextAfterReply(c))
    BY <1>0, <1>b, <1>e, <2>1, <2>3, KeepsKnowing, NullAssumption
       DEF OnlyCloses, Asking, NextAfterReply
  <2> QED BY <1>e, <2>2, <2>3
<1>1. CASE Recheck(d)
  <2>1. OnlyCloses
    BY <1>1, <1>a DEF Recheck
  <2>2. CASE GoesTo(d, "thread")
    BY <1>0, <1>b, <2>1, <2>2, KeepsKnowing DEF Asking
  <2> QED BY <1>1, <1>d, <2>1, <2>2 DEF Recheck
<1>2. CASE ReadThread(d)
  <2>1. PICK open \in ThreadOpen :
          /\ proc'[d].open = open
          /\ proc'[d].pc = IF Matches(m) THEN "claim" ELSE NextAfterReply(open)
    BY <1>2 DEF ReadThread, DoorTypeOK, Delivery
  <2>2. OnlyCloses
    BY <1>2, <1>a DEF ReadThread
  <2>3. \A k \in Calls : IsOpen(k) => k = open
    <3> SUFFICES ASSUME NEW k \in Calls, IsOpen(k) PROVE k = open
      OBVIOUS
    <3>1. k \in OpenOnThread
      BY DEF OpenOnThread, ThreadCalls, Attachable, IsOpen, NoneReturned, OpenHoldsMail
    <3>2. open \in OpenOnThread
      BY <2>1, <3>1 DEF ThreadOpen, Newest
    <3> QED BY <3>2, ThreadIsOwn DEF OneOpen, OpenOnThread
  <2> QED
    BY <1>0, <2>1, <2>2, <2>3, KeepsKnowing, NullAssumption
       DEF Asking, NextAfterReply, OnlyCloses
<1>3. CASE ClaimReply(d)
  <2>1. OnlyCloses
    BY <1>0, <1>3 DEF ClaimReply, OnlyCloses, IsOpen, DoorTypeOK, CallRow
  <2> QED BY <1>3, <1>e, <2>1 DEF ClaimReply, DeliveryAt, Asking
<1>4. CASE SendAccepted(d)
  BY <1>4, <1>a, <1>e DEF SendAccepted, DeliveryAt, Asking
<1>5. CASE ReleaseClaim(d)
  <2>1. OnlyCloses
    BY <1>0, <1>5 DEF ReleaseClaim, ReleasedMarks, OnlyCloses, IsOpen, DoorTypeOK, CallRow
  <2> QED BY <1>0, <1>5, <1>b, <2>1, KeepsKnowing DEF ReleaseClaim, Asking
<1>6. CASE StoreReplyId(d)
  BY <1>6, <1>a, <1>e DEF StoreReplyId, DeliveryAt, Asking
<1>7. CASE StoreReplyEcho(d)
  BY <1>7, <1>a, <1>e DEF StoreReplyEcho, DeliveryAt, Asking
<1>8. CASE SettleAttach(d)
  <2>0. DeliveryAt(d, "attach") /\ c \in Calls
    BY <1>0, <1>8 DEF SettleAttach
  <2>1. CASE Settled(m)
    BY <1>8, <1>a, <1>d, <2>1 DEF SettleAttach
  <2>2. CASE ~Settled(m) /\ Attachable(c)
    <3>1. OnlyCloses
      BY <1>8, <2>0, <2>2 DEF SettleAttach, FlaggedByTerms, OnlyCloses, IsOpen, DoorTypeOK, CallRow
    <3> QED BY <1>8, <1>d, <2>2, <3>1 DEF SettleAttach
  <2>3. CASE ~Settled(m) /\ ~Attachable(c)
    <3>1. UNCHANGED <<calls, opener>> /\ GoesTo(d, "sort")
      BY <1>8, <2>3 DEF SettleAttach
    <3>2. \A k \in Calls : ~IsOpen(k)'
      BY <2>0, <2>3, <3>1
         DEF KnowsTheOpenCall, DeliveryAt, Asking, IsOpen, Attachable, NoneReturned
    <3> QED BY <1>0, <1>a, <1>b, <3>1, <3>2, KeepsKnowing DEF Asking
  <2> QED BY <2>1, <2>2, <2>3
<1>9. CASE AskSorter(d)
  <2>1. UNCHANGED <<calls, opener>> /\ proc'[d].pc = "settle"
    BY <1>9 DEF AskSorter, DoorTypeOK, Delivery
  <2>2. \A k \in Calls : ~IsOpen(k)'
    BY <1>9, <2>1 DEF AskSorter, DeliveryAt, KnowsTheOpenCall, IsOpen
  <2> QED BY <1>0, <1>a, <2>1, <2>2, KeepsKnowing DEF Asking
<1>10. CASE RecordDutyReply(d)
  <2>1. OnlyCloses
    BY <1>10 DEF RecordDutyReply, OnlyCloses, IsOpen, DoorTypeOK, Delivery, CallRow
  <2> QED BY <1>0, <1>10, <1>b, <2>1, KeepsKnowing DEF RecordDutyReply, Asking
<1>11. ASSUME NEW noise \in BOOLEAN, SettleVerdict(d, noise) PROVE OneOpen' /\ KnowsTheOpenCall'
  <2>1. CASE UNCHANGED <<calls, opener>>
    BY <1>11, <1>a, <1>d, <2>1 DEF SettleVerdict
  <2>2. CASE \E k \in Calls :
               /\ calls' = [calls EXCEPT ![k] = OpenedCall(proc[d].pred, Matches(m))]
               /\ opener' = [opener EXCEPT ![k] = m]
               /\ Finish(d, k)
    <3>1. PICK k \in Calls :
            /\ calls' = [calls EXCEPT ![k] = OpenedCall(proc[d].pred, Matches(m))]
            /\ opener' = [opener EXCEPT ![k] = m]
            /\ Finish(d, k)
      BY <2>2
    <3>2. \A x \in Calls : x # k => ~IsOpen(x)'
      BY <1>11, <3>1 DEF SettleVerdict, DeliveryAt, KnowsTheOpenCall, IsOpen, DoorTypeOK
    <3>3. \A x \in Deliveries : proc'[x].pc \notin Asking \cup {"sort", "settle"}
      BY <1>0, <1>11, <1>c, <3>1
         DEF SettleVerdict, DeliveryAt, OthersStay, OneAtATime, InTheDoor, Asking
    <3> QED BY <3>2, <3>3 DEF OneOpen, KnowsTheOpenCall
  <2> QED BY <1>11, <2>1, <2>2 DEF SettleVerdict
<1> QED
  BY <1>1, <1>2, <1>3, <1>4, <1>5, <1>6, <1>7, <1>8, <1>9, <1>10, <1>11 DEF DoorStep

LEMMA NextThreadInv ==
  ASSUME IInv, [DoorNext]_doorVars, MaxInHand <= 1, "return" \notin Office, ThreadInv
  PROVE  ThreadInv'
<1>1. OneAtATime' /\ NoneReturned' /\ OpenHoldsMail'
  BY StaysOneAtATime, OpenCallsHoldMail DEF ThreadInv, IInv
<1>3. ASSUME ~MergedElsewhere' PROVE OnOwnCalls'
  BY <1>3, MergedStays, NextOnOwnCalls DEF ThreadInv
<1>2. ASSUME ~Rescued', ~MergedElsewhere' PROVE OneOpen' /\ KnowsTheOpenCall'
  <2>0. /\ Typed /\ OneOpen /\ KnowsTheOpenCall /\ OneAtATime /\ NoneReturned /\ OpenHoldsMail
        /\ OnOwnCalls /\ CallsExist
    BY <1>2, RescuedStays, MergedStays DEF ThreadInv, IInv
  <2>a. ASSUME UNCHANGED proc, OnlyCloses PROVE OneOpen' /\ KnowsTheOpenCall'
    BY <2>0, <2>a DEF OnlyCloses, OneOpen, KnowsTheOpenCall, IsOpen
  <2>b. ASSUME UNCHANGED <<calls, opener>> PROVE OnlyCloses
    BY <2>b DEF OnlyCloses, IsOpen
  <2>1. ASSUME NEW d \in Deliveries, NEW m \in Messages, Receive(d, m)
        PROVE  OneOpen' /\ KnowsTheOpenCall'
    BY <2>0, <2>1, <2>b, ReceiveMoves, KeepsKnowing DEF Receive, Asking
  <2>2. ASSUME NEW d \in Deliveries, DoorStep(d) PROVE OneOpen' /\ KnowsTheOpenCall'
    BY <2>0, <2>2, DoorKnows
  <2>3. ASSUME NEW d \in Deliveries, SendRefused(d) PROVE OneOpen' /\ KnowsTheOpenCall'
    <3>1. DeliveryAt(d, "send") /\ proc'[d].pc = "release" /\ proc'[d].open = proc[d].open
      BY <2>0, <2>3 DEF SendRefused, GoesTo, Typed, DoorTypeOK, Delivery
    <3>2. \A c \in Calls : IsOpen(c)' => c = proc'[d].open
      BY <2>0, <2>3, <3>1 DEF SendRefused, DeliveryAt, KnowsTheOpenCall, IsOpen, Asking
    <3> QED BY <2>0, <2>3, <2>b, <3>1, <3>2, DoorMoves, KeepsKnowing DEF SendRefused, Moves
  <2>4. ASSUME NEW d \in Deliveries, Stop(d) PROVE OneOpen' /\ KnowsTheOpenCall'
    <3>1. proc'[d].pc = "failed"
      BY <2>0, <2>4 DEF Stop, GoesTo, Typed, DoorTypeOK, Delivery
    <3> QED
      BY <2>0, <2>4, <2>b, <3>1, DoorMoves, KeepsKnowing DEF Stop, Moves, Asking
  <2>5. ASSUME NEW c \in Calls,
               \/ CloseCall(c) \/ ReturnCall(c) \/ RestoreCall(c)
               \/ FlagByHand(c) \/ ClearFlag(c)
               \/ \E byTerms, answered \in BOOLEAN : OpenElsewhere(c, byTerms, answered)
               \/ \E other \in Calls : DuplicateCall(c, other)
        PROVE  OneOpen' /\ KnowsTheOpenCall'
    <3>1. OnlyCloses
      BY <2>0, <2>5
         DEF CloseCall, ReturnCall, RestoreCall, FlagByHand, ClearFlag, DuplicateCall,
             OpenElsewhere, CallsExist, besideCalls, OnlyCloses, IsOpen, Typed, DoorTypeOK, CallRow
    <3> QED
      BY <2>5, <2>a, <3>1
         DEF OpenElsewhere, CloseCall, ReturnCall, RestoreCall, FlagByHand, ClearFlag, DuplicateCall, besideCalls
  <2>6. ASSUME NEW m \in Messages, RescueNoise(m) PROVE FALSE
    <3>1. PICK c \in Calls : message' = [message EXCEPT ![m].call = c]
      BY <2>6 DEF RescueNoise
    <3>2. message'[m].label = "noise" /\ message'[m].call # Null
      BY <2>0, <2>6, <3>1, NullAssumption DEF RescueNoise, Filtered, Typed, DoorTypeOK, MessageRow
    <3> QED BY <1>2, <3>2 DEF Rescued, LabelledNoise
  <2>7. CASE UNCHANGED <<proc, calls, opener>>
    BY <2>7, <2>a, <2>b
  <2> QED
    BY <2>1, <2>2, <2>3, <2>4, <2>5, <2>6, <2>7 DEF DoorNext, ReceiveEcho, doorVars, besideCalls
<1> QED BY <1>1, <1>2, <1>3 DEF ThreadInv

(* Where deliveries come one at a time, a thread that knew no rescue, no   *)
(* return to the office's manager and no merge into a call opened          *)
(* elsewhere has one open call, wherever a delivery stops and whatever the *)
(* office closes, or merges within the conversation, between its steps.    *)
THEOREM ThreadsKeepOneCall == DoorSpec => []OneThreadOneCall
<1> DEFINE Sequential == MaxInHand <= 1 /\ "return" \notin Office
           H == IInv /\ (Sequential => ThreadInv)
<1>1. DoorInit => H
  <2> SUFFICES ASSUME DoorInit PROVE ThreadInv
    BY InitIInv
  <2>1. InTheDoor = {} /\ \A c \in Calls : ~IsOpen(c) /\ ~calls[c].returned
    BY DEF DoorInit, InTheDoor, NoDelivery, IsOpen, NoCall
  <2>2. \A d \in Deliveries : proc[d].pc = "idle"
    BY DEF DoorInit, NoDelivery
  <2>3. OnOwnCalls
    <3>1. /\ \A d \in Deliveries : /\ echo[d] = "absent"
                                   /\ proc[d].open = Null /\ proc[d].result = Null
          /\ \A m \in Messages : message[m].call = Null
      BY DEF DoorInit, NoDelivery
    <3> QED BY <3>1, CallsAssumption DEF OnOwnCalls
  <2> QED
    BY <2>1, <2>2, <2>3
       DEF ThreadInv, OneAtATime, NoneReturned, OpenHoldsMail, OneOpen, KnowsTheOpenCall, Asking,
           OnOwnCalls
<1>2. H /\ [DoorNext]_doorVars => H'
  BY NextIInv, NextThreadInv
<1>3. H => OneThreadOneCall
  <2> SUFFICES ASSUME H, Sequential, ~Rescued, ~MergedElsewhere
               PROVE  Cardinality(OpenOnThread) <= 1
    BY DEF OneThreadOneCall, OneOpenCallPerThread
  <2>1. \A c, e \in OpenOnThread : c = e
    BY ThreadIsOwn DEF ThreadInv, OneOpen, OpenOnThread
  <2>2. CASE OpenOnThread = {}
    BY <2>2, FS_EmptySet
  <2>3. CASE OpenOnThread # {}
    <3>1. PICK c \in OpenOnThread : TRUE
      BY <2>3
    <3>2. OpenOnThread = {c}
      BY <2>1, <3>1
    <3> QED BY <3>2, FS_Singleton
  <2> QED BY <2>2, <2>3
<1> HIDE DEF H
<1> QED BY <1>1, <1>2, <1>3, PTL DEF DoorSpec

-----------------------------------------------------------------------------
(* One reply for every call that the terms flag, while nothing disturbs    *)
(* the way from the claim of a reply to the message it answers.  The claim *)
(* marks a call; the invariant ties the mark of a call, the reply a        *)
(* message carries and the replies sent to one another at every step of    *)
(* the delivery between them.                                              *)
Underway == {"recheck", "thread", "sort", "settle"} \cup Asking
Claimed == {"send", "release", "storeId", "storeEcho"}

Answered(c) == \E d \in dutySent : message[proc[d].msg].call = c

\* No emergency is filtered, what holds a message is an open call, and the
\* reply a message carries was sent for it.
MailFits(m) ==
  /\ message[m].label # Null => m \notin Emergency
  /\ message[m].call # Null => IsOpen(message[m].call)
  /\ message[m].duty \in Deliveries =>
       message[m].duty \in dutySent /\ proc[message[m].duty].msg = m

\* What a delivery in hand can rely on.  At "attach" an emergency that sent
\* no reply stands before a call that needs none.
InHandFits(d) ==
  LET m == proc[d].msg
      c == proc[d].open
  IN
  /\ proc[d].pc \in Underway => ~Settled(m)
  /\ proc[d].pc \in Asking /\ c # Null => IsOpen(c)
  /\ proc[d].pc \in Claimed \cup {"claim"} => m \in Emergency
  /\ proc[d].pc \in {"send", "release", "storeId"} => message[m].duty = Pending
  /\ proc[d].pc \in Claimed /\ c # Null => calls[c].dutyAt = d
  /\ proc[d].pc \in {"storeId", "storeEcho"} => d \in dutySent
  /\ proc[d].pc = "attach" =>
       /\ d \in dutySent => calls[c].dutyAt = d
       /\ m \in Emergency => d \in dutySent \/ calls[c].flag = "STAFF" \/ Answered(c)
  /\ proc[d].pc \in {"sort", "settle"} =>
       c = Null /\ (m \in Emergency => d \in dutySent)
  /\ proc[d].pc = "record" /\ proc[d].result # Null => message[m].call = proc[d].result

\* A reply that was sent is carried by its message, and the call of that
\* message is marked with it.
SentFits(d) ==
  LET m == proc[d].msg
      c == message[m].call
  IN
  /\ m \in Emergency
  /\ proc[d].pc \in {"storeId", "storeEcho", "attach", "sort", "settle", "record", "done"}
  /\ proc[d].pc # "storeId" => message[m].duty = d
  /\ proc[d].pc \in {"record", "done"} => c # Null
  /\ proc[d].pc = "record" =>
       /\ proc[d].result = c
       /\ calls[c].dutyAt = d \/ (calls[c].dutyAt = Null /\ calls[c].flag = "TERMS")
  /\ proc[d].pc = "done" => calls[c].dutyAt = d

\* A mark is the work of a delivery that still has to answer the call, or of
\* one that did.
MarkedBy(d, c) ==
  \/ proc[d].open = c
     /\ (proc[d].pc \in Claimed \/ (proc[d].pc = "attach" /\ d \in dutySent))
  \/ d \in dutySent /\ message[proc[d].msg].call = c

CallFits(c) ==
  /\ calls[c].dutyAt \in Deliveries => MarkedBy(calls[c].dutyAt, c)
  /\ Own(c) => /\ calls[c].dutyAt # Pending
               /\ calls[c].flag = "TERMS" => Answered(c)

ReplyInv ==
  /\ OneAtATime /\ NoneReturned /\ OnOwnCalls
  /\ \A m \in Messages : MailFits(m)
  /\ \A d \in Deliveries : InHandFits(d)
  /\ \A d \in dutySent : SentFits(d)
  /\ \A c \in Calls : CallFits(c)

\* What a step of delivery d owes the invariant: it writes its own message,
\* its own marks, and rows of calls that hold no message yet.
StepFits(d) ==
  LET m == proc[d].msg IN
  /\ Moves(d)
  /\ dutySent \subseteq dutySent' /\ dutySent' \subseteq dutySent \cup {d}
  /\ \A x \in Messages \ {m} : message'[x] = message[x]
  /\ message[m].call # Null => message'[m].call = message[m].call
  /\ \A e \in Deliveries \ {d} : message[m].duty = e <=> message'[m].duty = e
  /\ \A c \in Calls : IsOpen(c) => IsOpen(c)'
  /\ \A c \in Calls, e \in Deliveries \ {d} :
       /\ IsOpen(c) /\ calls[c].dutyAt = e => calls'[c].dutyAt = e
       /\ calls'[c].dutyAt = e => calls[c].dutyAt = e

StepEnds(d) ==
  /\ \A m \in Messages : m = proc[d].msg => MailFits(m)'
  /\ InHandFits(d)' /\ (d \in dutySent' => SentFits(d)')
  /\ \A c \in Calls :
       /\ calls'[c].dutyAt = d => MarkedBy(d, c)'
       /\ Own(c)' /\ calls'[c].flag = "TERMS" =>
            (Own(c) /\ calls[c].flag = "TERMS") \/ Answered(c)'
       /\ Own(c)' => calls'[c].dutyAt # Pending

LEMMA OthersRest ==
  ASSUME Typed, ReplyInv, NEW d \in InTheDoor
  PROVE  /\ \A x \in Deliveries \ {d} : proc[x].pc \in {"idle", "done", "failed"}
         /\ \A x \in dutySent \ {d} : proc[x].pc = "done"
<1>1. \A x \in Deliveries \ {d} : proc[x].pc \in {"idle", "done", "failed"}
  BY DEF ReplyInv, OneAtATime, InTheDoor
<1> QED BY <1>1 DEF ReplyInv, SentFits, Typed, DoorTypeOK

LEMMA StepKeeps ==
  ASSUME Typed, Typed', ReplyInv, NEW d \in Deliveries, StepFits(d), StepEnds(d)
  PROVE  /\ \A m \in Messages : MailFits(m)'
         /\ \A x \in Deliveries : InHandFits(x)'
         /\ \A x \in dutySent' : SentFits(x)'
         /\ \A c \in Calls : CallFits(c)'
<1>m. PICK m \in Messages : m = proc[d].msg
  BY DEF StepFits, Moves, InTheDoor, Typed, CarriesAMessage
<1>0. /\ d \in InTheDoor /\ proc[d].pc # "idle" /\ m = proc[d].msg
      /\ \A x \in Deliveries \ {d} : proc'[x] = proc[x]
      /\ proc'[d].msg = m
      /\ dutySent \subseteq Deliveries /\ dutySent' \subseteq Deliveries
  BY <1>m DEF StepFits, Moves, OthersStay, InTheDoor, Typed, DoorTypeOK, CarriesAMessage
<1>1. /\ \A x \in Deliveries \ {d} : proc[x].pc \in {"idle", "done", "failed"}
      /\ \A x \in dutySent \ {d} : proc[x].pc = "done"
  BY <1>0, OthersRest
\* A reply sent before is where it was, and its call bears its mark.
<1>2. ASSUME NEW x \in dutySent \ {d}
      PROVE  /\ proc'[x] = proc[x] /\ proc[x].pc = "done"
             /\ proc[x].msg \in Messages /\ proc[x].msg \in Emergency
             /\ message[proc[x].msg].call \in Calls
             /\ message'[proc[x].msg].call = message[proc[x].msg].call
             /\ message[proc[x].msg].duty = x /\ message'[proc[x].msg].duty = x
             /\ calls[message[proc[x].msg].call].dutyAt = x
             /\ calls'[message[proc[x].msg].call].dutyAt = x
  <2>1. /\ proc'[x] = proc[x] /\ proc[x].pc = "done" /\ proc[x].msg \in Messages
        /\ SentFits(x) /\ MailFits(proc[x].msg)
    BY <1>0, <1>1 DEF ReplyInv, Typed, DoorTypeOK, CarriesAMessage
  <2>2. /\ proc[x].msg \in Emergency /\ message[proc[x].msg].duty = x
        /\ message[proc[x].msg].call \in Calls
        /\ calls[message[proc[x].msg].call].dutyAt = x
        /\ IsOpen(message[proc[x].msg].call)
    BY <2>1 DEF SentFits, MailFits, Typed, DoorTypeOK, MessageRow
  <2>3. /\ message'[proc[x].msg].call = message[proc[x].msg].call
        /\ message'[proc[x].msg].duty = x
    BY <1>0, <2>1, <2>2, NullAssumption DEF StepFits
  <2>4. calls'[message[proc[x].msg].call].dutyAt = x
    BY <1>0, <2>2 DEF StepFits
  <2> QED BY <2>1, <2>2, <2>3, <2>4
<1>3. \A c \in Calls : Answered(c) => Answered(c)'
  <2> SUFFICES ASSUME NEW c \in Calls, NEW x \in dutySent, message[proc[x].msg].call = c
               PROVE  Answered(c)'
    BY DEF Answered
  <2>1. x \in dutySent' /\ c # Null
    BY NullAssumption DEF StepFits
  <2>2. CASE x # d
    BY <1>2, <2>1, <2>2 DEF Answered
  <2>3. CASE x = d
    BY <1>0, <2>1, <2>3 DEF Answered, StepFits
  <2> QED BY <2>2, <2>3
<1>4. ASSUME NEW y \in Messages PROVE MailFits(y)'
  <2>1. CASE y = m
    BY <1>0, <2>1 DEF StepEnds
  <2>2. CASE y # m
    <3>1. message'[y] = message[y] /\ MailFits(y)
      BY <1>0, <2>2 DEF StepFits, ReplyInv
    <3>2. message[y].call # Null => IsOpen(message[y].call)'
      BY <3>1 DEF MailFits, StepFits, Typed, DoorTypeOK, MessageRow
    <3>3. ASSUME message[y].duty \in Deliveries
          PROVE  message[y].duty \in dutySent' /\ proc'[message[y].duty].msg = y
      BY <1>0, <2>2, <3>1, <3>3 DEF MailFits, StepFits
    <3> QED BY <3>1, <3>2, <3>3 DEF MailFits, IsOpen
  <2> QED BY <2>1, <2>2
<1>5. ASSUME NEW x \in Deliveries PROVE InHandFits(x)'
  <2>1. CASE x = d
    BY <2>1 DEF StepEnds
  <2>2. CASE x # d
    <3>1. proc'[x].pc \in {"idle", "done", "failed"}
      BY <1>0, <1>1, <2>2
    <3> QED BY <3>1 DEF InHandFits, Underway, Asking, Claimed
  <2> QED BY <2>1, <2>2
<1>6. ASSUME NEW x \in dutySent' PROVE SentFits(x)'
  <2>1. CASE x = d
    BY <2>1 DEF StepEnds
  <2>2. CASE x # d
    <3>1. x \in dutySent \ {d}
      BY <2>2 DEF StepFits
    <3> QED BY <3>1, <1>2, NullAssumption DEF SentFits
  <2> QED BY <2>1, <2>2
<1>7. ASSUME NEW c \in Calls PROVE CallFits(c)'
  <2>1. ASSUME NEW e \in Deliveries, calls'[c].dutyAt = e PROVE MarkedBy(e, c)'
    <3>0. e # Null
      BY NullAssumption
    <3>1. CASE e = d
      BY <2>1, <3>1 DEF StepEnds
    <3>2. CASE e # d
      <4>1. calls[c].dutyAt = e /\ MarkedBy(e, c)
        BY <2>1, <3>0, <3>2 DEF StepFits, ReplyInv, CallFits
      <4>2. e \in dutySent \ {d} /\ message[proc[e].msg].call = c
        BY <1>1, <3>0, <3>2, <4>1 DEF MarkedBy, Claimed
      <4> QED BY <1>2, <4>2 DEF MarkedBy, StepFits
    <3> QED BY <3>1, <3>2
  <2>2. ASSUME Own(c)', calls'[c].flag = "TERMS" PROVE Answered(c)'
    BY <1>3, <2>2 DEF StepEnds, ReplyInv, CallFits
  <2>3. Own(c)' => calls'[c].dutyAt # Pending
    BY DEF StepEnds
  <2> QED BY <2>1, <2>2, <2>3 DEF CallFits
<1> QED BY <1>4, <1>5, <1>6, <1>7

\* The steps of a delivery, one by one.
LEMMA DoorReplies ==
  ASSUME IInv, IInv', ReplyInv, Undisturbed, NEW d \in Deliveries,
         DoorStep(d) \/ SendRefused(d)
  PROVE  StepFits(d) /\ StepEnds(d)
<1> USE DEF IInv, Typed
<1>m. PICK m \in Messages, c \in Calls \cup {Null} : m = proc[d].msg /\ c = proc[d].open
  BY DoorMoves DEF Moves, InTheDoor, DoorTypeOK, CarriesAMessage, Delivery
<1> USE <1>m
<1>0. /\ d \in InTheDoor /\ proc[d].pc # "idle" /\ m \in Messages
      /\ c \in Calls \cup {Null} /\ (DeliveryAt(d, "attach") => c \in Calls)
      /\ Moves(d) /\ OthersStay(d) /\ proc'[d].msg = m
      /\ InHandFits(d) /\ (d \in dutySent => SentFits(d)) /\ MailFits(m)
      /\ message[m] \in MessageRow
  BY DoorMoves DEF Moves, InTheDoor, DoorTypeOK, CarriesAMessage, Delivery, DeliveryAt, ReplyInv
<1>b. ASSUME NEW step, GoesTo(d, step)
      PROVE  proc'[d].pc = step /\ proc'[d].open = c /\ proc'[d].result = proc[d].result
  BY <1>b DEF GoesTo, DoorTypeOK, Delivery
<1>c. ASSUME NEW r, Finish(d, r) PROVE proc'[d].pc = "record" /\ proc'[d].result = r
  BY <1>c DEF Finish, DoorTypeOK, Delivery
\* Its own marks, seen from the calls.
<1>d. ASSUME NEW k \in Calls
      PROVE  /\ calls[k].dutyAt = d => MarkedBy(d, k)
             /\ IsOpen(k) => Attachable(k)
  BY NullAssumption DEF ReplyInv, CallFits, Attachable, IsOpen, NoneReturned
\* A step that writes the delivery's own row, and nothing else that counts.
<1>e. ASSUME UNCHANGED <<calls, message, opener>>, dutySent' = dutySent PROVE StepFits(d)
  BY <1>0, <1>e DEF StepFits, IsOpen
<1>o. \A k \in Calls : Own(k) => calls[k].dutyAt # Pending
  BY DEF ReplyInv, CallFits
<1>f. ASSUME UNCHANGED <<calls, message, opener>>, dutySent' = dutySent,
             InHandFits(d)', d \in dutySent => SentFits(d)',
             \A k \in Calls : calls[k].dutyAt = d => MarkedBy(d, k)'
      PROVE  StepFits(d) /\ StepEnds(d)
  BY <1>0, <1>e, <1>f, <1>o DEF StepEnds, MailFits, IsOpen, Own, OthersStay, DoorTypeOK
<1>1. CASE Recheck(d)
  <2>1. DeliveryAt(d, "recheck") /\ ~Settled(m) /\ d \notin dutySent
    BY <1>0, <1>1 DEF Recheck, DeliveryAt, InHandFits, Underway, SentFits
  <2>2. UNCHANGED <<calls, message, dutySent, opener>> /\ proc'[d].pc = "thread"
    BY <1>1, <1>b, <2>1 DEF Recheck
  <2>3. InHandFits(d)'
    BY <1>0, <2>1, <2>2 DEF InHandFits, Underway, Asking, Claimed, Settled
  <2>4. \A k \in Calls : calls[k].dutyAt # d
    BY <1>d, <2>1 DEF MarkedBy, Claimed, DeliveryAt
  <2> QED BY <1>f, <2>1, <2>2, <2>3, <2>4
<1>2. CASE ReadThread(d)
  <2>1. PICK open \in ThreadOpen :
          /\ proc'[d].open = open
          /\ proc'[d].pc = IF Matches(m) THEN "claim" ELSE NextAfterReply(open)
    BY <1>2 DEF ReadThread, DoorTypeOK, Delivery
  <2>2. DeliveryAt(d, "thread") /\ ~Settled(m) /\ d \notin dutySent
    BY <1>0, <1>2 DEF ReadThread, DeliveryAt, InHandFits, Underway, SentFits
  <2>3. UNCHANGED <<calls, message, dutySent, opener>> /\ (open # Null => IsOpen(open))
    BY <1>2, <2>1, ThreadIsOwn DEF ReadThread, ThreadOpen, Newest, ReplyInv
  <2>4. InHandFits(d)'
    BY <1>0, <2>1, <2>2, <2>3
       DEF InHandFits, Underway, Asking, Claimed, Settled, Matches, NextAfterReply, IsOpen
  <2>5. \A k \in Calls : calls[k].dutyAt # d
    BY <1>d, <2>2 DEF MarkedBy, Claimed, DeliveryAt
  <2> QED BY <1>f, <2>2, <2>3, <2>4, <2>5
<1>3. CASE ClaimReply(d)
  <2>1. /\ DeliveryAt(d, "claim") /\ ~Settled(m) /\ d \notin dutySent /\ m \in Emergency
        /\ c # Null => c \in Calls /\ IsOpen(c) /\ Attachable(c)
    BY <1>0, <1>3, <1>d DEF ClaimReply, DeliveryAt, InHandFits, Underway, Asking, SentFits
  <2>2. \A k \in Calls : calls[k].dutyAt # d
    BY <1>d, <2>1 DEF MarkedBy, Claimed, DeliveryAt
  <2>3. Unclaimed(m)
    <3> SUFFICES ASSUME message[m].duty \in Deliveries PROVE FALSE
      BY <1>0 DEF Unclaimed, MessageRow
    <3>1. message[m].duty \in dutySent \ {d} /\ proc[message[m].duty].msg = m
      BY <1>0, <2>1 DEF MailFits
    <3>2. SentFits(message[m].duty) /\ proc[message[m].duty].pc = "done"
      BY <1>0, <3>1, OthersRest DEF ReplyInv
    <3> QED BY <2>1, <3>1, <3>2 DEF SentFits, Settled
  <2>4. CASE c # Null => DutyReplyOwed(c)
    <3>1. /\ message' = [message EXCEPT ![m].duty = Pending] /\ UNCHANGED <<dutySent, opener>>
          /\ calls' = IF c = Null THEN calls ELSE [calls EXCEPT ![c].dutyAt = d]
          /\ proc'[d].pc = "send" /\ proc'[d].open = c
      BY <1>3, <1>b, <2>3, <2>4 DEF ClaimReply
    <3>2. /\ \A x \in Messages \ {m} : message'[x] = message[x]
          /\ message'[m] = [message[m] EXCEPT !.duty = Pending]
          /\ message'[m].call = Null /\ message'[m].label = Null
          /\ message'[m].duty = Pending
      BY <1>0, <2>1, <3>1 DEF DoorTypeOK, MessageRow, Settled
    <3>3. \A k \in Calls :
            /\ calls'[k].state = calls[k].state /\ calls'[k].flag = calls[k].flag
            /\ calls'[k].dutyAt = IF k = c THEN d ELSE calls[k].dutyAt
      BY <2>1, <3>1, NullAssumption DEF DoorTypeOK, CallRow
    <3>4. c # Null => calls[c].dutyAt = Null
      BY <2>4 DEF DutyReplyOwed
    <3>5. StepFits(d)
      <4>1. \A e \in Deliveries : message[m].duty # e /\ message'[m].duty # e
        BY <1>0, <2>3, <3>2, NullAssumption DEF Unclaimed
      <4> QED BY <1>0, <2>1, <3>1, <3>2, <3>3, <3>4, <4>1, NullAssumption
              DEF StepFits, IsOpen, Settled
    <3>6. InHandFits(d)'
      BY <1>0, <2>1, <3>1, <3>2, <3>3
         DEF InHandFits, Underway, Asking, Claimed, Settled, IsOpen
    <3>7. MailFits(m)'
      BY <3>2, NullAssumption DEF MailFits
    <3>8. \A k \in Calls : calls'[k].dutyAt = d => MarkedBy(d, k)'
      BY <2>2, <3>1, <3>3 DEF MarkedBy, Claimed
    <3> QED BY <1>0, <2>1, <3>1, <3>3, <3>5, <3>6, <3>7, <3>8, <1>o, NullAssumption DEF StepEnds, Own
  <2>5. CASE ~(c # Null => DutyReplyOwed(c))
    <3>1. UNCHANGED <<calls, message, dutySent, opener>> /\ proc'[d].pc = "attach" /\ proc'[d].open = c
      BY <1>3, <1>b, <2>5 DEF ClaimReply, NextAfterReply
    <3>2. calls[c].flag = "STAFF" \/ Answered(c)
      <4>1. c \in Calls /\ Attachable(c) /\ calls[c] \in CallRow
        BY <2>1, <2>5 DEF DoorTypeOK
      <4>2. CASE calls[c].dutyAt = Null
        BY <2>5, <4>1, <4>2 DEF DutyReplyOwed, CallRow
      <4>3. CASE calls[c].dutyAt # Null
        <5> DEFINE e == calls[c].dutyAt
        <5>1. e \in Deliveries \ {d} /\ MarkedBy(e, c)
          <6>1. c # Null /\ Own(c)
            BY <2>1, <4>1, NullAssumption DEF IsOpen, Own
          <6>2. calls[c].dutyAt \in Deliveries
            BY <1>o, <4>1, <4>3, <6>1 DEF CallRow
          <6> QED BY <2>2, <4>1, <6>2 DEF ReplyInv, CallFits
        <5>2. proc[e].pc \notin Claimed \cup {"attach"}
          BY <1>0, <5>1, OthersRest DEF Claimed
        <5> QED BY <5>1, <5>2 DEF MarkedBy, Answered
      <4> QED BY <4>2, <4>3
    <3>3. InHandFits(d)'
      BY <1>0, <2>1, <2>5, <3>1, <3>2
         DEF InHandFits, Underway, Asking, Claimed, Settled, IsOpen, Answered, OthersStay,
             DoorTypeOK
    <3> QED BY <1>f, <2>1, <2>2, <3>1, <3>3
  <2> QED BY <2>4, <2>5
<1>4. CASE SendAccepted(d)
  <2>1. /\ DeliveryAt(d, "send") /\ ~Settled(m) /\ m \in Emergency /\ message[m].duty = Pending
        /\ c # Null => IsOpen(c) /\ calls[c].dutyAt = d
    BY <1>0, <1>4 DEF SendAccepted, DeliveryAt, InHandFits, Underway, Asking, Claimed
  <2>2. /\ UNCHANGED <<calls, message, opener>> /\ dutySent' = dutySent \cup {d}
        /\ proc'[d].pc = "storeId" /\ proc'[d].open = c
    BY <1>4, <1>b DEF SendAccepted
  <2>3. StepFits(d)
    BY <1>0, <2>2 DEF StepFits, IsOpen
  <2>4. InHandFits(d)'
    BY <1>0, <2>1, <2>2 DEF InHandFits, Underway, Asking, Claimed, Settled, IsOpen
  <2>5. SentFits(d)'
    BY <1>0, <2>1, <2>2 DEF SentFits
  <2>6. MailFits(m)'
    BY <2>1, <2>2, NullAssumption DEF MailFits, Settled
  <2>7. \A k \in Calls : calls'[k].dutyAt = d => MarkedBy(d, k)'
    <3> SUFFICES ASSUME NEW k \in Calls, calls[k].dutyAt = d PROVE MarkedBy(d, k)'
      BY <2>2
    <3>1. MarkedBy(d, k)
      BY <1>d
    <3>2. k # Null /\ message[m].call = Null
      BY <2>1, NullAssumption DEF Settled
    <3> QED BY <1>0, <2>2, <3>1, <3>2 DEF MarkedBy, Claimed
  <2> QED BY <1>0, <2>2, <2>3, <2>4, <2>5, <2>6, <2>7, <1>o, NullAssumption DEF StepEnds, Own
<1>5. CASE ReleaseClaim(d)
  <2>1. /\ DeliveryAt(d, "release") /\ ~Settled(m) /\ message[m].duty = Pending /\ d \notin dutySent
        /\ c # Null => c \in Calls /\ IsOpen(c) /\ calls[c].dutyAt = d
    BY <1>0, <1>5 DEF ReleaseClaim, DeliveryAt, InHandFits, Underway, Asking, Claimed, SentFits
  <2>2. /\ message' = [message EXCEPT ![m].duty = Null] /\ UNCHANGED <<dutySent, opener>>
        /\ calls' = IF c # Null THEN [calls EXCEPT ![c].dutyAt = Null] ELSE calls
        /\ proc'[d].pc = "failed"
    BY <1>5, <1>b, <2>1 DEF ReleaseClaim, ReleasedMarks
  <2>3. /\ \A x \in Messages \ {m} : message'[x] = message[x]
        /\ message'[m].call = Null /\ message'[m].label = Null
        /\ message'[m].duty = Null
    BY <1>0, <2>1, <2>2 DEF DoorTypeOK, MessageRow, Settled
  <2>4. \A k \in Calls :
          /\ calls'[k].state = calls[k].state /\ calls'[k].flag = calls[k].flag
          /\ calls'[k].dutyAt = IF k = c THEN Null ELSE calls[k].dutyAt
    BY <2>1, <2>2, NullAssumption DEF DoorTypeOK, CallRow
  <2>5. StepFits(d)
    BY <1>0, <2>1, <2>2, <2>3, <2>4, NullAssumption DEF StepFits, IsOpen, Settled
  <2>6. InHandFits(d)' /\ MailFits(m)'
    BY <2>2, <2>3, NullAssumption DEF InHandFits, MailFits, Underway, Asking, Claimed
  <2>7. \A k \in Calls : calls'[k].dutyAt # d
    <3> SUFFICES ASSUME NEW k \in Calls, k # c, calls[k].dutyAt = d PROVE FALSE
      BY <2>4, NullAssumption
    <3> QED BY <1>d, <2>1, NullAssumption DEF MarkedBy, Settled
  <2> QED BY <1>0, <2>1, <2>2, <2>4, <2>5, <2>6, <2>7, <1>o, NullAssumption DEF StepEnds, Own
<1>6. CASE StoreReplyId(d)
  <2>1. /\ DeliveryAt(d, "storeId") /\ ~Settled(m) /\ message[m].duty = Pending
        /\ m \in Emergency /\ d \in dutySent
        /\ c # Null => IsOpen(c) /\ calls[c].dutyAt = d
    BY <1>0, <1>6 DEF StoreReplyId, DeliveryAt, InHandFits, Underway, Asking, Claimed, SentFits
  <2>2. /\ message' = [message EXCEPT ![m].duty = d] /\ UNCHANGED <<calls, dutySent, opener>>
        /\ proc'[d].pc = "storeEcho" /\ proc'[d].open = c
    BY <1>6, <1>b, <2>1 DEF StoreReplyId
  <2>3. /\ \A x \in Messages \ {m} : message'[x] = message[x]
        /\ message'[m].call = Null /\ message'[m].label = Null
        /\ message'[m].duty = d
    BY <1>0, <2>1, <2>2 DEF DoorTypeOK, MessageRow, Settled
  <2>4. StepFits(d)
    BY <1>0, <2>1, <2>2, <2>3, NullAssumption DEF StepFits, IsOpen, Settled
  <2>5. InHandFits(d)' /\ MailFits(m)' /\ SentFits(d)'
    BY <1>0, <2>1, <2>2, <2>3
       DEF InHandFits, MailFits, SentFits, Underway, Asking, Claimed, Settled, IsOpen
  <2>6. \A k \in Calls : calls[k].dutyAt = d => MarkedBy(d, k)'
    <3> SUFFICES ASSUME NEW k \in Calls, calls[k].dutyAt = d PROVE MarkedBy(d, k)'
      OBVIOUS
    <3>1. c = k
      BY <1>d, <2>1, NullAssumption DEF MarkedBy, Settled
    <3> QED BY <2>2, <3>1 DEF MarkedBy, Claimed
  <2> QED BY <1>0, <2>2, <2>4, <2>5, <2>6, <1>o, NullAssumption DEF StepEnds, Own
<1>7. CASE StoreReplyEcho(d)
  <2>1. /\ DeliveryAt(d, "storeEcho") /\ ~Settled(m) /\ m \in Emergency /\ d \in dutySent
        /\ message[m].duty = d
        /\ c # Null => IsOpen(c) /\ calls[c].dutyAt = d
    BY <1>0, <1>7 DEF StoreReplyEcho, DeliveryAt, InHandFits, Underway, Asking, Claimed, SentFits
  <2>2. /\ UNCHANGED <<calls, message, dutySent, opener>>
        /\ proc'[d].pc = NextAfterReply(c) /\ proc'[d].open = c
    BY <1>7, <1>b DEF StoreReplyEcho
  <2>3. InHandFits(d)' /\ SentFits(d)'
    BY <1>0, <2>1, <2>2
       DEF InHandFits, SentFits, Underway, Asking, Claimed, Settled, IsOpen, NextAfterReply
  <2>4. \A k \in Calls : calls[k].dutyAt = d => MarkedBy(d, k)'
    <3> SUFFICES ASSUME NEW k \in Calls, calls[k].dutyAt = d PROVE MarkedBy(d, k)'
      OBVIOUS
    <3>1. c = k /\ k # Null
      BY <1>d, <2>1, NullAssumption DEF MarkedBy, Settled
    <3> QED BY <2>1, <2>2, <3>1 DEF MarkedBy, NextAfterReply
  <2> QED BY <1>f, <2>1, <2>2, <2>3, <2>4
<1>8. CASE SettleAttach(d)
  <2>1. /\ DeliveryAt(d, "attach") /\ ~Settled(m) /\ c \in Calls /\ IsOpen(c) /\ Attachable(c)
        /\ c # Null
        /\ d \in dutySent => calls[c].dutyAt = d /\ m \in Emergency
        /\ m \in Emergency => d \in dutySent \/ calls[c].flag = "STAFF" \/ Answered(c)
        /\ d \in dutySent => message[m].duty = d
    BY <1>0, <1>8, <1>d, NullAssumption
       DEF SettleAttach, DeliveryAt, InHandFits, Underway, Asking, SentFits
  <2>2. /\ message' = [message EXCEPT ![m].call = c] /\ UNCHANGED <<dutySent, opener>>
        /\ calls' = [calls EXCEPT ![c] = FlaggedByTerms(@, Matches(m))]
        /\ proc'[d].pc = "record" /\ proc'[d].result = c
    BY <1>8, <1>c, <2>1 DEF SettleAttach
  <2>3. /\ \A x \in Messages \ {m} : message'[x] = message[x]
        /\ message'[m].call = c /\ message'[m].label = Null
        /\ message'[m].duty = message[m].duty
    BY <1>0, <2>1, <2>2 DEF DoorTypeOK, MessageRow, Settled
  <2>4. \A k \in Calls :
          /\ calls'[k].state = calls[k].state /\ calls'[k].dutyAt = calls[k].dutyAt
          /\ calls'[k].flag = IF k = c /\ m \in Emergency /\ calls[k].flag = Null
                              THEN "TERMS" ELSE calls[k].flag
    BY <2>1, <2>2 DEF DoorTypeOK, CallRow, FlaggedByTerms, Matches
  <2>5. StepFits(d)
    BY <1>0, <2>1, <2>2, <2>3, <2>4 DEF StepFits, IsOpen, Settled
  <2>6. InHandFits(d)' /\ MailFits(m)' /\ (d \in dutySent => SentFits(d)')
    <3>1. InHandFits(d)'
      BY <1>0, <2>2, <2>3 DEF InHandFits, Underway, Asking, Claimed
    <3>2. MailFits(m)'
      <4>1. message[m].duty \in Deliveries =>
              message[m].duty \in dutySent /\ proc[message[m].duty].msg = m
        BY <1>0 DEF MailFits
      <4>2. message[m].duty \in Deliveries => proc'[message[m].duty].msg = m
        BY <1>0, <4>1 DEF OthersStay
      <4> QED BY <2>1, <2>2, <2>3, <2>4, <4>1, <4>2 DEF MailFits, IsOpen
    <3>3. d \in dutySent => SentFits(d)'
      BY <1>0, <2>1, <2>2, <2>3, <2>4 DEF SentFits
    <3> QED BY <3>1, <3>2, <3>3
  <2>7. \A k \in Calls : calls'[k].dutyAt = d => MarkedBy(d, k)'
    <3> SUFFICES ASSUME NEW k \in Calls, calls[k].dutyAt = d PROVE MarkedBy(d, k)'
      BY <2>4
    <3>1. c = k /\ d \in dutySent
      BY <1>d, <2>1, NullAssumption DEF MarkedBy, Settled, DeliveryAt, Claimed
    <3> QED BY <1>0, <2>2, <2>3, <3>1 DEF MarkedBy
  <2>8. \A k \in Calls :
          calls'[k].flag = "TERMS" => calls[k].flag = "TERMS" \/ Answered(k)'
    <3> SUFFICES ASSUME m \in Emergency, calls[c].flag = Null PROVE Answered(c)'
      BY <2>4
    <3>1. d \in dutySent \/ Answered(c)
      BY <2>1, NullAssumption
    <3>2. CASE d \in dutySent
      BY <1>0, <2>2, <2>3, <3>2 DEF Answered
    <3>3. ASSUME NEW x \in dutySent, message[proc[x].msg].call = c, x # d PROVE Answered(c)'
      <4>1. /\ x \in Deliveries /\ proc'[x] = proc[x] /\ proc[x].msg # m
            /\ proc[x].msg \in Messages
        BY <1>0, <2>1, <3>3, OthersRest
           DEF OthersStay, DoorTypeOK, Settled, CarriesAMessage
      <4> QED BY <2>2, <2>3, <3>3, <4>1 DEF Answered
    <3> QED BY <3>1, <3>2, <3>3 DEF Answered
  <2> QED BY <1>0, <2>2, <2>4, <2>5, <2>6, <2>7, <2>8, <1>o, NullAssumption DEF StepEnds, Own
<1>9. CASE AskSorter(d)
  <2>1. /\ DeliveryAt(d, "sort") /\ ~Settled(m) /\ c = Null /\ (m \in Emergency => d \in dutySent)
    BY <1>0, <1>9 DEF AskSorter, DeliveryAt, InHandFits, Underway
  <2>2. /\ UNCHANGED <<calls, message, dutySent, opener>>
        /\ proc'[d].pc = "settle" /\ proc'[d].open = c
    BY <1>9 DEF AskSorter, DoorTypeOK, Delivery
  <2>3. InHandFits(d)' /\ (d \in dutySent => SentFits(d)')
    BY <1>0, <2>1, <2>2
       DEF InHandFits, SentFits, Underway, Asking, Claimed, Settled, DeliveryAt
  <2>4. \A k \in Calls : calls[k].dutyAt # d
    BY <1>d, <2>1, NullAssumption DEF MarkedBy, Settled
  <2> QED BY <1>f, <2>2, <2>3, <2>4
<1>10. CASE RecordDutyReply(d)
  <2> DEFINE r == proc[d].result
             reply == message[m].duty
  <2>1. /\ DeliveryAt(d, "record") /\ r \in Calls \cup {Null}
        /\ r # Null => message[m].call = r
    BY <1>0, <1>10 DEF RecordDutyReply, DeliveryAt, InHandFits, DoorTypeOK, Delivery
  <2>2. UNCHANGED <<message, dutySent, opener>> /\ proc'[d].pc = "done"
    BY <1>10, <1>b DEF RecordDutyReply
  <2>3. d \in dutySent => r \in Calls /\ reply = d /\ m \in Emergency
    BY <1>0, <2>1, NullAssumption DEF SentFits, DeliveryAt, DoorTypeOK, MessageRow
  \* A delivery that repeats what another answered finds the mark in place.
  <2>4. ASSUME r # Null, reply \in Deliveries, d \notin dutySent
        PROVE  calls[r].dutyAt = reply
    <3>1. reply \in dutySent \ {d} /\ proc[reply].msg = m
      BY <1>0, <2>4 DEF MailFits
    <3>2. SentFits(reply) /\ proc[reply].pc = "done"
      BY <1>0, <3>1, OthersRest DEF ReplyInv
    <3> QED BY <2>1, <2>4, <3>1, <3>2 DEF SentFits
  <2>5. CASE d \notin dutySent
    <3>1. UNCHANGED calls
      BY <1>10, <2>4, <2>5, NullAssumption DEF RecordDutyReply
    <3>2. InHandFits(d)'
      BY <2>2 DEF InHandFits, Underway, Asking, Claimed
    <3>3. \A k \in Calls : calls[k].dutyAt # d
      BY <1>d, <2>1, <2>5 DEF MarkedBy, Claimed, DeliveryAt
    <3> QED BY <1>f, <2>2, <2>5, <3>1, <3>2, <3>3
  <2>6. CASE d \in dutySent
    <3>1. /\ message[m].call = r /\ r \in Calls /\ r # Null
          /\ calls[r].dutyAt = d \/ (calls[r].dutyAt = Null /\ calls[r].flag = "TERMS")
      BY <1>0, <2>1, <2>3, <2>6, NullAssumption DEF SentFits, DeliveryAt
    <3>2. \A k \in Calls :
            /\ calls'[k].state = calls[k].state /\ calls'[k].flag = calls[k].flag
            /\ calls'[k].dutyAt = IF k = r THEN d ELSE calls[k].dutyAt
      BY <1>10, <2>3, <2>6, <3>1, NullAssumption DEF RecordDutyReply, DoorTypeOK, CallRow
    <3>3. StepFits(d)
      BY <1>0, <2>2, <3>1, <3>2, NullAssumption DEF StepFits, IsOpen
    <3>4. InHandFits(d)' /\ SentFits(d)'
      BY <1>0, <2>2, <2>3, <2>6, <3>1, <3>2
         DEF InHandFits, SentFits, Underway, Asking, Claimed
    <3>5. MailFits(m)'
      <4>1. proc'[reply].msg = m /\ reply \in dutySent'
        BY <1>0, <2>2, <2>3, <2>6
      <4> QED BY <1>0, <2>2, <3>1, <3>2, <4>1 DEF MailFits, IsOpen
    <3>6. \A k \in Calls : calls'[k].dutyAt = d => MarkedBy(d, k)'
      <4> SUFFICES ASSUME NEW k \in Calls, calls'[k].dutyAt = d PROVE MarkedBy(d, k)'
        OBVIOUS
      <4>1. message[m].call = k
        BY <1>d, <2>1, <3>1, <3>2 DEF MarkedBy, Claimed, DeliveryAt
      <4> QED BY <1>0, <2>2, <2>6, <4>1 DEF MarkedBy
    <3> QED BY <1>0, <2>2, <3>2, <3>3, <3>4, <3>5, <3>6, <1>o, NullAssumption DEF StepEnds, Own
  <2> QED BY <2>5, <2>6
<1>11. ASSUME NEW noise \in BOOLEAN, SettleVerdict(d, noise)
       PROVE  StepFits(d) /\ StepEnds(d)
  <2>1. /\ DeliveryAt(d, "settle") /\ ~Settled(m) /\ c = Null /\ (m \in Emergency => d \in dutySent)
        /\ d \in dutySent => m \in Emergency /\ message[m].duty = d
    BY <1>0, <1>11 DEF SettleVerdict, DeliveryAt, InHandFits, Underway, SentFits
  <2>2. \A k \in Calls : calls[k].dutyAt # d
    BY <1>d, <2>1, NullAssumption DEF MarkedBy, Settled
  <2>3. CASE noise /\ ~Matches(m)
    <3>1. /\ message' = [message EXCEPT ![m].label = "noise"] /\ UNCHANGED <<calls, dutySent, opener>>
          /\ proc'[d].pc = "record" /\ proc'[d].result = Null
          /\ m \notin Emergency /\ d \notin dutySent
      BY <1>11, <1>c, <2>1, <2>3 DEF SettleVerdict, Matches
    <3>2. /\ \A x \in Messages \ {m} : message'[x] = message[x]
          /\ message'[m].call = Null /\ message'[m].duty = message[m].duty
      BY <1>0, <2>1, <3>1 DEF DoorTypeOK, MessageRow, Settled
    <3>3. StepFits(d)
      BY <1>0, <2>1, <3>1, <3>2 DEF StepFits, IsOpen, Settled
    <3>4. InHandFits(d)'
      BY <3>1 DEF InHandFits, Underway, Asking, Claimed
    <3>5. MailFits(m)'
      <4>1. message[m].duty \notin Deliveries
        <5> SUFFICES ASSUME message[m].duty \in Deliveries PROVE FALSE
          OBVIOUS
        <5>1. message[m].duty \in dutySent /\ proc[message[m].duty].msg = m
          BY <1>0 DEF MailFits
        <5> QED BY <3>1, <5>1 DEF ReplyInv, SentFits
      <4> QED BY <3>1, <3>2, <4>1 DEF MailFits
    <3> QED BY <1>0, <2>2, <3>1, <3>3, <3>4, <3>5, <1>o, NullAssumption DEF StepEnds, Own
  <2>4. CASE ~(noise /\ ~Matches(m))
    <3>1. PICK k \in Calls :
            /\ calls[k].state = "none"
            /\ calls' = [calls EXCEPT ![k] = OpenedCall(proc[d].pred, Matches(m))]
            /\ message' = [message EXCEPT ![m].call = k] /\ dutySent' = dutySent
            /\ opener' = [opener EXCEPT ![k] = m]
            /\ proc'[d].pc = "record" /\ proc'[d].result = k
      BY <1>11, <1>c, <2>1, <2>4 DEF SettleVerdict
    <3>2. /\ \A x \in Messages \ {m} : message'[x] = message[x]
          /\ message'[m].call = k /\ message'[m].label = Null
          /\ message'[m].duty = message[m].duty
      BY <1>0, <2>1, <3>1 DEF DoorTypeOK, MessageRow, Settled
    <3>3. /\ \A x \in Calls \ {k} : calls'[x] = calls[x]
          /\ calls'[k].state = "open" /\ calls'[k].dutyAt = Null
          /\ calls'[k].flag = IF m \in Emergency THEN "TERMS" ELSE Null
      BY <3>1 DEF DoorTypeOK, OpenedCall, NoCall, Matches
    <3>9. /\ \A x \in Calls \ {k} : opener'[x] = opener[x]
          /\ opener'[k] = m /\ m # Null
      BY <1>0, <3>1, NullAssumption DEF DoorTypeOK
    <3>4. StepFits(d)
      BY <1>0, <2>1, <3>1, <3>2, <3>3, NullAssumption DEF StepFits, IsOpen, Settled
    <3>5. InHandFits(d)' /\ (d \in dutySent => SentFits(d)')
      BY <1>0, <2>1, <3>1, <3>2, <3>3, NullAssumption
         DEF InHandFits, SentFits, Underway, Asking, Claimed
    <3>6. MailFits(m)'
      <4>1. message[m].duty \in Deliveries =>
              message[m].duty \in dutySent /\ proc[message[m].duty].msg = m
        BY <1>0 DEF MailFits
      <4>2. message[m].duty \in Deliveries => proc'[message[m].duty].msg = m
        BY <1>0, <4>1 DEF OthersStay
      <4> QED BY <1>0, <3>1, <3>2, <3>3, <3>9, <4>1, <4>2 DEF MailFits, IsOpen
    <3>7. \A x \in Calls : calls'[x].dutyAt # d
      BY <2>2, <3>3, NullAssumption
    <3>8. \A x \in Calls :
            calls'[x].flag = "TERMS" =>
              (x # k /\ calls[x].flag = "TERMS") \/ Answered(x)'
      <4> SUFFICES ASSUME m \in Emergency PROVE Answered(k)'
        BY <3>3, NullAssumption
      <4> QED BY <1>0, <2>1, <3>1, <3>2 DEF Answered
    <3>10. ASSUME NEW x \in Calls, Own(x)'
           PROVE  /\ calls'[x].flag = "TERMS" =>
                       (Own(x) /\ calls[x].flag = "TERMS") \/ Answered(x)'
                  /\ calls'[x].dutyAt # Pending
      BY <1>o, <3>3, <3>8, <3>9, <3>10, NullAssumption DEF Own
    <3> QED BY <1>0, <3>1, <3>4, <3>5, <3>6, <3>7, <3>10 DEF StepEnds
  <2> QED BY <2>3, <2>4
<1>12. CASE SendRefused(d)
  <2>1. /\ DeliveryAt(d, "send") /\ ~Settled(m) /\ m \in Emergency /\ message[m].duty = Pending
        /\ d \notin dutySent /\ (c # Null => IsOpen(c) /\ calls[c].dutyAt = d)
    BY <1>0, <1>12 DEF SendRefused, DeliveryAt, InHandFits, Underway, Asking, Claimed, SentFits
  <2>2. /\ UNCHANGED <<calls, message, dutySent, opener>>
        /\ proc'[d].pc = "release" /\ proc'[d].open = c
    BY <1>12, <1>b DEF SendRefused
  <2>3. InHandFits(d)'
    BY <1>0, <2>1, <2>2 DEF InHandFits, Underway, Asking, Claimed, Settled, IsOpen
  <2>4. \A k \in Calls : calls[k].dutyAt = d => MarkedBy(d, k)'
    BY <1>d, <2>1, <2>2 DEF MarkedBy, Claimed, DeliveryAt
  <2> QED BY <1>f, <2>1, <2>2, <2>3, <2>4
<1> QED
  BY <1>1, <1>2, <1>3, <1>4, <1>5, <1>6, <1>7, <1>8, <1>9, <1>10, <1>11, <1>12 DEF DoorStep

LEMMA ReceiveReplies ==
  ASSUME IInv, ReplyInv, MaxInHand <= 1, NEW d \in Deliveries, NEW m \in Messages,
         Receive(d, m)
  PROVE  /\ \A x \in Messages : MailFits(x)'
         /\ \A x \in Deliveries : InHandFits(x)'
         /\ \A x \in dutySent' : SentFits(x)'
         /\ \A c \in Calls : CallFits(c)'
<1> USE DEF IInv, Typed
<1>1. /\ InTheDoor = {} /\ OthersStay(d) /\ proc[d].pc = "idle" /\ d \notin dutySent
      /\ proc'[d].msg = m /\ proc'[d].open = Null
      /\ proc'[d].pc = IF Settled(m) THEN "record" ELSE "recheck"
      /\ proc'[d].result = IF Settled(m) THEN message[m].call ELSE Null
      /\ UNCHANGED <<calls, dutySent, opener>> /\ dutySent \subseteq Deliveries
  BY NobodyInHand, ReceiveMoves DEF Receive, ReplyInv, SentFits, DoorTypeOK
<1>2. \A x \in Messages : /\ message'[x].call = message[x].call
                          /\ message'[x].label = message[x].label
                          /\ message'[x].duty = message[x].duty
  BY DEF Receive, DoorTypeOK, MessageRow
<1>3. \A x \in Deliveries \ {d} :
        proc'[x] = proc[x] /\ proc[x].pc \in {"idle", "done", "failed"}
  BY <1>1 DEF OthersStay, InTheDoor
<1>4. \A x \in dutySent : /\ x # d /\ proc'[x] = proc[x] /\ proc[x].msg \in Messages
                          /\ SentFits(x) /\ proc[x].pc = "done"
  BY <1>1, <1>3 DEF ReplyInv, SentFits, CarriesAMessage
<1>5. ASSUME NEW x \in Messages PROVE MailFits(x)'
  BY <1>1, <1>2, <1>4 DEF ReplyInv, MailFits, IsOpen
<1>6. ASSUME NEW x \in Deliveries PROVE InHandFits(x)'
  <2>1. CASE x = d
    BY <1>1, <1>2, <2>1 DEF InHandFits, Underway, Asking, Claimed, Settled
  <2>2. CASE x # d
    BY <1>3, <2>2 DEF InHandFits, Underway, Asking, Claimed
  <2> QED BY <2>1, <2>2
<1>7. ASSUME NEW x \in dutySent' PROVE SentFits(x)'
  BY <1>1, <1>2, <1>4 DEF SentFits
<1>8. ASSUME NEW c \in Calls PROVE CallFits(c)'
  <2>1. Answered(c) => Answered(c)'
    BY <1>1, <1>2, <1>4 DEF Answered
  <2>2. ASSUME NEW e \in Deliveries, calls'[c].dutyAt = e PROVE MarkedBy(e, c)'
    <3>1. MarkedBy(e, c)
      BY <1>1, <2>2, NullAssumption DEF ReplyInv, CallFits
    <3>2. e \in dutySent /\ message[proc[e].msg].call = c
      BY <1>1, <1>3, <3>1 DEF MarkedBy, Claimed
    <3> QED BY <1>1, <1>2, <1>4, <3>2 DEF MarkedBy
  <2> QED BY <1>1, <2>1, <2>2 DEF ReplyInv, CallFits, Own
<1> QED BY <1>5, <1>6, <1>7, <1>8

\* A step that moves no delivery and writes no message.
LEMMA FlagReplies ==
  ASSUME IInv, ReplyInv, NEW c \in Calls, FlagByHand(c)
  PROVE  /\ \A x \in Messages : MailFits(x)'
         /\ \A x \in Deliveries : InHandFits(x)'
         /\ \A x \in dutySent' : SentFits(x)'
         /\ \A k \in Calls : CallFits(k)'
<1>1. /\ UNCHANGED <<message, proc, dutySent, opener>> /\ calls[c].flag = Null
      /\ \A k \in Calls :
           /\ calls'[k].state = calls[k].state /\ calls'[k].dutyAt = calls[k].dutyAt
           /\ calls'[k].flag = IF k = c THEN "STAFF" ELSE calls[k].flag
  BY DEF FlagByHand, besideCalls, IInv, Typed, DoorTypeOK, CallRow
<1>t. \A x \in Messages : message[x] \in MessageRow
  BY DEF IInv, Typed, DoorTypeOK
<1>p. \A d \in Deliveries : proc[d] \in Delivery
  BY DEF IInv, Typed, DoorTypeOK
<1>2. ASSUME NEW x \in Messages PROVE MailFits(x)'
  BY <1>1, <1>t DEF ReplyInv, MailFits, IsOpen, MessageRow
<1>3. ASSUME NEW d \in Deliveries PROVE InHandFits(d)'
  <2>1. InHandFits(d) /\ proc'[d] = proc[d] /\ proc[d].open \in Calls \cup {Null}
        /\ (proc[d].pc = "attach" => proc[d].open # Null)
    BY <1>1, <1>p DEF ReplyInv, Delivery, IInv, Typed, CarriesAMessage
  <2>2. \A k \in Calls : calls[k].flag = "STAFF" => calls'[k].flag = "STAFF"
    BY <1>1
  <2> QED BY <1>1, <2>1, <2>2
          DEF InHandFits, Underway, Asking, Claimed, Settled, IsOpen, Answered
<1>4. ASSUME NEW d \in dutySent' PROVE SentFits(d)'
  <2>1. SentFits(d) /\ proc[d].msg \in Messages /\ d \in Deliveries
    BY <1>1 DEF ReplyInv, SentFits, IInv, Typed, DoorTypeOK, CarriesAMessage
  <2>2. message[proc[d].msg].call \in Calls \cup {Null}
    BY <1>t, <2>1 DEF MessageRow
  <2> QED BY <1>1, <2>1, <2>2, NullAssumption DEF SentFits
<1>5. ASSUME NEW k \in Calls PROVE CallFits(k)'
  BY <1>1 DEF ReplyInv, CallFits, MarkedBy, Claimed, Answered, Own
<1> QED BY <1>2, <1>3, <1>4, <1>5

LEMMA RescueReplies ==
  ASSUME IInv, ReplyInv, NEW m \in Messages, RescueNoise(m)
  PROVE  /\ \A x \in Messages : MailFits(x)'
         /\ \A x \in Deliveries : InHandFits(x)'
         /\ \A x \in dutySent' : SentFits(x)'
         /\ \A k \in Calls : CallFits(k)'
<1> USE DEF IInv, Typed
<1>1. PICK c \in Calls :
        /\ calls[c].state = "none"
        /\ calls' = [calls EXCEPT ![c] = OpenedCall(Null, Matches(m))]
        /\ message' = [message EXCEPT ![m].call = c]
        /\ opener' = [opener EXCEPT ![c] = m]
        /\ UNCHANGED <<proc, dutySent>>
        /\ message[m].label = "noise" /\ message[m].call = Null
  BY DEF RescueNoise, Filtered
<1>2. /\ m \notin Emergency /\ c # Null
      /\ \A x \in Messages \ {m} : message'[x] = message[x]
      /\ message'[m].call = c /\ message'[m].label = "noise"
      /\ message'[m].duty = message[m].duty
  BY <1>1, NullAssumption DEF ReplyInv, MailFits, DoorTypeOK, MessageRow
<1>3. /\ \A k \in Calls \ {c} : calls'[k] = calls[k] /\ opener'[k] = opener[k]
      /\ calls'[c].state = "open" /\ calls'[c].flag = Null /\ calls'[c].dutyAt = Null
      /\ opener'[c] = m /\ m # Null
  BY <1>1, <1>2, NullAssumption DEF OpenedCall, NoCall, Matches, DoorTypeOK
<1>4. \A x \in Messages : message[x].call # c
  BY <1>1, <1>2 DEF ReplyInv, MailFits, IsOpen
<1>5. \A d \in dutySent : /\ d \in Deliveries /\ proc[d].msg \in Messages /\ proc[d].msg # m
                          /\ SentFits(d)
  BY <1>2 DEF ReplyInv, SentFits, DoorTypeOK, CarriesAMessage
<1>6. ASSUME NEW x \in Messages PROVE MailFits(x)'
  <2>1. CASE x = m
    <3>1. message[m].duty \notin Deliveries
      BY <1>2, <1>5 DEF ReplyInv, MailFits
    <3> QED BY <1>2, <1>3, <2>1, <3>1 DEF MailFits, IsOpen
  <2>2. CASE x # m
    BY <1>1, <1>2, <1>3, <1>4, <2>2 DEF ReplyInv, MailFits, IsOpen, DoorTypeOK, MessageRow
  <2> QED BY <2>1, <2>2
<1>7. ASSUME NEW d \in Deliveries PROVE InHandFits(d)'
  <2>1. /\ InHandFits(d) /\ proc'[d] = proc[d] /\ dutySent' = dutySent
        /\ proc[d].open \in Calls \cup {Null} /\ proc[d].result \in Calls \cup {Null}
        /\ proc[d].pc # "idle" => proc[d].msg \in Messages
        /\ proc[d].pc = "attach" => proc[d].open # Null
    BY <1>1 DEF ReplyInv, DoorTypeOK, Delivery, CarriesAMessage
  <2>2. proc[d].pc \in Underway => proc[d].msg # m
    BY <1>1, <2>1, NullAssumption DEF InHandFits, Settled
  <2>3. proc[d].pc \in Asking => proc[d].open # c
    BY <1>1, <1>2, <2>1 DEF InHandFits, IsOpen
  <2>4. \A k \in Calls : Answered(k) => Answered(k)'
    BY <1>1, <1>2, <1>5 DEF Answered
  <2>5. CASE proc[d].pc \in Underway
    <3>1. /\ message'[proc[d].msg] = message[proc[d].msg]
          /\ proc[d].pc \in Asking /\ proc[d].open # Null =>
               /\ calls'[proc[d].open] = calls[proc[d].open]
               /\ opener'[proc[d].open] = opener[proc[d].open]
      BY <1>2, <1>3, <2>1, <2>2, <2>3, <2>5 DEF Underway, Asking
    <3> QED BY <2>1, <2>4, <2>5, <3>1
            DEF InHandFits, Underway, Asking, Claimed, Settled, IsOpen
  <2>6. CASE proc[d].pc = "record"
    <3>1. proc[d].result # Null => message'[proc[d].msg].call = proc[d].result
      BY <1>1, <1>2, <2>1, <2>6 DEF InHandFits
    <3> QED BY <2>1, <2>6, <3>1 DEF InHandFits, Underway, Asking, Claimed
  <2>7. CASE proc[d].pc \notin Underway \cup {"record"}
    BY <2>1, <2>7 DEF InHandFits, Underway, Asking, Claimed
  <2> QED BY <2>5, <2>6, <2>7
<1>8. ASSUME NEW d \in dutySent' PROVE SentFits(d)'
  <2>1. /\ d \in dutySent /\ SentFits(d) /\ proc'[d] = proc[d]
        /\ message'[proc[d].msg] = message[proc[d].msg]
        /\ message[proc[d].msg].call \in Calls \cup {Null} /\ message[proc[d].msg].call # c
    BY <1>1, <1>2, <1>4, <1>5 DEF DoorTypeOK, MessageRow
  <2> QED BY <1>3, <2>1 DEF SentFits
<1>9. ASSUME NEW k \in Calls PROVE CallFits(k)'
  <2>1. CASE k = c
    BY <1>3, <2>1, NullAssumption DEF CallFits
  <2>2. CASE k # c
    <3>1. Answered(k) => Answered(k)'
      BY <1>1, <1>2, <1>5 DEF Answered
    <3>2. ASSUME NEW e \in Deliveries, MarkedBy(e, k) PROVE MarkedBy(e, k)'
      BY <1>1, <1>2, <1>5, <3>2 DEF MarkedBy, Claimed
    <3>3. calls'[k] = calls[k] /\ calls[k] \in CallRow /\ CallFits(k)
      BY <1>3, <2>2 DEF ReplyInv, DoorTypeOK
    <3>4. Own(k)' <=> Own(k)
      BY <1>3, <2>2 DEF Own
    <3> QED BY <3>1, <3>2, <3>3, <3>4 DEF CallFits
  <2> QED BY <2>1, <2>2
<1> QED BY <1>6, <1>7, <1>8, <1>9

\* A call opened elsewhere is none of the conversation's.
LEMMA ElsewhereReplies ==
  ASSUME IInv, ReplyInv, NEW c \in Calls, OpensElsewhere(c)
  PROVE  /\ \A x \in Messages : MailFits(x)'
         /\ \A x \in Deliveries : InHandFits(x)'
         /\ \A x \in dutySent' : SentFits(x)'
         /\ \A k \in Calls : CallFits(k)'
<1> USE DEF IInv, Typed
<1>1. /\ UNCHANGED <<message, proc, dutySent, opener>>
      /\ \A k \in Calls \ {c} : calls'[k] = calls[k]
      /\ calls'[c].dutyAt \in {Null, Pending} /\ ~Own(c)
  BY DEF OpensElsewhere, OpenElsewhere, OpenedCall, NoCall, besideCalls, CallsExist, Own,
         DoorTypeOK
<1>2. \A k \in Calls : IsOpen(k) => k # c /\ IsOpen(k)'
  BY <1>1 DEF IsOpen, Own
<1>3. ASSUME NEW x \in Messages PROVE MailFits(x)'
  <2>1. MailFits(x) /\ message[x].call \in Calls \cup {Null}
    BY DEF ReplyInv, DoorTypeOK, MessageRow
  <2> QED BY <1>1, <1>2, <2>1 DEF MailFits
<1>4. ASSUME NEW d \in Deliveries PROVE InHandFits(d)'
  <2>1. /\ InHandFits(d) /\ proc[d].open \in Calls \cup {Null}
        /\ proc[d].pc = "attach" => proc[d].open # Null
    BY DEF ReplyInv, DoorTypeOK, Delivery, CarriesAMessage
  <2>2. proc[d].pc \in Asking /\ proc[d].open # Null =>
          calls'[proc[d].open] = calls[proc[d].open] /\ IsOpen(proc[d].open)'
    BY <1>1, <1>2, <2>1 DEF InHandFits
  <2> QED BY <1>1, <2>1, <2>2
          DEF InHandFits, Underway, Asking, Claimed, Settled, Answered
<1>5. ASSUME NEW d \in dutySent' PROVE SentFits(d)'
  <2>1. /\ d \in dutySent /\ SentFits(d) /\ proc[d].msg \in Messages /\ d \in Deliveries
    BY <1>1 DEF ReplyInv, SentFits, DoorTypeOK, CarriesAMessage
  <2>2. /\ message[proc[d].msg].call # Null => message[proc[d].msg].call \in Calls \ {c}
    BY <1>2, <2>1 DEF ReplyInv, MailFits, DoorTypeOK, MessageRow
  <2> QED BY <1>1, <2>1, <2>2 DEF SentFits
<1>6. ASSUME NEW k \in Calls PROVE CallFits(k)'
  <2>1. CASE k = c
    BY <1>1, <2>1, NullAssumption DEF CallFits, Own
  <2>2. CASE k # c
    BY <1>1, <2>2 DEF ReplyInv, CallFits, MarkedBy, Answered, Own
  <2> QED BY <2>1, <2>2
<1> QED BY <1>3, <1>4, <1>5, <1>6

\* What disturbed a call once disturbs it for good.
LEMMA DisturbedStays ==
  ASSUME IInv, [DoorNext]_doorVars, Undisturbed'
  PROVE  Undisturbed
<1> USE DEF IInv, Typed, DoorTypeOK
<1>1. doorStops = 0
  <2>1. doorStops \in Nat /\ (doorStops' = doorStops \/ doorStops' = doorStops + 1)
    <3>1. ASSUME NEW d \in Deliveries, DoorStep(d) PROVE doorStops' = doorStops
      BY <3>1
         DEF DoorStep, Recheck, ReadThread, ClaimReply, SendAccepted, ReleaseClaim,
             StoreReplyId, StoreReplyEcho, SettleAttach, AskSorter, RecordDutyReply,
             SettleVerdict, budget
    <3>2. ASSUME NEW d \in Deliveries, SendRefused(d) \/ ReceiveEcho(d) PROVE doorStops' = doorStops
      BY <3>2 DEF SendRefused, ReceiveEcho, budget
    <3>3. ASSUME NEW d \in Deliveries, Stop(d) PROVE doorStops' = doorStops + 1
      BY <3>3 DEF Stop
    <3>4. ASSUME NEW d \in Deliveries, NEW m \in Messages, Receive(d, m) PROVE doorStops' = doorStops
      BY <3>4 DEF Receive
    <3>5. ASSUME NEW c \in Calls,
                 \/ CloseCall(c) \/ ReturnCall(c) \/ RestoreCall(c)
                 \/ FlagByHand(c) \/ ClearFlag(c)
                 \/ \E byTerms, answered \in BOOLEAN : OpenElsewhere(c, byTerms, answered)
                 \/ \E other \in Calls : DuplicateCall(c, other)
          PROVE  doorStops' = doorStops
      BY <3>5 DEF OpenElsewhere, CloseCall, ReturnCall, RestoreCall, FlagByHand, ClearFlag, DuplicateCall,
                  besideCalls, budget
    <3>6. ASSUME NEW m \in Messages, RescueNoise(m) PROVE doorStops' = doorStops
      BY <3>6 DEF RescueNoise, budget
    <3>7. CASE UNCHANGED doorVars
      BY <3>7 DEF doorVars, besideCalls, budget
    <3>8. doorStops \in Nat
      BY DoorBoundsAssumption
    <3> QED BY <3>1, <3>2, <3>3, <3>4, <3>5, <3>6, <3>7, <3>8 DEF DoorNext
  <2> QED BY <2>1 DEF Undisturbed
<1>2. \A c \in Calls : calls[c].state # "closed"
  <2> SUFFICES ASSUME NEW c \in Calls, calls[c].state = "closed"
               PROVE  calls'[c].state = "closed"
    BY DEF Undisturbed
  <2>1. CASE SameCalls
    BY <2>1 DEF SameCalls
  <2>2. ASSUME NEW m \in Messages, NEW k \in Calls, Attaches(m, k) \/ Opens(m, k)
        PROVE  calls'[c].state = "closed"
    BY <2>2 DEF Attaches, Opens, FlaggedByTerms, CallRow
  <2>3. ASSUME NEW k \in Calls, CloseCall(k) \/ ReturnCall(k) \/ RestoreCall(k)
        PROVE  calls'[c].state = "closed"
    BY <2>3 DEF CloseCall, ReturnCall, RestoreCall, CallRow
  <2>4. ASSUME NEW k \in Calls, NEW other \in Calls, DuplicateCall(k, other)
        PROVE  calls'[c].state = "closed"
    BY <2>4 DEF DuplicateCall, CallRow
  <2>5. ASSUME NEW k \in Calls, OpensElsewhere(k) PROVE calls'[c].state = "closed"
    BY <2>5 DEF OpensElsewhere, OpenElsewhere
  <2> QED
    BY <2>1, <2>2, <2>3, <2>4, <2>5, NextCases DEF StepCases, NothingMoves, Stores, Filters
<1> QED BY <1>1, <1>2 DEF Undisturbed

LEMMA NextReplyInv ==
  ASSUME IInv, IInv', [DoorNext]_doorVars, Undisturbed, Undisturbed', ReplyInv
  PROVE  ReplyInv'
<1> DEFINE Fits == /\ \A x \in Messages : MailFits(x)
                   /\ \A x \in Deliveries : InHandFits(x)
                   /\ \A x \in dutySent : SentFits(x)
                   /\ \A k \in Calls : CallFits(k)
<1>0. /\ OneAtATime' /\ MaxInHand <= 1 /\ "return" \notin Office /\ "clear" \notin Office
      /\ \A c \in Calls : calls'[c].state # "closed"
      /\ doorStops \in Nat /\ doorStops = 0 /\ doorStops' = 0
  BY StaysOneAtATime DEF ReplyInv, Undisturbed, IInv
<1>1. NoneReturned'
  <2>1. StepCases /\ Typed /\ NoneReturned
    BY NextCases DEF ReplyInv, IInv
  <2> USE DEF Typed, DoorTypeOK, NoneReturned
  <2>2. CASE SameCalls
    BY <2>1, <2>2 DEF SameCalls
  <2>3. ASSUME NEW m \in Messages, NEW k \in Calls, Attaches(m, k) \/ Opens(m, k)
        PROVE  NoneReturned'
    <3>1. \A c \in Calls \ {k} : calls'[c] = calls[c]
      BY <2>1, <2>3 DEF Attaches, Opens
    <3>2. CASE Attaches(m, k)
      BY <2>1, <3>1, <3>2 DEF Attaches, FlaggedByTerms, CallRow
    <3>3. CASE Opens(m, k)
      BY <2>1, <3>1, <3>3 DEF Opens, OpenedCall, NoCall
    <3> QED BY <2>3, <3>2, <3>3
  <2>4. ASSUME NEW k \in Calls, CloseCall(k) PROVE NoneReturned'
    BY <2>1, <2>4 DEF CloseCall, CallRow
  <2>5. ASSUME NEW k \in Calls, NEW other \in Calls, DuplicateCall(k, other)
        PROVE  NoneReturned'
    BY <2>1, <2>5 DEF DuplicateCall, CallRow
  <2>6. ASSUME NEW k \in Calls, ReturnCall(k) \/ RestoreCall(k) PROVE FALSE
    BY <1>0, <2>6 DEF ReturnCall, RestoreCall
  <2>7. ASSUME NEW k \in Calls, OpensElsewhere(k) PROVE NoneReturned'
    BY <2>1, <2>7 DEF OpensElsewhere, OpenElsewhere, OpenedCall, NoCall
  <2> QED
    BY <2>1, <2>2, <2>3, <2>4, <2>5, <2>6, <2>7 DEF StepCases, NothingMoves, Stores, Filters
<1>2. ASSUME NEW d \in Deliveries, NEW m \in Messages, Receive(d, m) PROVE Fits'
  BY <1>0, <1>2, ReceiveReplies
<1>3. ASSUME NEW d \in Deliveries, DoorStep(d) \/ SendRefused(d) PROVE Fits'
  <2>1. StepFits(d) /\ StepEnds(d)
    BY <1>3, DoorReplies
  <2>2. Typed /\ Typed'
    BY DEF IInv
  <2> QED BY <2>1, <2>2, StepKeeps
<1>4. ASSUME NEW d \in Deliveries, Stop(d) PROVE FALSE
  BY <1>0, <1>4 DEF Stop
<1>5. ASSUME NEW c \in Calls,
             \/ CloseCall(c) \/ ReturnCall(c) \/ RestoreCall(c) \/ ClearFlag(c)
             \/ \E other \in Calls : DuplicateCall(c, other)
      PROVE  FALSE
  <2>1. CASE ReturnCall(c) \/ RestoreCall(c) \/ ClearFlag(c)
    BY <1>0, <2>1 DEF ReturnCall, RestoreCall, ClearFlag
  <2>2. CASE CloseCall(c) \/ \E other \in Calls : DuplicateCall(c, other)
    <3>1. calls'[c].state = "closed"
      BY <2>2 DEF CloseCall, DuplicateCall, IInv, Typed, DoorTypeOK, CallRow
    <3> QED BY <1>0, <3>1
  <2> QED BY <1>5, <2>1, <2>2
<1>6. ASSUME NEW c \in Calls, FlagByHand(c) PROVE Fits'
  BY <1>6, FlagReplies
<1>7. ASSUME NEW m \in Messages, RescueNoise(m) PROVE Fits'
  BY <1>7, RescueReplies
<1>o. ASSUME NEW c \in Calls, NEW byTerms \in BOOLEAN, NEW answered \in BOOLEAN,
             OpenElsewhere(c, byTerms, answered)
      PROVE  Fits'
  <2>1. OpensElsewhere(c)
    BY <1>o DEF OpensElsewhere
  <2> QED BY <2>1, ElsewhereReplies
<1>8. ASSUME UNCHANGED <<calls, message, proc, dutySent, opener>> PROVE Fits'
  <2>1. \A x \in Messages : MailFits(x)'
    BY <1>8 DEF ReplyInv, MailFits, IsOpen
  <2>2. \A x \in Deliveries : InHandFits(x)'
    BY <1>8 DEF ReplyInv, InHandFits, Answered, Settled, IsOpen
  <2>3. \A x \in dutySent' : SentFits(x)'
    BY <1>8 DEF ReplyInv, SentFits
  <2>4. \A k \in Calls : CallFits(k)'
    BY <1>8 DEF ReplyInv, CallFits, MarkedBy, Answered, Own
  <2> QED BY <2>1, <2>2, <2>3, <2>4
<1>e. ASSUME NEW d \in Deliveries, ReceiveEcho(d) PROVE Fits'
  BY <1>8, <1>e DEF ReceiveEcho
<1>u. ASSUME UNCHANGED doorVars PROVE Fits'
  BY <1>8, <1>u DEF doorVars, besideCalls
<1> HIDE DEF Fits
<1>10. OnOwnCalls'
  <2>1. ~MergedElsewhere'
    BY <1>0 DEF IInv, CallsExist, MergedElsewhere
  <2> QED BY <2>1, NextOnOwnCalls DEF ReplyInv
<1>9. Fits'
  BY <1>2, <1>3, <1>4, <1>5, <1>6, <1>7, <1>o, <1>e, <1>u DEF DoorNext
<1> QED BY <1>0, <1>1, <1>9, <1>10 DEF ReplyInv, Fits

LEMMA RepliesAreOne ==
  ASSUME IInv, ReplyInv
  PROVE  OneReplyPerCall /\ EmergencyIsAnswered
<1>1. ASSUME NEW c \in Calls PROVE Cardinality(RepliesOn(c)) <= 1
  <2>1. \A x, y \in RepliesOn(c) : x = y
    <3> SUFFICES ASSUME NEW x \in RepliesOn(c), NEW y \in RepliesOn(c), x # y PROVE FALSE
      OBVIOUS
    <3>0. /\ x \in dutySent /\ y \in dutySent /\ x \in Deliveries /\ y \in Deliveries
          /\ message[proc[x].msg].call = c /\ message[proc[y].msg].call = c /\ c # Null
          /\ SentFits(x) /\ SentFits(y) /\ InHandFits(x) /\ InHandFits(y)
      BY NullAssumption DEF RepliesOn, IInv, Typed, DoorTypeOK, ReplyInv
    <3>1. proc[x].pc \in {"record", "done"} /\ proc[y].pc \in {"record", "done"}
      BY <3>0 DEF SentFits, InHandFits, Underway, Asking, Settled
    <3>2. proc[x].pc = "done" \/ proc[y].pc = "done"
      BY <3>0, <3>1 DEF ReplyInv, OneAtATime, InTheDoor
    <3> QED BY <3>0, <3>1, <3>2, NullAssumption DEF SentFits
  <2>2. CASE RepliesOn(c) = {}
    BY <2>2, FS_EmptySet
  <2>3. CASE RepliesOn(c) # {}
    <3>1. PICK x \in RepliesOn(c) : TRUE
      BY <2>3
    <3>2. RepliesOn(c) = {x}
      BY <2>1, <3>1
    <3>3. Cardinality(RepliesOn(c)) = 1
      BY <3>2, FS_Singleton
    <3> QED BY <3>3
  <2> QED BY <2>2, <2>3
<1>2. OneReplyPerCall
  BY <1>1 DEF OneReplyPerCall
<1>3. EmergencyIsAnswered
  BY DEF EmergencyIsAnswered, ReplyInv, CallFits, Own, Answered, RepliesOn
<1> QED BY <1>2, <1>3

(* Where deliveries come one at a time, none of them stopped and the       *)
(* office closed no call and took no flag off, every call that the terms   *)
(* flag got a reply and no call got two, whatever the provider refuses,    *)
(* the channel repeats and the office flags by hand or rescues.            *)
THEOREM FlaggedCallsGetOneReply == DoorSpec => []FlaggedIsAnsweredOnce
<1> DEFINE H == IInv /\ (Undisturbed => ReplyInv)
<1>1. DoorInit => H
  <2> SUFFICES ASSUME DoorInit PROVE ReplyInv
    BY InitIInv
  <2>1. /\ \A d \in Deliveries : proc[d].pc = "idle" /\ d \notin dutySent
        /\ \A c \in Calls : calls[c] = NoCall
        /\ \A m \in Messages : /\ message[m].label = Null /\ message[m].call = Null
                               /\ message[m].duty = Null
    BY DEF DoorInit, NoDelivery
  <2>2. OneAtATime /\ NoneReturned
    BY <2>1 DEF OneAtATime, InTheDoor, NoneReturned, NoCall
  <2>3. \A m \in Messages : MailFits(m)
    BY <2>1, NullAssumption DEF MailFits
  <2>4. \A d \in Deliveries : InHandFits(d)
    BY <2>1 DEF InHandFits, Underway, Asking, Claimed
  <2>5. \A c \in Calls : CallFits(c)
    BY <2>1, NullAssumption DEF CallFits, NoCall
  <2>6. dutySent = {}
    BY DEF DoorInit
  <2>7. OnOwnCalls
    <3>1. /\ \A d \in Deliveries : /\ echo[d] = "absent"
                                   /\ proc[d].open = Null /\ proc[d].result = Null
          /\ \A m \in Messages : message[m].call = Null
      BY DEF DoorInit, NoDelivery
    <3> QED BY <3>1, CallsAssumption DEF OnOwnCalls
  <2> QED BY <2>2, <2>3, <2>4, <2>5, <2>6, <2>7 DEF ReplyInv
<1>2. H /\ [DoorNext]_doorVars => H'
  <2> SUFFICES ASSUME H, [DoorNext]_doorVars, Undisturbed' PROVE IInv' /\ ReplyInv'
    BY NextIInv
  <2>1. IInv' /\ Undisturbed
    BY NextIInv, DisturbedStays
  <2> QED BY <2>1, NextReplyInv
<1>3. H => FlaggedIsAnsweredOnce
  BY RepliesAreOne DEF FlaggedIsAnsweredOnce
<1> HIDE DEF H
<1> QED BY <1>1, <1>2, <1>3, PTL DEF DoorSpec
=============================================================================
