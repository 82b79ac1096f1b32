-------------------------- MODULE BackgroundProofs --------------------------
(***************************************************************************)
(* Proofs about what runs behind the requests: the mailbox, for any number *)
(* of instances, messages, pages and losses, and the thread of one call,   *)
(* for any number of tasks, failures and restarts.                         *)
(***************************************************************************)
EXTENDS Mailbox, CallThread, TLAPS

-----------------------------------------------------------------------------
(* The mailbox.  Every link a poll holds is covered like the stored one:   *)
(* whichever instance writes the cursor last, nothing behind it is missing.*)
Covered(n) == origin # NoLink /\ (origin + 1)..n \subseteq handed

PollHoldsCovered(p) ==
  /\ Polling(p, "page") => poll[p].link \in Nat /\ Covered(poll[p].link)
  /\ Polling(p, "deliver") =>
       /\ poll[p].next \in Nat /\ poll[p].at <= poll[p].next
       /\ Covered(poll[p].at)
  /\ Polling(p, "save") => poll[p].next \in Nat

MailboxInv ==
  /\ MailboxTypeOK
  /\ cursor.link # NoLink => Covered(cursor.link)
  /\ \A p \in Pollers : PollHoldsCovered(p)

LEMMA LinksAreNumbers ==
  /\ 0..MaxMail \subseteq Nat /\ NoLink \in Link /\ 0..MaxMail \subseteq Link
  /\ \A n \in Link : n # NoLink <=> n \in Nat
  /\ \A n \in Link : n # NoLink <=> n \in 0..MaxMail
BY MailboxAssumption DEF Link

\* The poll's record after a step.
LEMMA PollMoves ==
  ASSUME MailboxTypeOK, NEW p \in Pollers, NEW row \in Poll,
         poll' = [poll EXCEPT ![p] = row]
  PROVE  /\ poll' \in [Pollers -> Poll] /\ poll'[p] = row
         /\ \A q \in Pollers \ {p} : poll'[q] = poll[q]
BY DEF MailboxTypeOK

\* A step after which the messages handed over are still there, and the
\* origin is the same.
LEMMA OthersStayCovered ==
  ASSUME MailboxInv, handed \subseteq handed', origin' = origin,
         NEW q \in Pollers, poll'[q] = poll[q]
  PROVE  PollHoldsCovered(q)'
BY DEF MailboxInv, PollHoldsCovered, Covered, Polling

\* The poll that has ended holds nothing.
LEMMA EndedHoldsNothing ==
  ASSUME MailboxTypeOK, NEW p \in Pollers, EndPoll(p)
  PROVE  /\ poll' \in [Pollers -> Poll] /\ PollHoldsCovered(p)'
         /\ \A q \in Pollers \ {p} : poll'[q] = poll[q]
<1>1. Waiting \in Poll /\ Waiting.pc = "waiting"
  BY LinksAreNumbers, MailboxAssumption DEF Waiting, Poll
<1> HIDE DEF Waiting
<1> QED BY <1>1, PollMoves DEF EndPoll, PollHoldsCovered, Polling

LEMMA FewerFromLater ==
  ASSUME NEW i \in Nat, NEW j \in Nat, NEW n \in Nat, i <= j
  PROVE  (j + 1)..n \subseteq (i + 1)..n
OBVIOUS

LEMMA MailboxInitInv == MailboxInit => MailboxInv
<1> SUFFICES ASSUME MailboxInit PROVE MailboxInv
  OBVIOUS
<1>1. Waiting \in Poll /\ Waiting.pc = "waiting"
  BY LinksAreNumbers, MailboxAssumption DEF Waiting, Poll
<1>2. /\ poll \in [Pollers -> Poll] /\ cursor \in [watching: BOOLEAN, link: Link]
      /\ origin \in Link
  BY <1>1, LinksAreNumbers DEF MailboxInit
<1>3. MailboxTypeOK
  <2>1. arrived \in 0..MaxMail /\ stops \in 0..MaxStops /\ losses \in 0..MaxLosses
    BY MailboxAssumption DEF MailboxInit
  <2>2. hourOld \in BOOLEAN /\ handed \subseteq 1..MaxMail
    BY DEF MailboxInit
  <2> QED BY <1>2, <2>1, <2>2 DEF MailboxTypeOK
<1> QED BY <1>1, <1>3 DEF MailboxInit, MailboxInv, PollHoldsCovered, Polling

LEMMA SaveInv ==
  ASSUME MailboxInv, NEW p \in Pollers, SaveSuccess(p)
  PROVE  MailboxInv'
<1>1. /\ poll[p] \in Poll /\ poll[p].next \in Nat /\ origin \in Link
      /\ poll[p].next \in 0..MaxMail /\ cursor \in [watching: BOOLEAN, link: Link]
  BY LinksAreNumbers DEF MailboxInv, MailboxTypeOK, PollHoldsCovered, SaveSuccess, ReadyToSave,
                         PageHandedOver, Polling, Poll
<1>2. PICK next \in 0..MaxMail : next = poll[p].next
  BY <1>1
<1>3. /\ origin' \in Link /\ origin' # NoLink
      /\ origin # NoLink => origin <= origin'
      /\ Polling(p, "save") => next <= origin'
      /\ ~Polling(p, "save") => origin' = origin
  <2>1. CASE Polling(p, "save")
    BY <1>1, <1>2, <2>1, LinksAreNumbers DEF SaveSuccess
  <2>2. CASE ~Polling(p, "save")
    BY <1>1, <2>2, LinksAreNumbers
       DEF SaveSuccess, ReadyToSave, PageHandedOver, MailboxInv, PollHoldsCovered, Covered
  <2> QED BY <2>1, <2>2
<1>4. origin' \in Nat /\ handed' = handed
  BY <1>3, LinksAreNumbers DEF SaveSuccess
<1>5. \A n \in Nat : Covered(n) => Covered(n)'
  <2> SUFFICES ASSUME NEW n \in Nat, Covered(n) PROVE Covered(n)'
    OBVIOUS
  <2>1. origin \in Nat
    BY <1>1, LinksAreNumbers DEF Covered
  <2>3. origin <= origin'
    BY <1>3 DEF Covered
  <2>2. (origin' + 1)..n \subseteq (origin + 1)..n
    BY <1>4, <2>1, <2>3, FewerFromLater
  <2> QED BY <1>3, <1>4, <2>2 DEF Covered
<1>6. Covered(next)'
  <2>1. CASE Polling(p, "save")
    <3>1. (origin' + 1)..next = {}
      BY <1>2, <1>3, <1>4, <2>1
    <3> QED BY <1>3, <3>1 DEF Covered
  <2>2. CASE ~Polling(p, "save")
    <3>1. Covered(next)
      BY <1>2, <2>2 DEF SaveSuccess, ReadyToSave, PageHandedOver, MailboxInv, PollHoldsCovered
    <3> QED BY <1>2, <1>5, <3>1
  <2> QED BY <2>1, <2>2
<1>7. cursor' \in [watching: BOOLEAN, link: Link] /\ cursor'.link = next
  BY <1>1, <1>2, LinksAreNumbers DEF SaveSuccess
<1>8. /\ poll' \in [Pollers -> Poll] /\ PollHoldsCovered(p)'
      /\ \A q \in Pollers \ {p} : poll'[q] = poll[q]
  <2>1. CASE poll[p].last
    BY <2>1, EndedHoldsNothing DEF SaveSuccess, MailboxInv
  <2>2. CASE ~poll[p].last
    <3> DEFINE row == [Waiting EXCEPT !.pc = "page", !.link = next]
    <3>1. row \in Poll /\ row.pc = "page" /\ row.link = next
      <4>1. next \in Link /\ NoLink \in Link /\ 0 \in 0..MaxMail
        BY LinksAreNumbers, MailboxAssumption
      <4> QED BY <4>1 DEF Waiting, Poll
    <3>2. poll' = [poll EXCEPT ![p] = row]
      BY <1>2, <2>2 DEF SaveSuccess
    <3> HIDE DEF row
    <3> QED BY <1>6, <3>1, <3>2, PollMoves, LinksAreNumbers
            DEF MailboxInv, PollHoldsCovered, Polling
  <2> QED BY <2>1, <2>2
<1>9. ASSUME NEW q \in Pollers \ {p} PROVE PollHoldsCovered(q)'
  <2>1. poll'[q] = poll[q] /\ PollHoldsCovered(q) /\ poll[q] \in Poll
    BY <1>8 DEF MailboxInv, MailboxTypeOK
  <2>2. poll[q].at \in Nat
    BY <2>1, LinksAreNumbers DEF Poll
  <2> QED BY <1>5, <2>1, <2>2 DEF PollHoldsCovered, Polling
<1>10. MailboxTypeOK'
  BY <1>3, <1>7, <1>8 DEF SaveSuccess, MailboxInv, MailboxTypeOK
<1> QED BY <1>6, <1>7, <1>8, <1>9, <1>10 DEF MailboxInv

LEMMA PollStepInv ==
  ASSUME MailboxInv, NEW p \in Pollers,
         \/ TimerFires(p) \/ ReadCursor(p) \/ StartCursor(p) \/ ReadPage(p)
         \/ HandOver(p) \/ DoorThrows(p) \/ ReadFails(p) \/ InstanceStops(p)
  PROVE  MailboxInv'
<1>1. poll[p] \in Poll /\ arrived \in 0..MaxMail /\ PollHoldsCovered(p)
  BY DEF MailboxInv, MailboxTypeOK
<1>a. /\ cursor'.link = cursor.link /\ cursor' \in [watching: BOOLEAN, link: Link]
      /\ origin' = origin /\ arrived' = arrived /\ hourOld' \in BOOLEAN
  BY DEF TimerFires, ReadCursor, StartCursor, ReadPage, HandOver, DoorThrows, ReadFails,
         InstanceStops, MailboxInv, MailboxTypeOK
<1>b. stops' \in 0..MaxStops /\ losses' \in 0..MaxLosses
  <2>1. stops' \in {stops, stops + 1} /\ (stops' # stops => stops < MaxStops)
    BY DEF TimerFires, ReadCursor, StartCursor, ReadPage, HandOver, DoorThrows, ReadFails,
           InstanceStops
  <2>2. losses' \in {losses, losses + 1} /\ (losses' # losses => losses < MaxLosses)
    BY DEF TimerFires, ReadCursor, StartCursor, ReadPage, HandOver, DoorThrows, ReadFails,
           InstanceStops
  <2> QED BY <2>1, <2>2, MailboxAssumption DEF MailboxInv, MailboxTypeOK
<1>2. ASSUME handed \subseteq handed', handed' \subseteq 1..MaxMail,
             poll' \in [Pollers -> Poll], PollHoldsCovered(p)',
             \A q \in Pollers \ {p} : poll'[q] = poll[q]
      PROVE  MailboxInv'
  <2>1. MailboxTypeOK'
    BY <1>2, <1>a, <1>b DEF MailboxInv, MailboxTypeOK
  <2>2. \A q \in Pollers : PollHoldsCovered(q)'
    BY <1>2, <1>a, OthersStayCovered
  <2>3. cursor'.link # NoLink => Covered(cursor.link)'
    BY <1>2, <1>a DEF MailboxInv, Covered
  <2> QED BY <2>1, <2>2, <2>3 DEF MailboxInv
<1>3. CASE ReadFails(p) /\ ~EndPoll(p)
  <2> DEFINE row == [poll[p] EXCEPT !.pc = "hung"]
  <2>1. row \in Poll /\ row.pc = "hung"
    BY <1>1 DEF Poll
  <2>2. poll' = [poll EXCEPT ![p] = row] /\ handed' = handed
    BY <1>3 DEF ReadFails
  <2> HIDE DEF row
  <2>3. /\ poll' \in [Pollers -> Poll] /\ poll'[p] = row
        /\ \A q \in Pollers \ {p} : poll'[q] = poll[q]
    BY <2>1, <2>2, PollMoves DEF MailboxInv
  <2> QED BY <1>2, <2>1, <2>2, <2>3
          DEF PollHoldsCovered, Polling, MailboxInv, MailboxTypeOK
<1>4. CASE EndPoll(p) /\ handed' = handed
  BY <1>2, <1>4, EndedHoldsNothing DEF MailboxInv, MailboxTypeOK
<1>5. CASE TimerFires(p)
  <2> DEFINE row == [poll[p] EXCEPT !.pc = "cursor"]
  <2>1. row \in Poll /\ row.pc = "cursor"
    BY <1>1 DEF Poll
  <2>2. poll' = [poll EXCEPT ![p] = row] /\ handed' = handed
    BY <1>5 DEF TimerFires
  <2> HIDE DEF row
  <2>3. /\ poll' \in [Pollers -> Poll] /\ poll'[p] = row
        /\ \A q \in Pollers \ {p} : poll'[q] = poll[q]
    BY <2>1, <2>2, PollMoves DEF MailboxInv
  <2> QED BY <1>2, <2>1, <2>2, <2>3
          DEF PollHoldsCovered, Polling, MailboxInv, MailboxTypeOK
<1>6. CASE ReadCursor(p)
  <2>1. PICK link \in Link : link = cursor.link
    BY DEF MailboxInv, MailboxTypeOK
  <2> DEFINE row == [Waiting EXCEPT !.pc = IF link = NoLink THEN "start" ELSE "page",
                                    !.link = link]
  <2>2. /\ row \in Poll /\ row.pc = IF link = NoLink THEN "start" ELSE "page"
        /\ row.link = link
    <3>1. NoLink \in Link /\ 0 \in 0..MaxMail
      BY LinksAreNumbers, MailboxAssumption
    <3> QED BY <3>1 DEF Poll, Waiting
  <2>3. poll' = [poll EXCEPT ![p] = row] /\ handed' = handed
    BY <1>6, <2>1 DEF ReadCursor
  <2> HIDE DEF row
  <2>4. /\ poll' \in [Pollers -> Poll] /\ poll'[p] = row
        /\ \A q \in Pollers \ {p} : poll'[q] = poll[q]
    BY <2>2, <2>3, PollMoves DEF MailboxInv
  <2>5. link # NoLink => link \in Nat /\ Covered(link)'
    BY <1>a, <2>1, <2>3, LinksAreNumbers DEF MailboxInv, Covered
  <2>6. PollHoldsCovered(p)'
    BY <2>2, <2>4, <2>5 DEF PollHoldsCovered, Polling
  <2> QED BY <1>2, <2>3, <2>4, <2>6 DEF MailboxInv, MailboxTypeOK
<1>7. CASE StartCursor(p)
  <2> DEFINE row == [poll[p] EXCEPT !.pc = "save", !.next = arrived, !.last = TRUE]
  <2>1. row \in Poll /\ row.pc = "save" /\ row.next = arrived /\ arrived \in Nat
    BY <1>1, LinksAreNumbers DEF Poll
  <2>2. poll' = [poll EXCEPT ![p] = row] /\ handed' = handed
    BY <1>1, <1>7 DEF StartCursor, MailboxInv, MailboxTypeOK
  <2> HIDE DEF row
  <2>3. /\ poll' \in [Pollers -> Poll] /\ poll'[p] = row
        /\ \A q \in Pollers \ {p} : poll'[q] = poll[q]
    BY <2>1, <2>2, PollMoves DEF MailboxInv
  <2> QED BY <1>2, <2>1, <2>2, <2>3
          DEF PollHoldsCovered, Polling, MailboxInv, MailboxTypeOK
<1>8. CASE ReadPage(p)
  <2>1. PICK next \in poll[p].link..arrived :
          poll' = [poll EXCEPT ![p].pc = "deliver", ![p].next = next,
                               ![p].at = poll[p].link, ![p].last = next = arrived]
    BY <1>8 DEF ReadPage
  <2>2. PICK link \in 0..MaxMail : link = poll[p].link /\ Covered(link)
    BY <1>1, <1>8, LinksAreNumbers DEF ReadPage, PollHoldsCovered, Poll
  <2>3. next \in 0..MaxMail /\ link <= next
    BY <1>1, <2>1, <2>2, MailboxAssumption
  <2> DEFINE row == [poll[p] EXCEPT !.pc = "deliver", !.next = next, !.at = link,
                                    !.last = (next = arrived)]
  <2>4. row \in Poll /\ row.pc = "deliver" /\ row.next = next /\ row.at = link
    BY <1>1, <2>2, <2>3, LinksAreNumbers DEF Poll
  <2>5. poll' = [poll EXCEPT ![p] = row] /\ handed' = handed
    BY <1>1, <1>8, <2>1, <2>2 DEF ReadPage, MailboxInv, MailboxTypeOK
  <2> HIDE DEF row
  <2>6. /\ poll' \in [Pollers -> Poll] /\ poll'[p] = row
        /\ \A q \in Pollers \ {p} : poll'[q] = poll[q]
    BY <2>4, <2>5, PollMoves DEF MailboxInv
  <2>7. Covered(link)'
    BY <1>a, <2>2, <2>5 DEF Covered
  <2>8. PollHoldsCovered(p)'
    BY <2>2, <2>3, <2>4, <2>6, <2>7, LinksAreNumbers DEF PollHoldsCovered, Polling
  <2> QED BY <1>2, <2>5, <2>6, <2>8 DEF MailboxInv, MailboxTypeOK
<1>9. CASE HandOver(p)
  <2>1. PICK at \in 0..MaxMail : at = poll[p].at /\ Covered(at)
    BY <1>1, <1>9 DEF HandOver, PollHoldsCovered, Poll
  <2>2. PICK next \in 0..MaxMail : next = poll[p].next /\ at < next
    BY <1>1, <1>9, <2>1, LinksAreNumbers DEF HandOver, PollHoldsCovered, Poll
  <2> DEFINE m == at + 1
             row == [poll[p] EXCEPT !.at = m]
  <2>3. m \in 1..MaxMail /\ m <= next
    BY <2>1, <2>2, MailboxAssumption
  <2>4. row \in Poll /\ row.pc = "deliver" /\ row.next = next /\ row.at = m
    BY <1>1, <1>9, <2>2, <2>3 DEF Poll, HandOver, Polling
  <2>5. poll' = [poll EXCEPT ![p] = row] /\ handed' = handed \cup {m}
    BY <1>9, <2>1 DEF HandOver
  <2> HIDE DEF row
  <2>6. /\ poll' \in [Pollers -> Poll] /\ poll'[p] = row
        /\ \A q \in Pollers \ {p} : poll'[q] = poll[q]
    BY <2>4, <2>5, PollMoves DEF MailboxInv
  <2>7. \A n \in Nat : n = m => Covered(n)'
    <3>1. origin \in Nat
      BY <2>1, LinksAreNumbers DEF Covered, MailboxInv, MailboxTypeOK
    <3>2. (origin + 1)..m \subseteq ((origin + 1)..at) \cup {m}
      BY <2>1, <3>1
    <3> QED BY <1>a, <2>1, <2>5, <3>2 DEF Covered
  <2>8. PollHoldsCovered(p)'
    BY <2>2, <2>3, <2>4, <2>6, <2>7, LinksAreNumbers DEF PollHoldsCovered, Polling
  <2>9. handed' \subseteq 1..MaxMail
    BY <2>3, <2>5 DEF MailboxInv, MailboxTypeOK
  <2> QED BY <1>2, <2>5, <2>6, <2>8, <2>9
<1> QED BY <1>3, <1>4, <1>5, <1>6, <1>7, <1>8, <1>9 DEF DoorThrows, ReadFails, InstanceStops

LEMMA MailboxNextInv == MailboxInv /\ [MailboxNext]_mailboxVars => MailboxInv'
<1> SUFFICES ASSUME MailboxInv, [MailboxNext]_mailboxVars PROVE MailboxInv'
  OBVIOUS
<1>1. CASE Arrive \/ HourPasses \/ UNCHANGED mailboxVars
  <2>1. UNCHANGED <<cursor, poll, handed, origin, stops, losses>>
    BY <1>1 DEF Arrive, HourPasses, mailboxVars
  <2>2. arrived' \in 0..MaxMail
    BY <1>1, MailboxAssumption
       DEF Arrive, HourPasses, mailboxVars, MailboxInv, MailboxTypeOK
  <2>5. hourOld' \in BOOLEAN
    BY <1>1 DEF Arrive, HourPasses, mailboxVars, MailboxInv, MailboxTypeOK
  <2>3. MailboxTypeOK'
    BY <2>1, <2>2, <2>5 DEF MailboxInv, MailboxTypeOK
  <2>4. \A q \in Pollers : PollHoldsCovered(q)'
    BY <2>1, OthersStayCovered
  <2> QED BY <2>1, <2>3, <2>4 DEF MailboxInv, Covered
<1> QED BY <1>1, SaveInv, PollStepInv DEF MailboxNext

(* The cursor, the polls and what they read keep their types.              *)
THEOREM MailboxTypeCorrect == MailboxSpec => []MailboxTypeOK
<1>1. MailboxInv => MailboxTypeOK
  BY DEF MailboxInv
<1> QED BY <1>1, MailboxInitInv, MailboxNextInv, PTL DEF MailboxSpec

(* A message behind the stored cursor has been handed to the door, from    *)
(* the newest start on, whatever fails, stops or polls beside it.          *)
THEOREM MailIsNeverSkipped == MailboxSpec => []CursorSkipsNoMail
<1>1. MailboxInv => CursorSkipsNoMail
  BY DEF MailboxInv, Covered, CursorSkipsNoMail
<1> QED BY <1>1, MailboxInitInv, MailboxNextInv, PTL DEF MailboxSpec

-----------------------------------------------------------------------------
(* The thread of a call.  A task past its checks has seen a thread that is *)
(* neither absent nor skipped; a question or a draft has seen a turn; the  *)
(* number a task holds follows one on the thread.                          *)
Writing(t) == task[t].pc \in {"check", "model", "ordinal", "insert", "ready"}

TaskFits(t) ==
  /\ task[t].pc \in {"begin", "open", "load"} => task[t].kind \in {"start", "refresh"}
  /\ Writing(t) =>
       /\ task[t].kind \in {"start", "refresh", "followUp", "draft"}
       /\ thread \notin {"absent", "skipped"}
       /\ task[t].kind \in {"followUp", "draft"} => turns # {}
  /\ task[t].pc = "ready" => turns # {}
  /\ task[t].pc = "insert" =>
       /\ task[t].ordinal = 0 => task[t].kind \in {"start", "refresh"}
       /\ task[t].ordinal > 0 =>
            \E y \in turns : y.ordinal = task[t].ordinal - 1
  /\ Writing(t) /\ task[t].kind = "draft" /\ task[t].pc # "ready" =>
       \E y \in turns : /\ y.kind = "brief" /\ y.by = task[t].source
                        /\ task[t].pc = "insert" => y.ordinal < task[t].ordinal
  /\ task[t].pc \in {"mark", "record"} /\ call.channel = "EMAIL" => t \in sent
  /\ task[t].pc \in {"mail", "mark"} => ~task[t].mark
  /\ task[t].pc = "record" /\ task[t].mark =>
       \E x \in turns : x.kind = "draft" /\ x.by = task[t].source

SomeTurnIsLast ==
  turns # {} => \E x \in turns : \A y \in turns : y.ordinal <= x.ordinal

ThreadFits ==
  /\ thread \in {"absent", "skipped"} => turns = {}
  /\ thread = "ready" => turns # {}
  /\ SomeTurnIsLast /\ BriefComesFirst /\ DraftFollowsItsBrief /\ RepliesAreTold

CallThreadInv ==
  /\ CallThreadTypeOK /\ ThreadFits
  /\ \A t \in Tasks : TaskFits(t)

LEMMA NextOrdinalFollows ==
  ASSUME CallThreadInv
  PROVE  /\ NextOrdinal \in Nat
         /\ \A y \in turns : y.ordinal < NextOrdinal
         /\ NextOrdinal > 0 => \E y \in turns : y.ordinal = NextOrdinal - 1
         /\ turns # {} => NextOrdinal > 0
<1>1. \A y \in turns : y.ordinal \in Nat
  BY DEF CallThreadInv, CallThreadTypeOK, Turn
<1>2. CASE turns = {}
  BY <1>2 DEF NextOrdinal
<1>3. CASE turns # {}
  <2> DEFINE S == {x.ordinal : x \in turns}
  <2>1. \E n \in S : \A m \in S : n >= m
    BY <1>1, <1>3 DEF CallThreadInv, ThreadFits, SomeTurnIsLast
  <2>2. Max(S) \in S /\ \A m \in S : Max(S) >= m
    BY <2>1 DEF Max
  <2>3. PICK x \in turns : x.ordinal = Max(S)
    BY <2>2
  <2>4. NextOrdinal = x.ordinal + 1
    BY <1>3, <2>3 DEF NextOrdinal
  <2>5. \A y \in turns : y.ordinal <= x.ordinal
    BY <1>1, <2>2, <2>3
  <2> HIDE DEF S
  <2>6. x.ordinal \in Nat /\ NextOrdinal - 1 = x.ordinal
    BY <1>1, <2>3, <2>4
  <2> QED BY <1>1, <2>4, <2>5, <2>6
<1> QED BY <1>2, <1>3

\* A task that does not move, or ends, in a step that takes nothing back.
LEMMA OthersFit ==
  ASSUME turns \subseteq turns', sent \subseteq sent', call'.channel = call.channel,
         thread \notin {"absent", "skipped"} => thread' \notin {"absent", "skipped"},
         NEW t, TaskFits(t), task'[t] = task[t] \/ task'[t].pc \in Ended
  PROVE  TaskFits(t)'
<1>1. CASE task'[t].pc \in Ended
  BY <1>1 DEF TaskFits, Writing, Ended
<1>2. CASE task'[t] = task[t]
  BY <1>2 DEF TaskFits, Writing
<1> QED BY <1>1, <1>2

LEMMA TaskMoves ==
  ASSUME CallThreadTypeOK, NEW t \in Tasks, NEW row \in Task,
         task' = [task EXCEPT ![t] = row]
  PROVE  /\ task' \in [Tasks -> Task] /\ task'[t] = row
         /\ \A s \in Tasks \ {t} : task'[s] = task[s]
BY DEF CallThreadTypeOK

\* Where a task goes it takes its fields.
LEMMA GotoKeeps ==
  ASSUME CallThreadTypeOK, NEW t \in Tasks, NEW step \in Step, Goto(t, step)
  PROVE  /\ task' \in [Tasks -> Task]
         /\ task'[t].pc = step /\ task'[t].kind = task[t].kind
         /\ task'[t].ordinal = task[t].ordinal /\ task'[t].source = task[t].source
         /\ task'[t].mark = task[t].mark /\ task'[t].skip = task[t].skip
         /\ task'[t].again = task[t].again
         /\ \A s \in Tasks \ {t} : task'[s] = task[s]
<1> DEFINE row == [task[t] EXCEPT !.pc = step]
<1>1. task[t] \in Task
  BY DEF CallThreadTypeOK
<1>2. /\ row \in Task /\ row.pc = step /\ row.kind = task[t].kind
      /\ row.ordinal = task[t].ordinal /\ row.source = task[t].source
      /\ row.mark = task[t].mark /\ row.skip = task[t].skip /\ row.again = task[t].again
  BY <1>1 DEF Task
<1>3. task' = [task EXCEPT ![t] = row]
  BY DEF Goto
<1> HIDE DEF row
<1> QED BY <1>2, <1>3, TaskMoves

\* A step of one task that adds no turn and no reply.
LEMMA TaskStepInv ==
  ASSUME CallThreadInv, NEW t \in Tasks, task' \in [Tasks -> Task],
         \A s \in Tasks \ {t} : task'[s] = task[s],
         UNCHANGED <<turns, replies>>, call'.channel = call.channel,
         call' \in [state: {"NEW", "IDENTIFIED", "CLOSED"}, returned: BOOLEAN,
                    channel: Channels],
         guarantor' \in BOOLEAN, enabled' \in BOOLEAN,
         thread' \in {"absent", "writing", "ready", "skipped"},
         thread' # thread => thread = "absent" \/ (thread' = "ready" /\ turns # {}),
         sent \subseteq sent', sent' \subseteq Tasks,
         modelFailures' \in 0..ModelFailures, threadRestarts' \in 0..ThreadRestarts,
         switches' \in 0..MaxSwitches,
         thread' = "ready" => turns # {}, thread' = "absent" => thread = "absent",
         thread' = "skipped" => thread \in {"absent", "skipped"},
         TaskFits(t)'
  PROVE  CallThreadInv'
<1>1. CallThreadTypeOK'
  BY DEF CallThreadInv, CallThreadTypeOK
<1>2. \A s \in Tasks : TaskFits(s)'
  <2> SUFFICES ASSUME NEW s \in Tasks, s # t PROVE TaskFits(s)'
    OBVIOUS
  <2>1. thread \notin {"absent", "skipped"} => thread' \notin {"absent", "skipped"}
    OBVIOUS
  <2>2. turns' = turns /\ TaskFits(s) /\ task'[s] = task[s]
    BY DEF CallThreadInv
  <2> QED BY <2>1, <2>2, OthersFit
<1>3. ThreadFits'
  BY DEF CallThreadInv, ThreadFits, SomeTurnIsLast, BriefComesFirst, DraftFollowsItsBrief,
         RepliesAreTold, Drafts, Briefs
<1> QED BY <1>1, <1>2, <1>3 DEF CallThreadInv

\* What a step of one task leaves alone as a rule.
Still == UNCHANGED <<turns, replies, sent, bounds>> /\ call'.channel = call.channel

LEMMA StillSteps ==
  ASSUME CallThreadInv, Still, UNCHANGED <<call, guarantor, enabled, thread>>,
         NEW t \in Tasks, task' \in [Tasks -> Task],
         \A s \in Tasks \ {t} : task'[s] = task[s], TaskFits(t)'
  PROVE  CallThreadInv'
BY TaskStepInv DEF Still, bounds, CallThreadInv, CallThreadTypeOK, ThreadFits

LEMMA LaunchInv ==
  ASSUME CallThreadInv, NEW t \in Tasks,
         \/ Identify(t) \/ MessageLands(t) \/ Refresh(t) \/ Send(t)
         \/ \E b \in BOOLEAN : FollowUp(t, b) \/ Draft(t, b)
  PROVE  CallThreadInv'
<1>1. ASSUME NEW kind \in Kind, NEW step \in Step, NEW source \in Tasks \cup {Nobody},
             task' = [task EXCEPT ![t] = [Idle EXCEPT !.kind = kind, !.source = source,
                                                      !.pc = step]]
      PROVE  /\ task' \in [Tasks -> Task] /\ \A s \in Tasks \ {t} : task'[s] = task[s]
             /\ task'[t].pc = step /\ task'[t].kind = kind /\ task'[t].source = source
             /\ task'[t].mark = FALSE
  <2> DEFINE row == [Idle EXCEPT !.kind = kind, !.source = source, !.pc = step]
  <2>1. /\ row \in Task /\ row.pc = step /\ row.kind = kind /\ row.source = source
        /\ row.mark = FALSE
    BY DEF Idle, Task
  <2>2. task' = [task EXCEPT ![t] = row]
    BY <1>1
  <2> HIDE DEF row
  <2> QED BY <2>1, <2>2, TaskMoves DEF CallThreadInv
<1>2. ASSUME NEW kind \in Kind, NEW step \in Step, Launch(t, kind, step)
      PROVE  /\ task' \in [Tasks -> Task] /\ \A s \in Tasks \ {t} : task'[s] = task[s]
             /\ task'[t].pc = step /\ task'[t].kind = kind
             /\ task'[t].mark = FALSE
  <2> DEFINE row == [Idle EXCEPT !.kind = kind, !.pc = step]
  <2>1. row \in Task /\ row.pc = step /\ row.kind = kind /\ row.mark = FALSE
    BY DEF Idle, Task
  <2>2. task' = [task EXCEPT ![t] = row]
    BY <1>2 DEF Launch
  <2> HIDE DEF row
  <2> QED BY <2>1, <2>2, TaskMoves DEF CallThreadInv
<1>3. CASE Identify(t) \/ MessageLands(t)
  <2>1. Launch(t, "start", "begin")
    BY <1>3 DEF Identify, MessageLands
  <2>2. TaskFits(t)'
    BY <2>1, <1>2 DEF Kind, Step, TaskFits, Writing
  <2>3. /\ call'.channel = call.channel
        /\ call' \in [state: {"NEW", "IDENTIFIED", "CLOSED"}, returned: BOOLEAN,
                      channel: Channels]
    BY <1>3 DEF Identify, MessageLands, office, CallThreadInv, CallThreadTypeOK
  <2>4. UNCHANGED <<guarantor, enabled, thread, turns, replies, sent, bounds>>
    BY <1>3 DEF Identify, MessageLands, office
  <2> QED BY <2>1, <1>2, <2>2, <2>3, <2>4, TaskStepInv
          DEF Kind, Step, bounds, CallThreadInv, CallThreadTypeOK, ThreadFits
<1>4. CASE Refresh(t)
  <2>1. Launch(t, "refresh", "load")
    BY <1>4 DEF Refresh
  <2>2. TaskFits(t)'
    BY <2>1, <1>2 DEF Kind, Step, TaskFits, Writing
  <2>3. Still /\ UNCHANGED <<call, guarantor, enabled, thread>>
    BY <1>4 DEF Refresh, Still, office
  <2> QED BY <2>1, <1>2, <2>2, <2>3, StillSteps DEF Kind, Step
<1>5. ASSUME NEW b \in BOOLEAN, FollowUp(t, b) PROVE CallThreadInv'
  <2>1. PICK step \in {"ordinal", "check"} : Launch(t, "followUp", step)
    BY <1>5 DEF FollowUp
  <2>2. thread = "ready" /\ Still /\ UNCHANGED <<call, guarantor, enabled, thread>>
    BY <1>5 DEF FollowUp, Still, office
  <2>3. turns # {}
    BY <2>2 DEF CallThreadInv, ThreadFits
  <2>4. TaskFits(t)'
    BY <2>1, <2>2, <2>3, <1>2 DEF Kind, Step, TaskFits, Writing, Still
  <2> QED BY <2>1, <1>2, <2>2, <2>4, StillSteps DEF Kind, Step
<1>6. ASSUME NEW b \in BOOLEAN, Draft(t, b) PROVE CallThreadInv'
  <2>1. PICK brief \in DraftSource : \E step \in {"model", "ordinal"} :
          task' = [task EXCEPT ![t] =
            [Idle EXCEPT !.kind = "draft", !.source = brief.by, !.pc = step]]
    BY <1>6 DEF Draft
  <2>2. thread = "ready" /\ Still /\ UNCHANGED <<call, guarantor, enabled, thread>>
    BY <1>6 DEF Draft, Still, office
  <2>3. brief \in turns /\ brief.kind = "brief" /\ brief.by \in Tasks
    BY <2>1 DEF DraftSource, LastOf, Briefs, CallThreadInv, CallThreadTypeOK, Turn
  <2>6. PICK step \in {"model", "ordinal"} :
          task' = [task EXCEPT ![t] =
            [Idle EXCEPT !.kind = "draft", !.source = brief.by, !.pc = step]]
    BY <2>1
  <2>7. step \in Step /\ "draft" \in Kind /\ brief.by \in Tasks \cup {Nobody}
    BY <2>3 DEF Step, Kind
  <2>4. /\ task' \in [Tasks -> Task] /\ \A s \in Tasks \ {t} : task'[s] = task[s]
        /\ task'[t].pc = step /\ task'[t].kind = "draft"
        /\ task'[t].source = brief.by /\ task'[t].mark = FALSE
    BY <2>6, <2>7, <1>1
  <2>5. TaskFits(t)'
    BY <2>2, <2>3, <2>4 DEF TaskFits, Writing, Still
  <2> QED BY <2>2, <2>4, <2>5, StillSteps
<1>7. CASE Send(t)
  <2>1. PICK text \in {x.by : x \in Drafts} \cup {Nobody} :
          task' = [task EXCEPT ![t] =
            [Idle EXCEPT !.kind = "send", !.source = text,
                         !.pc = IF call.channel = "EMAIL" THEN "mail" ELSE "mark"]]
    BY <1>7 DEF Send
  <2>2. Still /\ UNCHANGED <<call, guarantor, enabled, thread>>
    BY <1>7 DEF Send, Still, office
  <2>3. text \in Tasks \cup {Nobody}
    BY <2>1 DEF Drafts, CallThreadInv, CallThreadTypeOK, Turn
  <2>4. PICK step \in Step : step = IF call.channel = "EMAIL" THEN "mail" ELSE "mark"
    BY DEF Step
  <2>5. /\ task' \in [Tasks -> Task] /\ \A s \in Tasks \ {t} : task'[s] = task[s]
        /\ task'[t].pc = step /\ task'[t].kind = "send" /\ task'[t].mark = FALSE
    BY <2>1, <2>3, <2>4, <1>1 DEF Kind
  <2>6. TaskFits(t)'
    BY <2>2, <2>4, <2>5 DEF TaskFits, Writing, Still
  <2> QED BY <2>2, <2>5, <2>6, StillSteps
<1> QED BY <1>3, <1>4, <1>5, <1>6, <1>7

LEMMA GoInv ==
  ASSUME CallThreadInv, NEW t \in Tasks,
         \/ BeginBrief(t) \/ OpenThread(t) \/ LoadThread(t) \/ CheckThread(t)
         \/ ModelAnswers(t) \/ ReadOrdinal(t) \/ MarkReady(t)
         \/ MailAccepted(t) \/ ReadMark(t) \/ Fails(t, "model") \/ Fails(t, "mail")
  PROVE  CallThreadInv'
<1>0. task[t] \in Task /\ TaskFits(t) /\ CallThreadTypeOK
  BY DEF CallThreadInv, CallThreadTypeOK
<1>1. CASE BeginBrief(t)
  <2>1. Still /\ UNCHANGED <<call, guarantor, enabled, thread>>
    BY <1>1 DEF BeginBrief, Still, office
  <2>2. CASE Goto(t, "refused")
    <3>1. TaskFits(t)'
      BY <1>0, <2>2, GotoKeeps DEF Step, TaskFits, Writing
    <3> QED BY <1>0, <2>1, <2>2, <3>1, GotoKeeps, StillSteps DEF Step
  <2>3. CASE ~Goto(t, "refused")
    <3>1. PICK skip \in BOOLEAN : skip = (guarantor \/ ~enabled \/ call.channel = "WHATSAPP")
      OBVIOUS
    <3> DEFINE row == [task[t] EXCEPT !.pc = "open", !.skip = skip]
    <3>2. row \in Task /\ row.pc = "open" /\ row.kind = task[t].kind
      BY <1>0 DEF Task, Step
    <3>3. task' = [task EXCEPT ![t] = row]
      BY <1>0, <1>1, <2>3, <3>1 DEF BeginBrief, CallThreadTypeOK
    <3> HIDE DEF row
    <3>4. /\ task' \in [Tasks -> Task] /\ task'[t] = row
          /\ \A s \in Tasks \ {t} : task'[s] = task[s]
      BY <1>0, <3>2, <3>3, TaskMoves
    <3>5. TaskFits(t)'
      BY <1>0, <1>1, <3>2, <3>4 DEF BeginBrief, At, TaskFits, Writing
    <3> QED BY <2>1, <3>4, <3>5, StillSteps
  <2> QED BY <2>2, <2>3
<1>2. CASE OpenThread(t)
  <2>1. PICK step \in {"load", "done"} :
          /\ Goto(t, step)
          /\ step = IF thread = "absent" /\ ~task[t].skip THEN "load" ELSE "done"
    BY <1>2 DEF OpenThread
  <2>2. /\ task' \in [Tasks -> Task] /\ task'[t].pc = step /\ task'[t].kind = task[t].kind
        /\ \A s \in Tasks \ {t} : task'[s] = task[s]
    BY <1>0, <2>1, GotoKeeps DEF Step
  <2>3. TaskFits(t)'
    BY <1>0, <1>2, <2>2 DEF OpenThread, At, TaskFits, Writing
  <2>4. /\ thread' # thread => thread = "absent"
        /\ thread' \in {"absent", "writing", "ready", "skipped"}
        /\ thread' = "ready" => turns # {}
        /\ thread' = "absent" => thread = "absent"
        /\ thread' = "skipped" => thread \in {"absent", "skipped"}
    BY <1>0, <1>2 DEF OpenThread, CallThreadInv, CallThreadTypeOK, ThreadFits
  <2>5. UNCHANGED <<call, guarantor, enabled, turns, replies, sent, bounds>>
    BY <1>2 DEF OpenThread, office
  <2>6. /\ guarantor' \in BOOLEAN /\ enabled' \in BOOLEAN /\ sent' \subseteq Tasks
        /\ modelFailures' \in 0..ModelFailures /\ threadRestarts' \in 0..ThreadRestarts
        /\ switches' \in 0..MaxSwitches
    BY <1>0, <2>5 DEF bounds, CallThreadTypeOK
  <2>7. call' \in [state: {"NEW", "IDENTIFIED", "CLOSED"}, returned: BOOLEAN,
                   channel: Channels]
    BY <1>0, <2>5 DEF CallThreadTypeOK
  <2>8. UNCHANGED <<turns, replies>> /\ call'.channel = call.channel /\ sent \subseteq sent'
    BY <2>5
  <2>9. thread' # thread => thread = "absent" \/ (thread' = "ready" /\ turns # {})
    BY <2>4
  <2> QED BY <2>2, <2>3, <2>4, <2>6, <2>7, <2>8, <2>9, TaskStepInv
<1>3. CASE LoadThread(t)
  <2>1. Still /\ UNCHANGED <<call, guarantor, enabled, thread>>
    BY <1>3 DEF LoadThread, Still, office
  <2>2. PICK again \in BOOLEAN : again = (task[t].kind = "refresh" /\ turns # {})
    OBVIOUS
  <2>3. PICK step \in {"check", "refused"} :
          /\ step = IF MayWriteBrief(again) /\ enabled /\ ~guarantor THEN "check" ELSE "refused"
    OBVIOUS
  <2> DEFINE row == [task[t] EXCEPT !.again = again, !.pc = step]
  <2>4. row \in Task /\ row.pc = step /\ row.kind = task[t].kind
    BY <1>0 DEF Task, Step
  <2>5. task' = [task EXCEPT ![t] = row]
    BY <1>0, <1>3, <2>2, <2>3 DEF LoadThread, CallThreadTypeOK
  <2> HIDE DEF row
  <2>6. /\ task' \in [Tasks -> Task] /\ task'[t] = row
        /\ \A s \in Tasks \ {t} : task'[s] = task[s]
    BY <1>0, <2>4, <2>5, TaskMoves
  <2>7. step = "check" => thread \notin {"absent", "skipped"}
    BY <2>3 DEF MayWriteBrief
  <2>8. TaskFits(t)'
    BY <1>0, <1>3, <2>1, <2>4, <2>6, <2>7 DEF LoadThread, At, TaskFits, Writing
  <2> QED BY <2>1, <2>6, <2>8, StillSteps
<1>4. CASE CheckThread(t) \/ ModelAnswers(t)
  <2>1. Still /\ UNCHANGED <<call, guarantor, enabled, thread>>
    BY <1>4 DEF CheckThread, ModelAnswers, Still, office
  <2>2. PICK step \in {"model", "refused", "ordinal"} : Goto(t, step)
    BY <1>4 DEF CheckThread, ModelAnswers
  <2>3. task[t].pc \in {"check", "model"}
    BY <1>4 DEF CheckThread, ModelAnswers, At
  <2>4. /\ task' \in [Tasks -> Task] /\ task'[t].pc = step /\ task'[t].kind = task[t].kind
        /\ task'[t].source = task[t].source
        /\ \A s \in Tasks \ {t} : task'[s] = task[s]
    BY <1>0, <2>2, GotoKeeps DEF Step
  <2>5. TaskFits(t)'
    BY <1>0, <2>1, <2>3, <2>4 DEF TaskFits, Writing, Still
  <2> QED BY <2>1, <2>4, <2>5, StillSteps
<1>5. CASE ReadOrdinal(t)
  <2>1. Still /\ UNCHANGED <<call, guarantor, enabled, thread>>
    BY <1>5 DEF ReadOrdinal, Still, office
  <2>2. PICK n \in Nat : n = NextOrdinal
    BY NextOrdinalFollows
  <2> DEFINE row == [task[t] EXCEPT !.pc = "insert", !.ordinal = n]
  <2>3. /\ row \in Task /\ row.pc = "insert" /\ row.kind = task[t].kind
        /\ row.ordinal = n /\ row.source = task[t].source
    BY <1>0 DEF Task, Step
  <2>4. task' = [task EXCEPT ![t] = row]
    BY <1>0, <1>5, <2>2 DEF ReadOrdinal, CallThreadTypeOK
  <2> HIDE DEF row
  <2>5. /\ task' \in [Tasks -> Task] /\ task'[t] = row
        /\ \A s \in Tasks \ {t} : task'[s] = task[s]
    BY <1>0, <2>3, <2>4, TaskMoves
  <2>6. /\ \A y \in turns : y.ordinal < n
        /\ n > 0 => \E y \in turns : y.ordinal = n - 1
        /\ turns # {} => n > 0
    BY <2>2, NextOrdinalFollows
  <2>7. TaskFits(t)'
    <3>1. /\ task[t].pc = "ordinal" /\ Writing(t) /\ turns' = turns /\ thread' = thread
      BY <1>5, <2>1 DEF ReadOrdinal, At, Writing, Still
    <3>2. /\ row.kind \in {"start", "refresh", "followUp", "draft"}
          /\ thread \notin {"absent", "skipped"}
          /\ row.kind \in {"followUp", "draft"} => turns # {}
      BY <1>0, <2>3, <3>1 DEF TaskFits
    <3>3. row.kind = "draft" =>
            \E y \in turns : y.kind = "brief" /\ y.by = row.source /\ y.ordinal < n
      BY <1>0, <2>3, <2>6, <3>1 DEF TaskFits
    <3>4. n = 0 => row.kind \in {"start", "refresh"}
      BY <2>6, <3>2
    <3> QED BY <2>3, <2>5, <2>6, <3>1, <3>2, <3>3, <3>4 DEF TaskFits, Writing
  <2> QED BY <2>1, <2>5, <2>7, StillSteps
<1>6. CASE MarkReady(t)
  <2>1. /\ task' \in [Tasks -> Task] /\ task'[t].pc = "done"
        /\ \A s \in Tasks \ {t} : task'[s] = task[s]
    BY <1>0, <1>6, GotoKeeps DEF MarkReady, Step
  <2>2. TaskFits(t)'
    BY <2>1 DEF TaskFits, Writing
  <2>3. turns # {} /\ thread' = "ready"
    BY <1>0, <1>6 DEF MarkReady, At, TaskFits
  <2>4. UNCHANGED <<call, guarantor, enabled, turns, replies, sent, bounds>>
    BY <1>6 DEF MarkReady, office
  <2> QED BY <1>0, <2>1, <2>2, <2>3, <2>4, TaskStepInv DEF bounds, CallThreadTypeOK
<1>7. CASE MailAccepted(t)
  <2>1. /\ task' \in [Tasks -> Task] /\ task'[t].pc = "mark" /\ task'[t].mark = task[t].mark
        /\ \A s \in Tasks \ {t} : task'[s] = task[s]
    BY <1>0, <1>7, GotoKeeps DEF MailAccepted, Step
  <2>2. TaskFits(t)'
    BY <1>0, <1>7, <2>1 DEF MailAccepted, At, TaskFits, Writing
  <2>3. /\ UNCHANGED <<call, guarantor, enabled, turns, replies, thread, bounds>>
        /\ sent' = sent \cup {t}
    BY <1>7 DEF MailAccepted, office
  <2> QED BY <1>0, <2>1, <2>2, <2>3, TaskStepInv
          DEF bounds, CallThreadTypeOK, CallThreadInv, ThreadFits
<1>8. CASE ReadMark(t)
  <2>1. Still /\ UNCHANGED <<call, guarantor, enabled, thread>>
    BY <1>8 DEF ReadMark, Still, office
  <2>2. CASE Goto(t, "record") /\ Drafts = {}
    <3>1. /\ task' \in [Tasks -> Task] /\ task'[t].pc = "record" /\ task'[t].mark = task[t].mark
          /\ \A s \in Tasks \ {t} : task'[s] = task[s]
      BY <1>0, <2>2, GotoKeeps DEF Step
    <3>2. TaskFits(t)'
      BY <1>0, <1>8, <2>1, <3>1 DEF ReadMark, At, TaskFits, Writing, Still
    <3> QED BY <2>1, <3>1, <3>2, StillSteps
  <2>3. ASSUME NEW last \in LastOf(Drafts),
               task' = [task EXCEPT ![t].pc = "record", ![t].mark = IsText(t, last)]
        PROVE  CallThreadInv'
    <3>1. PICK mark \in BOOLEAN : mark = IsText(t, last)
      BY DEF IsText
    <3> DEFINE row == [task[t] EXCEPT !.pc = "record", !.mark = mark]
    <3>2. row \in Task /\ row.pc = "record" /\ row.mark = mark /\ row.source = task[t].source
      BY <1>0 DEF Task, Step
    <3>3. task' = [task EXCEPT ![t] = row]
      BY <1>0, <2>3, <3>1 DEF CallThreadTypeOK
    <3> HIDE DEF row
    <3>4. /\ task' \in [Tasks -> Task] /\ task'[t] = row
          /\ \A s \in Tasks \ {t} : task'[s] = task[s]
      BY <1>0, <3>2, <3>3, TaskMoves
    <3>5. last \in turns /\ last.kind = "draft" /\ (mark => last.by = task[t].source)
      BY <3>1 DEF LastOf, Drafts, IsText
    <3>6. TaskFits(t)'
      BY <1>0, <1>8, <2>1, <3>2, <3>4, <3>5 DEF ReadMark, At, TaskFits, Writing, Still
    <3> QED BY <2>1, <3>4, <3>6, StillSteps
  <2> QED BY <1>8, <2>2, <2>3 DEF ReadMark
<1>9. CASE Fails(t, "model") \/ Fails(t, "mail")
  <2>1. /\ task' \in [Tasks -> Task] /\ task'[t].pc = "failed"
        /\ \A s \in Tasks \ {t} : task'[s] = task[s]
    BY <1>0, <1>9, GotoKeeps DEF Fails, Step
  <2>2. TaskFits(t)'
    BY <2>1 DEF TaskFits, Writing
  <2>3. UNCHANGED <<call, guarantor, enabled, turns, replies, thread, sent, threadRestarts,
                    switches>>
    BY <1>9 DEF Fails, office
  <2>4. modelFailures' \in 0..ModelFailures
    BY <1>0, <1>9, ThreadBoundsAssumption DEF Fails, CallThreadTypeOK
  <2> QED BY <1>0, <2>1, <2>2, <2>3, <2>4, TaskStepInv
          DEF CallThreadTypeOK, CallThreadInv, ThreadFits
<1> QED BY <1>1, <1>2, <1>3, <1>4, <1>5, <1>6, <1>7, <1>8, <1>9

\* A turn or a reply joins the thread.
LEMMA InsertInv ==
  ASSUME CallThreadInv, NEW t \in Tasks, InsertTurn(t)
  PROVE  CallThreadInv'
<1> DEFINE new == [by |-> t, kind |-> TurnKind(task[t].kind),
                   ordinal |-> task[t].ordinal, source |-> task[t].source]
<1>0. task[t] \in Task /\ TaskFits(t) /\ CallThreadTypeOK /\ ThreadFits
      /\ task[t].pc = "insert" /\ Writing(t)
  BY DEF CallThreadInv, CallThreadTypeOK, InsertTurn, At, Writing
<1>1. task[t].kind \in {"start", "refresh", "followUp", "draft"}
  BY <1>0 DEF TaskFits
<1>2. PICK n \in Nat : n = task[t].ordinal
  BY <1>0 DEF Task
<1>3. /\ new \in Turn /\ new.ordinal = n /\ new.source = task[t].source /\ new.by = t
      /\ new.kind = TurnKind(task[t].kind)
  BY <1>0, <1>1, <1>2 DEF Turn, Task, TurnKind
<1>4. /\ task[t].kind \in {"start", "refresh"} <=> new.kind = "brief"
      /\ task[t].kind = "draft" <=> new.kind = "draft"
  BY <1>1, <1>3 DEF TurnKind
<1>5. /\ turns' = turns \cup {new} /\ Goto(t, "ready")
      /\ UNCHANGED <<office, thread, replies, sent, bounds>>
  BY DEF InsertTurn
<1>6. /\ n = 0 => new.kind = "brief"
      /\ n > 0 => \E y \in turns : y.ordinal = n - 1
      /\ new.kind = "draft" =>
           \E y \in turns : y.kind = "brief" /\ y.by = new.source /\ y.ordinal < n
      /\ thread \notin {"absent", "skipped"}
  BY <1>0, <1>2, <1>3, <1>4 DEF TaskFits
<1> HIDE DEF new
<1>7. \A y \in turns : y.ordinal \in Nat
  BY <1>0 DEF CallThreadTypeOK, Turn
<1>8. /\ task' \in [Tasks -> Task] /\ task'[t].pc = "ready" /\ task'[t].kind = task[t].kind
      /\ \A s \in Tasks \ {t} : task'[s] = task[s]
  BY <1>0, <1>5, GotoKeeps DEF Step
<1>9. CallThreadTypeOK'
  <2>1. turns' \subseteq Turn
    BY <1>0, <1>3, <1>5 DEF CallThreadTypeOK
  <2> QED BY <1>0, <1>5, <1>8, <2>1 DEF CallThreadTypeOK, office, bounds
<1>10. TaskFits(t)'
  BY <1>1, <1>5, <1>6, <1>8 DEF TaskFits, Writing
<1>11. ASSUME NEW s \in Tasks \ {t} PROVE TaskFits(s)'
  <2>1. /\ turns \subseteq turns' /\ sent' = sent /\ call' = call /\ thread' = thread
        /\ TaskFits(s) /\ task'[s] = task[s]
    BY <1>5, <1>8 DEF office, CallThreadInv
  <2> QED BY <2>1, OthersFit
<1>12. SomeTurnIsLast'
  <2>1. CASE turns = {}
    BY <1>3, <1>5, <2>1 DEF SomeTurnIsLast
  <2>2. CASE turns # {}
    <3>1. PICK x \in turns : \A y \in turns : y.ordinal <= x.ordinal
      BY <1>0, <2>2 DEF ThreadFits, SomeTurnIsLast
    <3>2. CASE x.ordinal <= n
      <4>1. \A y \in turns' : y.ordinal <= new.ordinal
        BY <1>3, <1>5, <1>7, <3>1, <3>2
      <4> QED BY <1>5, <4>1 DEF SomeTurnIsLast
    <3>3. CASE ~(x.ordinal <= n)
      <4>1. \A y \in turns' : y.ordinal <= x.ordinal
        BY <1>3, <1>5, <1>7, <3>1, <3>3
      <4> QED BY <1>5, <4>1 DEF SomeTurnIsLast
    <3> QED BY <3>2, <3>3
  <2> QED BY <2>1, <2>2
<1>13. BriefComesFirst'
  <2>1. \A x \in turns' : x.ordinal = 0 => x.kind = "brief"
    BY <1>0, <1>3, <1>5, <1>6 DEF ThreadFits, BriefComesFirst
  <2>2. \A x \in turns' : x.ordinal > 0 => \E y \in turns' : y.ordinal = x.ordinal - 1
    BY <1>0, <1>3, <1>5, <1>6 DEF ThreadFits, BriefComesFirst
  <2> QED BY <2>1, <2>2 DEF BriefComesFirst
<1>14. DraftFollowsItsBrief'
  <2>1. \A x \in turns' : x.kind = "draft" =>
          \E y \in turns : y.kind = "brief" /\ y.by = x.source /\ y.ordinal < x.ordinal
    BY <1>0, <1>3, <1>5, <1>6 DEF ThreadFits, DraftFollowsItsBrief, Drafts, Briefs
  <2> QED BY <1>5, <2>1 DEF DraftFollowsItsBrief, Drafts, Briefs
<1>15. RepliesAreTold'
  BY <1>0, <1>5 DEF ThreadFits, RepliesAreTold, Drafts, office
<1>16. /\ thread' \in {"absent", "skipped"} => turns' = {}
       /\ thread' = "ready" => turns' # {}
  BY <1>5, <1>6
<1>17. ThreadFits'
  BY <1>12, <1>13, <1>14, <1>15, <1>16 DEF ThreadFits
<1> QED BY <1>9, <1>10, <1>11, <1>17 DEF CallThreadInv

LEMMA RecordInv ==
  ASSUME CallThreadInv, NEW t \in Tasks, RecordReply(t)
  PROVE  CallThreadInv'
<1> DEFINE new == [by |-> t, source |-> task[t].source, asWritten |-> task[t].mark]
<1>0. task[t] \in Task /\ TaskFits(t) /\ CallThreadTypeOK /\ ThreadFits
      /\ task[t].pc = "record"
  BY DEF CallThreadInv, CallThreadTypeOK, RecordReply, At
<1>1. /\ replies' = replies \cup {new} /\ Goto(t, "done")
      /\ UNCHANGED <<office, thread, turns, sent, bounds>>
  BY DEF RecordReply
<1>2. /\ new \in [by: Tasks, source: Tasks \cup {Nobody}, asWritten: BOOLEAN]
      /\ new.by = t /\ new.source = task[t].source /\ new.asWritten = task[t].mark
  BY <1>0 DEF Task
<1>3. /\ new.asWritten => \E x \in turns : x.kind = "draft" /\ x.by = new.source
      /\ call.channel = "EMAIL" => new.by \in sent
  BY <1>0, <1>2 DEF TaskFits
<1> HIDE DEF new
<1>4. /\ task' \in [Tasks -> Task] /\ task'[t].pc = "done"
      /\ \A s \in Tasks \ {t} : task'[s] = task[s]
  BY <1>0, <1>1, GotoKeeps DEF Step
<1>5. CallThreadTypeOK'
  <2>1. replies' \subseteq [by: Tasks, source: Tasks \cup {Nobody}, asWritten: BOOLEAN]
    BY <1>0, <1>1, <1>2 DEF CallThreadTypeOK
  <2> QED BY <1>0, <1>1, <1>4, <2>1 DEF CallThreadTypeOK, office, bounds
<1>6. ASSUME NEW s \in Tasks PROVE TaskFits(s)'
  <2>1. /\ turns' = turns /\ sent' = sent /\ call' = call /\ thread' = thread
        /\ TaskFits(s) /\ (task'[s] = task[s] \/ task'[s].pc \in Ended)
    BY <1>1, <1>4 DEF office, CallThreadInv, Ended
  <2> QED BY <2>1, OthersFit
<1>7. RepliesAreTold'
  BY <1>0, <1>1, <1>3 DEF ThreadFits, RepliesAreTold, Drafts, office
<1>8. ThreadFits'
  BY <1>0, <1>1, <1>7
     DEF ThreadFits, SomeTurnIsLast, BriefComesFirst, DraftFollowsItsBrief, Drafts, Briefs
<1> QED BY <1>5, <1>6, <1>8 DEF CallThreadInv

\* What goes on beside the tasks, and a restart.
LEMMA BesideInv ==
  ASSUME CallThreadInv,
         ExitCall \/ ReturnOrRestore \/ Switch \/ LoseTasks \/ UNCHANGED callThreadVars
  PROVE  CallThreadInv'
<1>1. UNCHANGED <<thread, turns, replies, sent>> /\ call'.channel = call.channel
  BY DEF ExitCall, ReturnOrRestore, Switch, LoseTasks, callThreadVars, office,
         CallThreadInv, CallThreadTypeOK
<1>2. call' \in [state: {"NEW", "IDENTIFIED", "CLOSED"}, returned: BOOLEAN, channel: Channels]
  BY DEF ExitCall, ReturnOrRestore, Switch, LoseTasks, callThreadVars, office,
         CallThreadInv, CallThreadTypeOK
<1>3. guarantor' \in BOOLEAN /\ enabled' \in BOOLEAN
  <2>1. \A b \in BOOLEAN : (~b) \in BOOLEAN
    OBVIOUS
  <2> QED BY <2>1 DEF ExitCall, ReturnOrRestore, Switch, LoseTasks, callThreadVars, office,
         CallThreadInv, CallThreadTypeOK
<1>4. /\ modelFailures' \in 0..ModelFailures /\ threadRestarts' \in 0..ThreadRestarts
      /\ switches' \in 0..MaxSwitches
  BY ThreadBoundsAssumption
     DEF ExitCall, ReturnOrRestore, Switch, LoseTasks, callThreadVars, bounds,
         CallThreadInv, CallThreadTypeOK
<1>5. /\ task' \in [Tasks -> Task]
      /\ \A s \in Tasks : task'[s] = task[s] \/ task'[s].pc \in Ended
  <2>1. CASE LoseTasks
    <3>1. \A s \in Tasks : task[s] \in Task
      BY DEF CallThreadInv, CallThreadTypeOK
    <3>2. \A s \in Tasks : /\ [task[s] EXCEPT !.pc = "lost"] \in Task
                           /\ [task[s] EXCEPT !.pc = "lost"].pc = "lost"
      BY <3>1 DEF Task, Step
    <3>3. task' = [t \in Tasks |->
            IF t \in BusyTasks THEN [task[t] EXCEPT !.pc = "lost"] ELSE task[t]]
      BY <2>1 DEF LoseTasks
    <3> QED BY <3>1, <3>2, <3>3 DEF Ended
  <2>2. CASE ~LoseTasks
    BY <2>2 DEF ExitCall, ReturnOrRestore, Switch, callThreadVars, CallThreadInv,
                CallThreadTypeOK
  <2> QED BY <2>1, <2>2
<1>6. CallThreadTypeOK'
  BY <1>1, <1>2, <1>3, <1>4, <1>5 DEF CallThreadInv, CallThreadTypeOK
<1>7. ASSUME NEW s \in Tasks PROVE TaskFits(s)'
  BY <1>1, <1>5, OthersFit DEF CallThreadInv
<1>8. ThreadFits'
  BY <1>1 DEF CallThreadInv, ThreadFits, SomeTurnIsLast, BriefComesFirst,
              DraftFollowsItsBrief, RepliesAreTold, Drafts, Briefs
<1> QED BY <1>6, <1>7, <1>8 DEF CallThreadInv

LEMMA CallThreadInitInv == CallThreadInit => CallThreadInv
<1> SUFFICES ASSUME CallThreadInit PROVE CallThreadInv
  OBVIOUS
<1>1. Idle \in Task /\ Idle.pc = "idle" /\ \A t \in Tasks : task[t] = Idle
  BY DEF Idle, Task, Kind, Step, CallThreadInit
<1>2. CallThreadTypeOK
  <2>1. task \in [Tasks -> Task]
    BY <1>1 DEF CallThreadInit
  <2>2. call \in [state: {"NEW", "IDENTIFIED", "CLOSED"}, returned: BOOLEAN,
                  channel: Channels]
    BY DEF CallThreadInit
  <2>3. /\ modelFailures \in 0..ModelFailures /\ threadRestarts \in 0..ThreadRestarts
        /\ switches \in 0..MaxSwitches
    BY ThreadBoundsAssumption DEF CallThreadInit
  <2>4. /\ guarantor \in BOOLEAN /\ enabled \in BOOLEAN /\ thread = "absent"
        /\ turns = {} /\ replies = {} /\ sent = {}
    BY DEF CallThreadInit
  <2> QED BY <2>1, <2>2, <2>3, <2>4 DEF CallThreadTypeOK
<1>3. \A t \in Tasks : TaskFits(t)
  BY <1>1 DEF TaskFits, Writing
<1>4. ThreadFits
  BY DEF CallThreadInit, ThreadFits, SomeTurnIsLast, BriefComesFirst, DraftFollowsItsBrief,
         RepliesAreTold, Drafts
<1> QED BY <1>2, <1>3, <1>4 DEF CallThreadInv

LEMMA CallThreadNextInv == CallThreadInv /\ [CallThreadNext]_callThreadVars => CallThreadInv'
BY LaunchInv, GoInv, InsertInv, RecordInv, BesideInv DEF CallThreadNext, TaskStep

(* Every task, turn and reply keeps its type.                              *)
THEOREM ThreadTypeCorrect == CallThreadSpec => []CallThreadTypeOK
<1>1. CallThreadInv => CallThreadTypeOK
  BY DEF CallThreadInv
<1> QED BY <1>1, CallThreadInitInv, CallThreadNextInv, PTL DEF CallThreadSpec

(* The turns of a thread count up from its brief without a gap, a draft    *)
(* stands below the brief it rests on, a reply told as written copies a    *)
(* draft, and one to an email was taken by the provider: whichever tasks   *)
(* read, answer and write beside each other.                               *)
THEOREM ThreadsTellTheirCall == CallThreadSpec => []ThreadTellsTheCall
<1>1. CallThreadInv => ThreadTellsTheCall
  BY DEF CallThreadInv, ThreadFits, ThreadTellsTheCall
<1> QED BY <1>1, CallThreadInitInv, CallThreadNextInv, PTL DEF CallThreadSpec

(* No step brings a skipped thread a turn, or makes it another thread.     *)
THEOREM SkippedThreadsStaySilent == CallThreadSpec => SkippedStaysSilent
<1>1. ASSUME CallThreadInv, [CallThreadNext]_callThreadVars, thread = "skipped"
      PROVE  thread' = "skipped" /\ turns' = {}
  <2>1. CallThreadInv' /\ turns = {}
    BY <1>1, CallThreadNextInv DEF CallThreadInv, ThreadFits
  <2>2. thread' = "skipped"
    <3>1. \A t \in Tasks : task[t].pc # "ready"
      BY <1>1 DEF CallThreadInv, TaskFits, Writing
    <3>2. CASE UNCHANGED callThreadVars
      BY <1>1, <3>2 DEF callThreadVars
    <3>3. CASE ExitCall \/ ReturnOrRestore \/ Switch \/ LoseTasks
      BY <1>1, <3>3 DEF ExitCall, ReturnOrRestore, Switch, LoseTasks
    <3>4. ASSUME NEW t \in Tasks,
                 \/ Identify(t) \/ MessageLands(t) \/ Refresh(t) \/ Send(t)
                 \/ \E b \in BOOLEAN : FollowUp(t, b) \/ Draft(t, b)
                 \/ Fails(t, "model") \/ Fails(t, "mail")
          PROVE  thread' = "skipped"
      BY <1>1, <3>4 DEF Identify, MessageLands, Refresh, Send, FollowUp, Draft, Fails
    <3>5. ASSUME NEW t \in Tasks, TaskStep(t) PROVE thread' = "skipped"
      BY <1>1, <3>1, <3>5
         DEF TaskStep, BeginBrief, OpenThread, LoadThread, CheckThread, ModelAnswers,
             ReadOrdinal, InsertTurn, MarkReady, MailAccepted, ReadMark, RecordReply, At
    <3> QED BY <1>1, <3>2, <3>3, <3>4, <3>5 DEF CallThreadNext
  <2> QED BY <2>1, <2>2 DEF CallThreadInv, ThreadFits
<1>2. CallThreadInv /\ [CallThreadNext]_callThreadVars
        => [thread = "skipped" => thread' = "skipped" /\ turns' = {}]_callThreadVars
  BY <1>1
<1> QED BY <1>2, CallThreadInitInv, CallThreadNextInv, PTL
        DEF CallThreadSpec, SkippedStaysSilent

=============================================================================
