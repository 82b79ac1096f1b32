------------------------------- MODULE Mailbox -------------------------------
(***************************************************************************)
(* Reading the office's mailbox (channel/internal/outlook.ts).  Each       *)
(* instance of the server polls on a timer: it reads the one stored cursor *)
(* (email_cursor), asks Graph for the page the cursor names, hands every   *)
(* message to the door, and stores the next cursor.  A round is pages up   *)
(* to the newest message; a message the door refuses ends the poll, and    *)
(* the next one reads the same page again.                                 *)
(*                                                                         *)
(* Messages are numbered as they arrive, and a cursor is the number of     *)
(* messages it has passed.  Time is counted in the hours that              *)
(* mailboxWarning counts.                                                  *)
(***************************************************************************)
EXTENDS Integers, FiniteSets

CONSTANTS
  Pollers,      \* instances of the server
  Refused,      \* messages the door throws on every time
  MaxMail,      \* bound: messages that arrive
  PageMax,      \* the most messages Graph puts on a page
  MaxStops,     \* bound: instances that stop and come back
  MaxLosses,    \* bound: reads that fail or never come back
  NoLink

ASSUME MailboxAssumption ==
  /\ MaxMail \in Nat /\ PageMax \in Nat \ {0} /\ NoLink \notin Nat
  /\ Refused \subseteq 1..MaxMail
  /\ MaxStops \in Nat /\ MaxLosses \in Nat

VARIABLES
  arrived,    \* messages in the inbox
  cursor,     \* email_cursor.delta_link, and whether the row is there
  hourOld,    \* the last success, or the start of the watch, is an hour old
  poll,       \* the poll of each instance
  handed,     \* messages the door has taken
  origin,     \* history: the newest cursor a start stored
  stops, losses

mailboxVars ==
  <<arrived, cursor, hourOld, poll, handed, origin, stops, losses>>

Link == 0..MaxMail \cup {NoLink}

Poll ==
  [pc: {"waiting", "cursor", "start", "page", "deliver", "save", "hung"},
   link: Link, next: Link, last: BOOLEAN, at: 0..MaxMail]

Waiting ==
  [pc |-> "waiting", link |-> NoLink, next |-> NoLink, last |-> FALSE,
   at |-> 0]

MailboxTypeOK ==
  /\ arrived \in 0..MaxMail
  /\ cursor \in [watching: BOOLEAN, link: Link]
  /\ hourOld \in BOOLEAN
  /\ poll \in [Pollers -> Poll]
  /\ handed \subseteq 1..MaxMail
  /\ origin \in Link
  /\ stops \in 0..MaxStops /\ losses \in 0..MaxLosses

MailboxInit ==
  /\ arrived = 0
  /\ cursor = [watching |-> FALSE, link |-> NoLink]
  /\ hourOld = FALSE
  /\ poll = [p \in Pollers |-> Waiting]
  /\ handed = {}
  /\ origin = NoLink
  /\ stops = 0 /\ losses = 0

-----------------------------------------------------------------------------
Polling(p, step) == poll[p].pc = step
EndPoll(p) == poll' = [poll EXCEPT ![p] = Waiting]

Arrive ==
  /\ arrived < MaxMail
  /\ arrived' = arrived + 1
  /\ UNCHANGED <<cursor, hourOld, poll, handed, origin, stops, losses>>

\* The timer: at most one poll of an instance at a time.  The row of the
\* watch is inserted unless it is there.
TimerFires(p) ==
  /\ Polling(p, "waiting")
  /\ poll' = [poll EXCEPT ![p].pc = "cursor"]
  /\ cursor' = [cursor EXCEPT !.watching = TRUE]
  /\ UNCHANGED <<arrived, hourOld, handed, origin, stops, losses>>

ReadCursor(p) ==
  /\ Polling(p, "cursor")
  /\ poll' = [poll EXCEPT ![p] =
       [Waiting EXCEPT !.pc = IF cursor.link = NoLink THEN "start" ELSE "page",
                       !.link = cursor.link]]
  /\ UNCHANGED <<arrived, cursor, hourOld, handed, origin, stops, losses>>

\* reader.start: a cursor as of now.
StartCursor(p) ==
  /\ Polling(p, "start")
  /\ poll' = [poll EXCEPT ![p].pc = "save", ![p].next = arrived,
                          ![p].last = TRUE]
  /\ UNCHANGED <<arrived, cursor, hourOld, handed, origin, stops, losses>>

\* reader.page: some of the messages after the link, and the round is
\* complete when they are the last.  Pages move on, so no link comes twice in
\* a round, except a round's last that has nothing new.
ReadPage(p) ==
  /\ Polling(p, "page")
  /\ \E next \in poll[p].link..arrived :
       /\ next - poll[p].link <= PageMax
       /\ next = poll[p].link => next = arrived
       /\ poll' = [poll EXCEPT ![p].pc = "deliver", ![p].next = next,
                     ![p].at = poll[p].link, ![p].last = next = arrived]
  /\ UNCHANGED <<arrived, cursor, hourOld, handed, origin, stops, losses>>

\* deliver: the door has the message, or had it before.
HandOver(p) ==
  LET m == poll[p].at + 1 IN
  /\ Polling(p, "deliver") /\ poll[p].at < poll[p].next
  /\ m \notin Refused
  /\ handed' = handed \cup {m}
  /\ poll' = [poll EXCEPT ![p].at = m]
  /\ UNCHANGED <<arrived, cursor, hourOld, origin, stops, losses>>

SkipRefused(p) ==
  /\ Polling(p, "deliver") /\ poll[p].at < poll[p].next
  /\ poll[p].at + 1 \in Refused
  /\ poll' = [poll EXCEPT ![p].at = @ + 1]
  /\ UNCHANGED <<arrived, cursor, hourOld, handed, origin, stops, losses>>

\* The door throws: the poll ends with nothing stored.
DoorThrows(p) ==
  /\ Polling(p, "deliver") /\ poll[p].at < poll[p].next
  /\ \/ poll[p].at + 1 \in Refused /\ losses' = losses
     \/ losses < MaxLosses /\ losses' = losses + 1
  /\ EndPoll(p)
  /\ UNCHANGED <<arrived, cursor, hourOld, handed, origin, stops>>

PageStarted(p) == Polling(p, "deliver")
PageHandedOver(p) == Polling(p, "deliver") /\ poll[p].at = poll[p].next

ReadyToSave(p) == Polling(p, "save") \/ PageHandedOver(p)

\* saveSuccess, and the next page of the round.  The cursor stored by
\* another instance meanwhile is overwritten, that of its start too: when two
\* instances start the watch together, what came between may go unread.
SaveSuccess(p) ==
  /\ ReadyToSave(p)
  /\ cursor' = [cursor EXCEPT !.link = poll[p].next]
  /\ hourOld' = FALSE
  /\ origin' = IF Polling(p, "save") /\ (origin = NoLink \/ poll[p].next > origin)
               THEN poll[p].next ELSE origin
  /\ IF poll[p].last
       THEN EndPoll(p)
       ELSE poll' = [poll EXCEPT ![p] =
                       [Waiting EXCEPT !.pc = "page", !.link = poll[p].next]]
  /\ UNCHANGED <<arrived, handed, stops, losses>>

\* A read of Graph fails, or never comes back: the fetch has no time limit,
\* and the poll that waits for it holds the timer's flag.
ReadFails(p) ==
  /\ poll[p].pc \in {"start", "page"}
  /\ losses < MaxLosses /\ losses' = losses + 1
  /\ \/ EndPoll(p)
     \/ poll' = [poll EXCEPT ![p].pc = "hung"]
  /\ UNCHANGED <<arrived, cursor, hourOld, handed, origin, stops>>

InstanceStops(p) ==
  /\ ~Polling(p, "waiting")
  /\ stops < MaxStops /\ stops' = stops + 1
  /\ EndPoll(p)
  /\ UNCHANGED <<arrived, cursor, hourOld, handed, origin, losses>>

HourPasses ==
  /\ cursor.watching
  /\ hourOld' = TRUE
  /\ UNCHANGED <<arrived, cursor, poll, handed, origin, stops, losses>>

\* mailboxWarning, shown on the list of calls.
MailboxWarning == cursor.watching /\ hourOld

-----------------------------------------------------------------------------
PollStep(p) ==
  \/ TimerFires(p) \/ ReadCursor(p) \/ StartCursor(p) \/ ReadPage(p)
  \/ HandOver(p) \/ SaveSuccess(p)
  \/ poll[p].at + 1 \in Refused /\ DoorThrows(p)

MailboxNext ==
  \/ Arrive \/ HourPasses
  \/ \E p \in Pollers :
       \/ TimerFires(p) \/ ReadCursor(p) \/ StartCursor(p) \/ ReadPage(p)
       \/ HandOver(p) \/ DoorThrows(p) \/ SaveSuccess(p) \/ ReadFails(p)
       \/ InstanceStops(p)

MailboxSpec == MailboxInit /\ [][MailboxNext]_mailboxVars

-----------------------------------------------------------------------------
(* SPEC-channel.md: a mailbox is read from the cursor it starts at, and    *)
(* the cursor is stored only after its page was handed over: from the last *)
(* start on no message behind the cursor is missing, whatever fails, stops *)
(* or polls beside it.                                                     *)
CursorSkipsNoMail ==
  cursor.link # NoLink => (origin + 1)..cursor.link \subseteq handed

(* A message of the watched mailbox is read, or in the end the warning     *)
(* stands: one the door always refuses holds up every later one, and so    *)
(* does a read that never comes back, but not silently.                    *)
Watched(m) == origin # NoLink /\ m > origin
MailIsReadOrTold ==
  \A m \in 1..MaxMail :
    (Watched(m) /\ m <= arrived)
      ~> (m \in handed \/ ~Watched(m) \/ []MailboxWarning)

=============================================================================
