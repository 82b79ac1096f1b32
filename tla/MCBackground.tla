----------------------------- MODULE MCBackground -----------------------------
(***************************************************************************)
(* What runs behind the requests, one part at a time: the durable work,    *)
(* the mailbox, the briefs and drafts of one call, and the intake door     *)
(* with one delivery in hand.  No two of them write one table, so a        *)
(* behaviour follows one part and the state spaces add.                    *)
(*                                                                         *)
(* The door runs within one of three bounds.  In "settles" a first message *)
(* was filtered as noise; deliveries may stop anywhere, and the office     *)
(* closes and flags.  In "replies" nothing stops and no call is closed,    *)
(* but messages are repeated and the office rescues what was filtered.  In *)
(* "merges" the office closes calls and merges them with one another and   *)
(* with one opened elsewhere, and nothing else goes wrong.                 *)
(***************************************************************************)
EXTENDS WorkRunner, Mailbox, CallThread, IntakeDoor

CONSTANTS Filtered1, Spare   \* the noise and the spare identifier of "settles"

VARIABLES part, regime

BackgroundVars ==
  <<vars, mailboxVars, callThreadVars, doorVars, regime, part>>

\* The door starts on an empty conversation, or past a message of noise.
DoorStarts ==
  /\ regime \in {"settles", "replies", "merges"}
  /\ LET past == IF regime = "settles" THEN {Filtered1} ELSE {} IN
     /\ message = [m \in Messages |->
          [stored |-> m \in past, call |-> Null,
           label |-> IF m \in past THEN "noise" ELSE Null, duty |-> Null]]
     /\ acked = past
  /\ calls = [c \in Calls |-> NoCall]
  /\ echo = [d \in Deliveries |-> "absent"]
  /\ proc = [d \in Deliveries |-> NoDelivery]
  /\ dutySent = {}
  /\ opener = [c \in Calls |-> Null]
  /\ doorStops = 0 /\ refusals = 0 /\ extra = 0

\* The bounds of each regime.
OwnCallsOnly ==
  \A c \in Calls :
    /\ calls'[c].duplicateOf = Null
    /\ calls'[c].state # "none" => opener'[c] # Null
InSettles ==
  /\ OwnCallsOnly
  /\ extra' = 0 /\ calls'[Spare] = NoCall
  /\ opener'[Spare] = Null /\ message'[Filtered1].call = Null
InReplies ==
  /\ OwnCallsOnly
  /\ doorStops' = 0
  /\ \A c \in Calls : calls'[c].state # "closed"
\* Identifiers enough for every message to open a call it may have to open.
InMerges ==
  /\ extra' = 0 /\ doorStops' = 0 /\ refusals' = 0
  /\ ~Rescued' /\ \A c \in Calls : calls'[c].flag # "STAFF"
  /\ LET closed == {c \in Calls : calls'[c].state = "closed"}
         elsewhere == {c \in Calls : calls'[c].state # "none" /\ opener'[c] = Null}
     IN Cardinality(closed) + Cardinality(elsewhere) <= 2
RegimeAllows ==
  CASE regime = "settles" -> InSettles
    [] regime = "replies" -> InReplies
    [] regime = "merges" -> InMerges

\* A part that rests starts in one of its initial states.
BackgroundInit ==
  /\ part \in {"work", "mailbox", "thread", "door"}
  /\ Init /\ MailboxInit /\ CallThreadInit /\ DoorStarts
  /\ part # "thread" => call.channel = "EMAIL"
  /\ part # "door" => regime = "settles"

OfWork(step) == part = "work" /\ step
  /\ UNCHANGED <<mailboxVars, callThreadVars, doorVars, regime, part>>
OfMailbox(step) == part = "mailbox" /\ step
  /\ UNCHANGED <<vars, callThreadVars, doorVars, regime, part>>
OfThread(step) == part = "thread" /\ step
  /\ UNCHANGED <<vars, mailboxVars, doorVars, regime, part>>
OfDoor(step) == part = "door" /\ step /\ RegimeAllows
  /\ UNCHANGED <<vars, mailboxVars, callThreadVars, regime, part>>

BackgroundNext ==
  \/ OfWork(Next) \/ OfMailbox(MailboxNext) \/ OfThread(CallThreadNext)
  \/ OfDoor(DoorNext)

DeliveryRuns == \E d \in Deliveries : DoorStep(d)
Redelivers ==
  \E m \in Messages, d \in Deliveries : m \notin acked /\ Receive(d, m)

\* The fairness of the parts: Fairness of WorkRunner, polls that go on and
\* hours that pass, and what DoorFairness gives one delivery in
\* hand: it runs on, and some message without an answer is delivered again.
BackgroundSpec ==
  /\ BackgroundInit /\ [][BackgroundNext]_BackgroundVars
  /\ WF_BackgroundVars(OfWork(Tick))
  /\ \A r \in Runners : WF_BackgroundVars(OfWork(Work(r)))
  /\ WF_BackgroundVars(OfMailbox(HourPasses))
  /\ \A p \in Pollers : WF_BackgroundVars(OfMailbox(PollStep(p)))
  /\ WF_BackgroundVars(OfDoor(DeliveryRuns))
  /\ WF_BackgroundVars(OfDoor(Redelivers))

\* Every message sent to the office is in the end settled and answered,
\* though deliveries stop and replies are refused.
EveryMessageSettles == part = "door" => AllMessagesSettle
=============================================================================
