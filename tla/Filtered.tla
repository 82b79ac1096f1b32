------------------------------- MODULE Filtered -------------------------------
(***************************************************************************)
(* The filtered messages and what becomes of them: a message the sorter    *)
(* called noise waits on the filtered list until someone rescues it        *)
(* (rescueNoise), a call may be returned there and restored, and a daily   *)
(* job deletes what has been filtered for six months (retention.ts).       *)
(*                                                                         *)
(* The job is one DELETE whose WHERE is a subquery: under read committed   *)
(* it takes the ids of its snapshot, waits for the row locks one by one,   *)
(* and when a row was changed meanwhile the subquery is not read again.    *)
(***************************************************************************)
EXTENDS Naturals

CONSTANTS
  Messages,
  Calls,
  KeepMonths,   \* six months
  Nobody

VARIABLES
  message,    \* message rows: whether there, the label, the call, the age
  calls,      \* service_call rows: the state, and the age of the return
  locked,     \* message rows a rescue or the sweep holds
  sweep       \* the job: idle, or the ids it still deletes and has deleted

filteredVars == <<message, calls, locked, sweep>>

Age == 0..KeepMonths
MessageRow ==
  [stored: BOOLEAN, noise: BOOLEAN, call: Calls \cup {Nobody}, age: Age]
CallRow == [state: {"none", "open", "closed", "returned"}, age: Age]
IdleSweep == [on |-> FALSE, todo |-> {}, taken |-> {}]

FilteredTypeOK ==
  /\ message \in [Messages -> MessageRow]
  /\ calls \in [Calls -> CallRow]
  /\ locked \subseteq Messages
  /\ sweep \in [on: BOOLEAN, todo: SUBSET Messages, taken: SUBSET Messages]

NoMessage == [stored |-> FALSE, noise |-> FALSE, call |-> Nobody, age |-> 0]

FilteredInit ==
  /\ message = [m \in Messages |-> NoMessage]
  /\ calls = [c \in Calls |-> [state |-> "none", age |-> 0]]
  /\ locked = {}
  /\ sweep = IdleSweep

-----------------------------------------------------------------------------
(* What the door settles: a call of its own, or noise with none.           *)
Open(c) == calls' = [calls EXCEPT ![c].state = "open"]

SettleCall(m, c) ==
  /\ ~message[m].stored /\ calls[c].state = "none"
  /\ message' = [message EXCEPT ![m].stored = TRUE, ![m].call = c]
  /\ Open(c)
  /\ UNCHANGED <<locked, sweep>>

SettleNoise(m) ==
  /\ ~message[m].stored
  /\ message' = [message EXCEPT ![m].stored = TRUE, ![m].noise = TRUE]
  /\ UNCHANGED <<calls, locked, sweep>>

\* listNoiseMessages
OnTheList == {m \in Messages :
  message[m].stored /\ message[m].noise /\ message[m].call = Nobody}

\* rescueNoise locks the row; with the call opened and the row linked its
\* transaction commits, and the sorter's label stays.
RescueLocks(m) ==
  /\ m \in OnTheList \ locked
  /\ locked' = locked \cup {m}
  /\ UNCHANGED <<message, calls, sweep>>

RescueCommits(m, c) ==
  /\ m \in locked \ sweep.taken /\ calls[c].state = "none"
  /\ message' = [message EXCEPT ![m].call = c]
  /\ Open(c)
  /\ locked' = locked \ {m}
  /\ UNCHANGED sweep

RescueRollsBack(m) ==
  /\ m \in locked \ sweep.taken
  /\ locked' = locked \ {m}
  /\ UNCHANGED <<message, calls, sweep>>

ReturnToFiltered(c) ==
  /\ calls[c].state = "open"
  /\ calls' = [calls EXCEPT ![c] = [state |-> "returned", age |-> 0]]
  /\ UNCHANGED <<message, locked, sweep>>

RestoreReturnedCall(c) ==
  /\ calls[c].state = "returned"
  /\ calls' = [calls EXCEPT ![c] = [state |-> "open", age |-> 0]]
  /\ UNCHANGED <<message, locked, sweep>>

CloseCall(c) ==
  /\ calls[c].state = "open"
  /\ calls' = [calls EXCEPT ![c].state = "closed"]
  /\ UNCHANGED <<message, locked, sweep>>

-----------------------------------------------------------------------------
(* sweepFilteredMessages                                                   *)
Expired(m) ==
  /\ message[m].stored
  /\ \/ m \in OnTheList /\ message[m].age = KeepMonths
     \/ LET c == message[m].call IN
          c # Nobody /\ calls[c] = [state |-> "returned", age |-> KeepMonths]

SweepReads ==
  /\ ~sweep.on
  /\ sweep' = [on |-> TRUE, todo |-> {m \in Messages : Expired(m)},
               taken |-> {}]
  /\ UNCHANGED <<message, calls, locked>>

SweepTakes(m) ==
  /\ m \in sweep.todo \ locked
  /\ locked' = locked \cup {m}
  /\ sweep' = [sweep EXCEPT !.todo = @ \ {m}, !.taken = @ \cup {m}]
  /\ UNCHANGED <<message, calls>>

SweepCommits ==
  /\ sweep.on /\ sweep.todo = {}
  /\ message' = [m \in Messages |->
       IF m \in sweep.taken THEN NoMessage ELSE message[m]]
  /\ locked' = locked \ sweep.taken
  /\ sweep' = IdleSweep
  /\ UNCHANGED calls

Older(age) == IF age < KeepMonths THEN age + 1 ELSE age

MonthPasses ==
  /\ ~sweep.on /\ locked = {}
  /\ message' = [m \in Messages |-> [message[m] EXCEPT
       !.age = IF message[m].stored THEN Older(@) ELSE @]]
  /\ calls' = [c \in Calls |-> [calls[c] EXCEPT
       !.age = IF calls[c].state = "returned" THEN Older(@) ELSE @]]
  /\ UNCHANGED <<locked, sweep>>

FilteredNext ==
  \/ \E m \in Messages :
       \/ \E c \in Calls : SettleCall(m, c) \/ RescueCommits(m, c)
       \/ SettleNoise(m) \/ RescueLocks(m) \/ RescueRollsBack(m)
       \/ SweepTakes(m)
  \/ \E c \in Calls :
       ReturnToFiltered(c) \/ RestoreReturnedCall(c) \/ CloseCall(c)
  \/ SweepReads \/ SweepCommits \/ MonthPasses

FilteredSpec == FilteredInit /\ [][FilteredNext]_filteredVars

-----------------------------------------------------------------------------
(* retention.ts and SPEC-calls.md: a rescued message stays, because it is  *)
(* a call.                                                                 *)
RescuedMessageStays ==
  [][\A m \in Messages :
       message[m].stored /\ message[m].noise /\ message[m].call # Nobody
         /\ calls[message[m].call].state \in {"open", "closed"}
       => message'[m].stored]_filteredVars

=============================================================================
