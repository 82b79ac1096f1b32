-------------------------------- MODULE Intake --------------------------------
(***************************************************************************)
(* What the intake door promises the people who write to the office: every *)
(* message is kept from the moment it is seen, is judged once, and from    *)
(* then on is found in one place, the filtered tab or one service call.    *)
(*                                                                         *)
(* The abstraction of IntakeDoor: no deliveries, no replies, no retries.   *)
(***************************************************************************)
EXTENDS FiniteSets

CONSTANTS Messages, Calls

VARIABLES
  place,    \* where each message is: "unseen", "held", "filtered" or a call
  status    \* of each call: "none", "open", "returned" or "closed"

vars == <<place, status>>

TypeOK ==
  /\ place \in [Messages -> {"unseen", "held", "filtered"} \cup Calls]
  /\ status \in [Calls -> {"none", "open", "returned", "closed"}]

Init ==
  /\ place = [m \in Messages |-> "unseen"]
  /\ status = [c \in Calls |-> "none"]

Hold(m) ==
  /\ place[m] = "unseen"
  /\ place' = [place EXCEPT ![m] = "held"]
  /\ UNCHANGED status

Filter(m) ==
  /\ place[m] = "held"
  /\ place' = [place EXCEPT ![m] = "filtered"]
  /\ UNCHANGED status

\* A held message is judged to be a call, or the office rescues a filtered one.
OpenFor(m, c) ==
  /\ place[m] \in {"held", "filtered"}
  /\ status[c] = "none"
  /\ place' = [place EXCEPT ![m] = c]
  /\ status' = [status EXCEPT ![c] = "open"]

Attach(m, c) ==
  /\ place[m] = "held"
  /\ status[c] = "open"
  /\ place' = [place EXCEPT ![m] = c]
  /\ UNCHANGED status

\* A call of no message here: taken by phone, or another conversation's.
OpenElsewhere(c) ==
  /\ status[c] = "none"
  /\ status' = [status EXCEPT ![c] = "open"]
  /\ UNCHANGED place

Close(c) ==
  /\ status[c] = "open"
  /\ status' = [status EXCEPT ![c] = "closed"]
  /\ UNCHANGED place

Merge(c, other) ==
  /\ status[c] = "open" /\ c # other /\ status[other] # "none"
  /\ status' = [status EXCEPT ![c] = "closed"]
  /\ place' = [m \in Messages |-> IF place[m] = c THEN other ELSE place[m]]

Return(c) ==
  /\ status[c] = "open"
  /\ status' = [status EXCEPT ![c] = "returned"]
  /\ UNCHANGED place

Restore(c) ==
  /\ status[c] = "returned"
  /\ status' = [status EXCEPT ![c] = "open"]
  /\ UNCHANGED place

Next ==
  \/ \E m \in Messages :
       \/ Hold(m) \/ Filter(m)
       \/ \E c \in Calls : OpenFor(m, c) \/ Attach(m, c)
  \/ \E c \in Calls :
       \/ OpenElsewhere(c) \/ Close(c) \/ Return(c) \/ Restore(c)
       \/ \E other \in Calls : Merge(c, other)

Spec == Init /\ [][Next]_vars
===============================================================================
