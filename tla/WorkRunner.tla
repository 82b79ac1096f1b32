------------------------------ MODULE WorkRunner ------------------------------
(***************************************************************************)
(* The durable work of the kernel (kernel/work.ts): rows of scheduled_work *)
(* claimed under a lease, run by a handler, marked done, or released to be *)
(* tried again after a backoff.                                            *)
(*                                                                         *)
(* Every instance of the server runs one loop on a timer, and a request    *)
(* that files a document drains the table on a loop of its own.  The       *)
(* handler of the one kind of work there is (evidence.extract_document) is *)
(* registered by the request that files, so an instance that has filed     *)
(* nothing since it started claims nothing.                                *)
(*                                                                         *)
(* Times are relative to now: runAt is the time until a row is due, lease  *)
(* the time its claim still has.  Rows already due keep only their order.  *)
(***************************************************************************)
EXTENDS Integers, FiniteSets, FiniteSetsExt

CONSTANTS
  Jobs,           \* documents filed: one row of scheduled_work each
  Instances,      \* running copies of the server
  Poison,         \* jobs whose handler always throws
  LeaseTicks,     \* lockMs
  MaxBackoff,     \* the cap of backoffMs, reached at MaxAttempts
  MaxAttempts,
  HandlerTicks,   \* bound: the longest a loop stays on one job; no lease ends it
  MaxFailures,    \* bound: handlers and updates that fail by chance
  MaxRestarts,    \* bound: instances that restart
  NoJob

Loops == {"timer", "request"}

ASSUME LeaseAssumption ==
  /\ LeaseTicks \in Nat \ {0}
  /\ HandlerTicks \in Nat
ASSUME BackoffAssumption ==
  /\ MaxBackoff \in Nat \ {0} /\ MaxAttempts \in Nat \ {0}
  /\ 2^(MaxAttempts - 1) >= MaxBackoff
ASSUME BoundsAssumption == MaxFailures \in Nat /\ MaxRestarts \in Nat
ASSUME JobsAssumption == Poison \subseteq Jobs /\ NoJob \notin Jobs

VARIABLES
  row,        \* scheduled_work, by job
  runAt,      \* its run_at
  loop,       \* the tick loops, by instance
  bound,      \* instances that have registered the handler
  returned,   \* history: jobs whose handler has returned
  cancelled,  \* history: jobs that were cancelled
  overrun,    \* history: jobs a loop stayed on as long as its lease
  failures, restarts

vars ==
  <<row, runAt, loop, bound, returned, cancelled, overrun, failures, restarts>>

Runners == Instances \X Loops

Row ==
  [state: {"absent", "waiting", "done"}, lease: 0..LeaseTicks,
   attempts: 0..MaxAttempts]

Loop ==
  [pc: {"off", "ready", "handling", "returned", "threw"},
   job: Jobs \cup {NoJob}, attempts: 0..MaxAttempts, age: 0..HandlerTicks]

TypeOK ==
  /\ row \in [Jobs -> Row]
  /\ runAt \in [Jobs -> -Cardinality(Jobs)..MaxBackoff]
  /\ loop \in [Runners -> Loop]
  /\ bound \subseteq Instances
  /\ returned \subseteq Jobs
  /\ cancelled \subseteq Jobs
  /\ overrun \subseteq Jobs
  /\ failures \in 0..MaxFailures
  /\ restarts \in 0..MaxRestarts

Ready == [pc |-> "ready", job |-> NoJob, attempts |-> 0, age |-> 0]
AtRest(r) == IF r[2] = "timer" THEN Ready ELSE [Ready EXCEPT !.pc = "off"]

Init ==
  /\ row = [j \in Jobs |->
       [state |-> "absent", lease |-> 0, attempts |-> 0]]
  /\ runAt = [j \in Jobs |-> 0]
  /\ loop = [r \in Runners |-> AtRest(r)]
  /\ bound = {}
  /\ returned = {} /\ cancelled = {} /\ overrun = {}
  /\ failures = 0 /\ restarts = 0

-----------------------------------------------------------------------------
Busy(r) == loop[r].pc \in {"handling", "returned", "threw"}

Backoff(attempts) ==
  IF 2^(attempts - 1) < MaxBackoff THEN 2^(attempts - 1) ELSE MaxBackoff

ClaimableWhenLeased(j) == row[j].state = "waiting" /\ runAt[j] <= 0

ClaimableWhenDone(j) ==
  row[j].state # "absent" /\ runAt[j] <= 0 /\ row[j].lease = 0

Claimable(j) ==
  row[j].state = "waiting" /\ runAt[j] <= 0 /\ row[j].lease = 0

Latest ==
  {j \in Jobs : /\ Claimable(j)
                /\ \A k \in Jobs : Claimable(k) => runAt[j] >= runAt[k]}

Earliest ==
  {j \in Jobs : /\ Claimable(j)
                /\ \A k \in Jobs : Claimable(k) => runAt[j] <= runAt[k]}

\* Filing a document: the handler is registered, the row is inserted unless
\* one has its intent key, and the request drains the table, except when the
\* pages left to read are put off for the timer.
File(i, j, drain) ==
  /\ bound' = bound \cup {i}
  /\ IF row[j].state = "absent"
       THEN /\ row' = [row EXCEPT ![j].state = "waiting"]
            /\ runAt' = [runAt EXCEPT ![j] = 0]
       ELSE UNCHANGED <<row, runAt>>
  /\ loop' = IF drain /\ loop[<<i, "request">>].pc = "off"
             THEN [loop EXCEPT ![<<i, "request">>] = Ready] ELSE loop
  /\ UNCHANGED <<returned, cancelled, overrun, failures, restarts>>

Cancel(j) ==
  /\ row[j].state = "waiting"
  /\ row' = [row EXCEPT ![j].state = "done"]
  /\ cancelled' = cancelled \cup {j}
  /\ UNCHANGED <<runAt, loop, bound, returned, overrun, failures, restarts>>

Claim(r) ==
  /\ loop[r].pc = "ready"
  /\ r[1] \in bound
  /\ \E j \in Earliest :
       LET attempts == IF row[j].attempts < MaxAttempts
                       THEN row[j].attempts + 1 ELSE MaxAttempts IN
       /\ row' = [row EXCEPT ![j].attempts = attempts, ![j].lease = LeaseTicks]
       /\ loop' = [loop EXCEPT ![r] =
            [pc |-> "handling", job |-> j, attempts |-> attempts, age |-> 0]]
  /\ UNCHANGED <<runAt, bound, returned, cancelled, overrun, failures,
                 restarts>>

\* A drain that finds nothing to claim ends, and the request with it.
DrainEnds(r) ==
  /\ r[2] = "request" /\ loop[r].pc = "ready"
  /\ Earliest = {}
  /\ loop' = [loop EXCEPT ![r] = AtRest(r)]
  /\ UNCHANGED <<row, runAt, bound, returned, cancelled, overrun, failures,
                 restarts>>

HandlerReturns(r) ==
  /\ loop[r].pc = "handling"
  /\ loop[r].job \notin Poison
  /\ loop' = [loop EXCEPT ![r].pc = "returned"]
  /\ returned' = returned \cup {loop[r].job}
  /\ UNCHANGED <<row, runAt, bound, cancelled, overrun, failures, restarts>>

HandlerThrows(r) ==
  /\ loop[r].pc = "handling"
  /\ \/ loop[r].job \in Poison /\ failures' = failures
     \/ failures < MaxFailures /\ failures' = failures + 1
  /\ loop' = [loop EXCEPT ![r].pc = "threw"]
  /\ UNCHANGED <<row, runAt, bound, returned, cancelled, overrun, restarts>>

MarkDoneAlways(r) ==
  /\ loop[r].pc \in {"returned", "threw"}
  /\ row' = [row EXCEPT ![loop[r].job].state = "done"]
  /\ loop' = [loop EXCEPT ![r] = Ready]
  /\ UNCHANGED <<runAt, bound, returned, cancelled, overrun, failures,
                 restarts>>

MarkDone(r) ==
  /\ loop[r].pc = "returned"
  /\ row' = [row EXCEPT ![loop[r].job].state = "done"]
  /\ loop' = [loop EXCEPT ![r] = Ready]
  /\ UNCHANGED <<runAt, bound, returned, cancelled, overrun, failures,
                 restarts>>

\* The update that marks the row fails: the catch takes it for a failed
\* handler and the job is released.
MarkDoneFails(r) ==
  /\ loop[r].pc = "returned"
  /\ failures < MaxFailures
  /\ failures' = failures + 1
  /\ loop' = [loop EXCEPT ![r].pc = "threw"]
  /\ UNCHANGED <<row, runAt, bound, returned, cancelled, overrun, restarts>>

Release(r) ==
  /\ loop[r].pc = "threw"
  /\ row' = [row EXCEPT ![loop[r].job].lease = 0]
  /\ runAt' = [runAt EXCEPT ![loop[r].job] = Backoff(loop[r].attempts)]
  /\ loop' = [loop EXCEPT ![r] = Ready]
  /\ UNCHANGED <<bound, returned, cancelled, overrun, failures, restarts>>

\* The release fails too: the tick ends and the row waits out its lease.
ReleaseFails(r) ==
  /\ loop[r].pc = "threw"
  /\ failures < MaxFailures
  /\ failures' = failures + 1
  /\ loop' = [loop EXCEPT ![r] = AtRest(r)]
  /\ UNCHANGED <<row, runAt, bound, returned, cancelled, overrun, restarts>>

\* An instance goes away and comes back with nothing registered.
Restart(i) ==
  /\ restarts < MaxRestarts
  /\ restarts' = restarts + 1
  /\ bound' = bound \ {i}
  /\ loop' = [r \in Runners |-> IF r[1] = i THEN AtRest(r) ELSE loop[r]]
  /\ UNCHANGED <<row, runAt, returned, cancelled, overrun, failures>>

\* Time passes.  Rows overdue keep their order, most overdue lowest.
Overdue == {runAt[j] : j \in Jobs} \cap (-Cardinality(Jobs)..0)
Later(time) ==
  IF time > 0 THEN time - 1 ELSE -Cardinality({t \in Overdue : t >= time})

Tick ==
  /\ \A r \in Runners : Busy(r) => loop[r].age < HandlerTicks
  /\ row' = [j \in Jobs |->
       [row[j] EXCEPT !.lease = IF @ = 0 THEN 0 ELSE @ - 1]]
  /\ runAt' = [j \in Jobs |-> Later(runAt[j])]
  /\ loop' = [r \in Runners |->
       IF Busy(r) THEN [loop[r] EXCEPT !.age = @ + 1] ELSE loop[r]]
  /\ overrun' = overrun \cup
       {loop[r].job : r \in {s \in Runners :
                               Busy(s) /\ loop[s].age + 1 >= LeaseTicks}}
  /\ UNCHANGED <<bound, returned, cancelled, failures, restarts>>

-----------------------------------------------------------------------------
Handle(r) == HandlerReturns(r) \/ (loop[r].job \in Poison /\ HandlerThrows(r))
Work(r) ==
  Claim(r) \/ DrainEnds(r) \/ Handle(r) \/ MarkDone(r) \/ Release(r)

Next ==
  \/ \E i \in Instances :
       \/ \E j \in Jobs, drain \in BOOLEAN : File(i, j, drain)
       \/ Restart(i)
  \/ \E j \in Jobs : Cancel(j)
  \/ \E r \in Runners :
       \/ Claim(r) \/ DrainEnds(r) \/ HandlerReturns(r) \/ HandlerThrows(r)
       \/ MarkDone(r) \/ MarkDoneFails(r) \/ Release(r) \/ ReleaseFails(r)
  \/ Tick

Spec == Init /\ [][Next]_vars

\* The clock runs, and the timer and a started drain go on working.
Fairness == WF_vars(Tick) /\ \A r \in Runners : WF_vars(Work(r))

FairSpec == Spec /\ Fairness

-----------------------------------------------------------------------------
(* Two loops are on one row only after a loop stayed on it as long as its  *)
(* lease: no claim, release or restart alone lets a second one in.         *)
OneRunnerPerJob ==
  \A r, s \in Runners :
    Busy(r) /\ Busy(s) /\ loop[r].job = loop[s].job =>
      r = s \/ loop[r].job \in overrun

(* A row is marked done only after its handler has returned, or because it *)
(* was cancelled: no failure of a runner or of an update loses work.       *)
DoneIsEarned ==
  \A j \in Jobs : row[j].state = "done" => j \in returned \cup cancelled

(* Nothing undoes done: a late release by a runner whose lease had run out *)
(* puts neither a finished nor a cancelled job back to work.               *)
DoneIsFinal ==
  [][\A j \in Jobs : row[j].state = "done" =>
       /\ row'[j].state = "done"
       /\ row'[j].attempts = row[j].attempts]_vars

(* What was scheduled is done in the end, though handlers, updates and     *)
(* instances fail and jobs that fail for ever come due again and again,    *)
(* unless no instance is left that has registered the handler.             *)
BoundWorkGetsDone ==
  \A j \in Jobs \ Poison :
    row[j].state = "waiting" ~> row[j].state = "done" \/ bound = {}

(* SPEC-kernel.md: work outlives the process, so what was scheduled is     *)
(* done in the end, unless its handler never stops failing.                *)
WorkGetsDone ==
  \A j \in Jobs \ Poison :
    row[j].state = "waiting" ~> row[j].state = "done"

=============================================================================
