--------------------------- MODULE WorkRunnerProofs ---------------------------
(***************************************************************************)
(* Proofs about WorkRunner for any sets of jobs and instances, any lease   *)
(* and backoff, and any number of failures and restarts.                   *)
(*                                                                         *)
(* Two inductive invariants.  Accounts needs nothing of the handlers: a    *)
(* loop at work names a job, and one whose handler returned is in the      *)
(* history.  Covered is about the jobs no loop has outstayed its lease on: *)
(* the lease of one that a loop holds has exactly the loop's age less to   *)
(* run, so it is not claimable and the job has no second loop.             *)
(*                                                                         *)
(* On these rests what a reading leaves (Extraction), for any fields and   *)
(* pages: a handler that no second one disturbs and that may stop between  *)
(* any two of its statements.                                              *)
(***************************************************************************)
EXTENDS Extraction, TLAPS

Accounts ==
  /\ row \in [Jobs -> Row]
  /\ loop \in [Runners -> Loop]
  /\ \A r \in Runners : Busy(r) => loop[r].job \in Jobs
  /\ \A r \in Runners : loop[r].pc = "returned" => loop[r].job \in returned
  /\ DoneIsEarned

Covered ==
  /\ \A r \in Runners :
       Busy(r) /\ loop[r].job \notin overrun =>
         /\ row[loop[r].job].lease = LeaseTicks - loop[r].age
         /\ loop[r].age < LeaseTicks
  /\ OneRunnerPerJob

LEMMA AtRestIsLoop ==
  ASSUME NEW r \in Runners
  PROVE  /\ AtRest(r) \in Loop /\ Ready \in Loop
         /\ AtRest(r).pc \notin {"handling", "returned", "threw"}
         /\ Ready.pc \notin {"handling", "returned", "threw"}
BY LeaseAssumption, BackoffAssumption DEF AtRest, Ready, Loop

LEMMA InitAccounts == Init => Accounts /\ Covered
<1> SUFFICES ASSUME Init PROVE Accounts /\ Covered
  OBVIOUS
<1>1. row \in [Jobs -> Row]
  BY LeaseAssumption, BackoffAssumption DEF Init, Row
<1>2. loop \in [Runners -> Loop] /\ \A r \in Runners : ~Busy(r)
  BY AtRestIsLoop DEF Init, Busy
<1>3. \A j \in Jobs : row[j].state = "absent"
  BY DEF Init
<1> QED BY <1>1, <1>2, <1>3
     DEF Accounts, Covered, DoneIsEarned, OneRunnerPerJob, Busy

-----------------------------------------------------------------------------
(* A step that moves no loop keeps the accounts if it keeps the rows typed *)
(* and the leases, and finishes only what is accounted for.                *)
LEMMA RowStep ==
  ASSUME Accounts, UNCHANGED <<loop, returned, overrun>>,
         row' \in [Jobs -> Row], cancelled \subseteq cancelled',
         \A j \in Jobs : row'[j].lease = row[j].lease,
         \A j \in Jobs :
           row'[j].state = "done" =>
             row[j].state = "done" \/ j \in returned \cup cancelled'
  PROVE  Accounts' /\ (Covered => Covered')
<1>1. DoneIsEarned'
  BY DEF Accounts, DoneIsEarned
<1>2. Accounts'
  BY <1>1 DEF Accounts, Busy
<1> QED BY <1>2 DEF Accounts, Covered, OneRunnerPerJob, Busy

(* A step of one loop that gives it no job and moves no row.               *)
LEMMA LoopStep ==
  ASSUME Accounts, NEW r \in Runners, NEW new \in Loop,
         loop' = [loop EXCEPT ![r] = new],
         UNCHANGED <<row, cancelled, overrun>>, returned \subseteq returned',
         new.pc \in {"handling", "returned", "threw"} =>
           Busy(r) /\ new.job = loop[r].job /\ new.age = loop[r].age,
         new.pc = "returned" => new.job \in returned'
  PROVE  Accounts' /\ (Covered => Covered')
<1>1. \A s \in Runners : loop'[s] = IF s = r THEN new ELSE loop[s]
  BY DEF Accounts
<1>2. \A s \in Runners :
        Busy(s)' => /\ Busy(s) /\ loop'[s].job = loop[s].job
                    /\ loop'[s].age = loop[s].age
  BY <1>1 DEF Busy
<1>3. loop' \in [Runners -> Loop]
  BY DEF Accounts
<1>4. Accounts'
  BY <1>1, <1>2, <1>3 DEF Accounts, DoneIsEarned
<1>5. Covered => Covered'
  BY <1>2 DEF Covered, OneRunnerPerJob
<1> QED BY <1>4, <1>5

(* A loop that comes to the end of its job, with what it writes to the row.*)
LEMMA LetGo ==
  ASSUME Accounts, NEW r \in Runners, Busy(r), NEW new \in Row,
         loop' = [loop EXCEPT ![r] = Ready],
         row' = [row EXCEPT ![loop[r].job] = new],
         UNCHANGED <<returned, cancelled, overrun>>,
         new.state = "done" =>
           row[loop[r].job].state = "done" \/ loop[r].job \in returned
  PROVE  Accounts' /\ (Covered => Covered')
<1>1. loop[r].job \in Jobs
  BY DEF Accounts
<1>2. row' \in [Jobs -> Row] /\ loop' \in [Runners -> Loop]
  BY <1>1, AtRestIsLoop DEF Accounts
<1>3. \A s \in Runners : Busy(s)' => s # r /\ Busy(s) /\ loop'[s] = loop[s]
  BY AtRestIsLoop DEF Accounts, Busy
<1>4. DoneIsEarned'
  BY <1>1 DEF Accounts, DoneIsEarned
<1>5. Accounts'
  BY <1>2, <1>3, <1>4, AtRestIsLoop DEF Accounts, Busy
<1>6. Covered => \A s \in Runners :
        Busy(s)' /\ loop[s].job \notin overrun =>
          row'[loop'[s].job] = row[loop[s].job]
  BY <1>1, <1>3 DEF Covered, OneRunnerPerJob, Accounts
<1>7. Covered => Covered'
  BY <1>3, <1>6 DEF Covered, OneRunnerPerJob
<1> QED BY <1>5, <1>7

-----------------------------------------------------------------------------
LEMMA ClaimStep ==
  ASSUME Accounts, NEW r \in Runners, Claim(r)
  PROVE  Accounts' /\ (Covered => Covered')
<1>1. PICK j \in Earliest :
        LET attempts == IF row[j].attempts < MaxAttempts
                        THEN row[j].attempts + 1 ELSE MaxAttempts IN
        /\ row' = [row EXCEPT ![j].attempts = attempts, ![j].lease = LeaseTicks]
        /\ loop' = [loop EXCEPT ![r] =
             [pc |-> "handling", job |-> j, attempts |-> attempts, age |-> 0]]
  BY DEF Claim
<1>2. j \in Jobs /\ row[j].lease = 0 /\ row[j] \in Row
  BY DEF Earliest, Claimable, Accounts
<1>3. row' \in [Jobs -> Row] /\ row'[j].lease = LeaseTicks
  BY <1>1, <1>2, LeaseAssumption, BackoffAssumption DEF Accounts, Row
<1>4. \A k \in Jobs : row'[k].state = row[k].state /\ (k # j => row'[k] = row[k])
  BY <1>1, <1>2 DEF Accounts, Row
<1>5. /\ loop' \in [Runners -> Loop]
      /\ loop'[r].pc = "handling" /\ loop'[r].job = j /\ loop'[r].age = 0
      /\ \A s \in Runners : s # r => loop'[s] = loop[s]
  BY <1>1, <1>2, LeaseAssumption, BackoffAssumption DEF Accounts, Loop, Row
<1>6. returned' = returned /\ cancelled' = cancelled /\ overrun' = overrun
  BY DEF Claim
<1>7. Accounts'
  BY <1>2, <1>3, <1>4, <1>5, <1>6 DEF Accounts, DoneIsEarned, Busy
<1>8. ASSUME Covered
      PROVE  Covered'
  <2>1. \A s \in Runners : Busy(s) => loop[s].job # j \/ j \in overrun
    BY <1>2, <1>8, LeaseAssumption DEF Covered, Accounts, Loop
  <2>2. \A s \in Runners \ {r} :
          Busy(s)' => Busy(s) /\ (loop'[s].job # j \/ j \in overrun)
    BY <1>5, <2>1 DEF Busy
  <2>3. \A s \in Runners :
          Busy(s)' /\ loop'[s].job \notin overrun' =>
            /\ row'[loop'[s].job].lease = LeaseTicks - loop'[s].age
            /\ loop'[s].age < LeaseTicks
    BY <1>3, <1>4, <1>5, <1>6, <1>8, <2>2, LeaseAssumption DEF Covered, Accounts
  <2>4. OneRunnerPerJob'
    BY <1>5, <1>6, <1>8, <2>2 DEF Covered, OneRunnerPerJob
  <2> QED BY <2>3, <2>4 DEF Covered
<1> QED BY <1>7, <1>8

LEMMA TickStep ==
  ASSUME Accounts, Tick
  PROVE  Accounts' /\ (Covered => Covered')
<1>0. row' = [j \in Jobs |-> [row[j] EXCEPT !.lease = IF @ = 0 THEN 0 ELSE @ - 1]]
  BY DEF Tick
<1>1. row' \in [Jobs -> Row]
  BY <1>0, LeaseAssumption DEF Accounts, Row
<1>2. \A j \in Jobs :
        /\ row'[j].state = row[j].state
        /\ row[j].lease > 0 => row'[j].lease = row[j].lease - 1
  BY <1>0, LeaseAssumption DEF Accounts, Row
<1>3. /\ loop' \in [Runners -> Loop]
      /\ \A r \in Runners :
           /\ loop'[r].pc = loop[r].pc /\ loop'[r].job = loop[r].job
           /\ Busy(r) => /\ loop'[r].age = loop[r].age + 1
                         /\ loop[r].age < HandlerTicks
  BY LeaseAssumption DEF Tick, Accounts, Loop
<1>4. returned' = returned /\ cancelled' = cancelled
  BY DEF Tick
<1>5. Accounts'
  BY <1>1, <1>2, <1>3, <1>4 DEF Accounts, DoneIsEarned, Busy
<1>6. ASSUME Covered
      PROVE  Covered'
  <2>1. ASSUME NEW r \in Runners, Busy(r)', loop'[r].job \notin overrun'
        PROVE  /\ row'[loop'[r].job].lease = LeaseTicks - loop'[r].age
               /\ loop'[r].age < LeaseTicks
    <3>1. Busy(r) /\ loop'[r].job = loop[r].job /\ loop[r].job \in Jobs
      BY <1>3, <2>1 DEF Busy, Accounts
    <3>2. loop[r].age \in Nat
      BY LeaseAssumption DEF Accounts, Loop
    <3>3. loop[r].job \notin overrun /\ ~(loop[r].age + 1 >= LeaseTicks)
      BY <2>1, <3>1 DEF Tick
    <3>4. row[loop[r].job].lease = LeaseTicks - loop[r].age
      BY <1>6, <3>1, <3>3 DEF Covered
    <3> QED BY <1>2, <1>3, <3>1, <3>2, <3>3, <3>4, LeaseAssumption
  <2>2. OneRunnerPerJob'
    BY <1>3, <1>6 DEF Covered, OneRunnerPerJob, Busy, Tick
  <2> QED BY <2>1, <2>2 DEF Covered
<1> QED BY <1>5, <1>6

(* Every step keeps the accounts and the cover.                            *)
LEMMA NextStep ==
  ASSUME Accounts, [Next]_vars
  PROVE  Accounts' /\ (Covered => Covered')
<1>1. ASSUME NEW i \in Instances, NEW j \in Jobs, NEW drain \in BOOLEAN,
             File(i, j, drain)
      PROVE  Accounts' /\ (Covered => Covered')
  <2>1. row' \in [Jobs -> Row]
    BY <1>1 DEF File, Accounts, Row
  <2>2. \A k \in Jobs :
          /\ row'[k].lease = row[k].lease
          /\ row'[k].state = "done" => row[k].state = "done"
    BY <1>1 DEF File, Accounts, Row
  <2>3. returned' = returned /\ cancelled' = cancelled /\ overrun' = overrun
    BY <1>1 DEF File
  <2>4. \A r \in Runners :
          Busy(r)' \/ Busy(r) => loop'[r] = loop[r]
    BY <1>1, AtRestIsLoop DEF File, Accounts, Busy, Runners, Loops
  <2>5. loop' \in [Runners -> Loop]
    BY <1>1, AtRestIsLoop DEF File, Accounts
  <2>6. Accounts'
    BY <2>1, <2>2, <2>3, <2>4, <2>5 DEF Accounts, DoneIsEarned, Busy
  <2>7. Covered => Covered'
    BY <2>2, <2>3, <2>4 DEF Covered, OneRunnerPerJob, Accounts, Busy
  <2> QED BY <2>6, <2>7
<1>2. ASSUME NEW i \in Instances, Restart(i)
      PROVE  Accounts' /\ (Covered => Covered')
  <2>1. loop' = [r \in Runners |-> IF r[1] = i THEN AtRest(r) ELSE loop[r]]
    BY <1>2 DEF Restart
  <2>2. UNCHANGED <<row, returned, cancelled, overrun>>
    BY <1>2 DEF Restart
  <2>3. \A r \in Runners : Busy(r)' => loop'[r] = loop[r] /\ Busy(r)
    BY <2>1, AtRestIsLoop DEF Busy
  <2>4. loop' \in [Runners -> Loop]
    BY <2>1, AtRestIsLoop DEF Accounts
  <2>5. \A r \in Runners : loop'[r].pc = "returned" => loop[r] = loop'[r]
    BY <2>3 DEF Busy
  <2>6. Accounts'
    BY <2>2, <2>3, <2>4, <2>5 DEF Accounts, DoneIsEarned
  <2>7. Covered => Covered'
    BY <2>2, <2>3 DEF Covered, OneRunnerPerJob
  <2> QED BY <2>6, <2>7
<1>3. ASSUME NEW j \in Jobs, Cancel(j)
      PROVE  Accounts' /\ (Covered => Covered')
  <2>1. row' \in [Jobs -> Row]
    BY <1>3 DEF Cancel, Accounts, Row
  <2>2. \A k \in Jobs :
          /\ row'[k].lease = row[k].lease
          /\ row'[k].state = "done" =>
               row[k].state = "done" \/ k \in returned \cup cancelled'
    BY <1>3 DEF Cancel, Accounts, Row
  <2> QED BY <1>3, <2>1, <2>2, RowStep DEF Cancel
<1>4. ASSUME NEW r \in Runners, Claim(r)
      PROVE  Accounts' /\ (Covered => Covered')
  BY <1>4, ClaimStep
<1>5. ASSUME NEW r \in Runners, DrainEnds(r)
      PROVE  Accounts' /\ (Covered => Covered')
  BY <1>5, AtRestIsLoop, LoopStep DEF DrainEnds
<1>6. ASSUME NEW r \in Runners, HandlerReturns(r)
      PROVE  Accounts' /\ (Covered => Covered')
  <2> DEFINE new == [loop[r] EXCEPT !.pc = "returned"]
  <2>1. /\ new \in Loop /\ new.pc = "returned"
        /\ new.job = loop[r].job /\ new.age = loop[r].age
    BY DEF Accounts, Loop
  <2>2. Busy(r) /\ loop' = [loop EXCEPT ![r] = new]
    BY <1>6 DEF HandlerReturns, Busy
  <2> HIDE DEF new
  <2> QED BY <1>6, <2>1, <2>2, LoopStep DEF HandlerReturns
<1>7. ASSUME NEW r \in Runners, HandlerThrows(r) \/ MarkDoneFails(r)
      PROVE  Accounts' /\ (Covered => Covered')
  <2> DEFINE new == [loop[r] EXCEPT !.pc = "threw"]
  <2>1. /\ new \in Loop /\ new.pc = "threw"
        /\ new.job = loop[r].job /\ new.age = loop[r].age
    BY DEF Accounts, Loop
  <2>2. /\ Busy(r) /\ loop' = [loop EXCEPT ![r] = new]
        /\ UNCHANGED <<row, returned, cancelled, overrun>>
    BY <1>7 DEF HandlerThrows, MarkDoneFails, Busy
  <2> HIDE DEF new
  <2> QED BY <2>1, <2>2, LoopStep
<1>8. ASSUME NEW r \in Runners, MarkDone(r)
      PROVE  Accounts' /\ (Covered => Covered')
  <2> DEFINE new == [row[loop[r].job] EXCEPT !.state = "done"]
  <2>1. Busy(r) /\ loop[r].job \in Jobs /\ loop[r].job \in returned
    BY <1>8 DEF MarkDone, Busy, Accounts
  <2>2. new \in Row
    BY <2>1 DEF Accounts, Row
  <2>3. row' = [row EXCEPT ![loop[r].job] = new]
    BY <1>8 DEF MarkDone
  <2> HIDE DEF new
  <2> QED BY <1>8, <2>1, <2>2, <2>3, LetGo DEF MarkDone
<1>9. ASSUME NEW r \in Runners, Release(r)
      PROVE  Accounts' /\ (Covered => Covered')
  <2> DEFINE new == [row[loop[r].job] EXCEPT !.lease = 0]
  <2>1. Busy(r) /\ loop[r].job \in Jobs
    BY <1>9 DEF Release, Busy, Accounts
  <2>2. new \in Row /\ new.state = row[loop[r].job].state
    BY <2>1, LeaseAssumption DEF Accounts, Row
  <2>3. row' = [row EXCEPT ![loop[r].job] = new]
    BY <1>9 DEF Release
  <2> HIDE DEF new
  <2> QED BY <1>9, <2>1, <2>2, <2>3, LetGo DEF Release
<1>10. ASSUME NEW r \in Runners, ReleaseFails(r)
       PROVE  Accounts' /\ (Covered => Covered')
  BY <1>10, AtRestIsLoop, LoopStep DEF ReleaseFails
<1>11. CASE Tick
  BY <1>11, TickStep
<1>12. CASE UNCHANGED vars
  BY <1>12 DEF vars, Accounts, Covered, DoneIsEarned, OneRunnerPerJob, Busy
<1> QED BY <1>1, <1>2, <1>3, <1>4, <1>5, <1>6, <1>7, <1>8, <1>9, <1>10,
           <1>11, <1>12 DEF Next

-----------------------------------------------------------------------------
(* A row is marked done only after its handler has returned or because it  *)
(* was cancelled, whatever fails, however often and however late.          *)
THEOREM WorkIsNotLost == Spec => []DoneIsEarned
<1>1. Init => Accounts
  BY InitAccounts
<1>2. Accounts /\ [Next]_vars => Accounts'
  BY NextStep
<1>3. Accounts => DoneIsEarned
  BY DEF Accounts
<1> QED BY <1>1, <1>2, <1>3, PTL DEF Spec

(* Two loops are on one job only after a loop stayed on it as long as the  *)
(* lease its claim took, however long handlers may be.                     *)
THEOREM OnlyAnOverrunOverlaps == Spec => []OneRunnerPerJob
<1>1. Init => Accounts /\ Covered
  BY InitAccounts
<1>2. (Accounts /\ Covered) /\ [Next]_vars => (Accounts /\ Covered)'
  BY NextStep
<1>3. Accounts /\ Covered => OneRunnerPerJob
  BY DEF Covered
<1> QED BY <1>1, <1>2, <1>3, PTL DEF Spec

(* Nothing undoes done: not a late release, not a second filing, and no    *)
(* claim takes a finished job again.                                       *)
THEOREM FinishedStaysFinished == Spec => DoneIsFinal
<1>1. ASSUME Accounts, [Next]_vars, NEW j \in Jobs, row[j].state = "done"
      PROVE  row'[j].state = "done" /\ row'[j].attempts = row[j].attempts
  <2>1. ASSUME NEW r \in Runners, Claim(r)
        PROVE  row'[j] = row[j]
    BY <1>1, <2>1 DEF Claim, Earliest, Claimable, Accounts
  <2>2. ASSUME NEW r \in Runners, MarkDone(r) \/ Release(r)
        PROVE  row'[j].state = "done" /\ row'[j].attempts = row[j].attempts
    BY <1>1, <2>2 DEF MarkDone, Release, Accounts, Row
  <2>3. ASSUME NEW i \in Instances, NEW k \in Jobs, NEW drain \in BOOLEAN,
               File(i, k, drain)
        PROVE  row'[j] = row[j]
    BY <1>1, <2>3 DEF File, Accounts
  <2>4. ASSUME NEW k \in Jobs, Cancel(k)
        PROVE  row'[j] = row[j]
    BY <1>1, <2>4 DEF Cancel, Accounts
  <2>5. CASE Tick
    BY <1>1, <2>5 DEF Tick, Accounts, Row
  <2> QED BY <1>1, <2>1, <2>2, <2>3, <2>4, <2>5
       DEF Next, vars, Restart, DrainEnds, HandlerReturns, HandlerThrows,
           MarkDoneFails, ReleaseFails
<1>2. Accounts /\ [Next]_vars =>
        [\A j \in Jobs : row[j].state = "done" =>
           /\ row'[j].state = "done"
           /\ row'[j].attempts = row[j].attempts]_vars
  BY <1>1
<1>3. Init => Accounts
  BY InitAccounts
<1>4. Accounts /\ [Next]_vars => Accounts'
  BY NextStep
<1> QED BY <1>2, <1>3, <1>4, PTL DEF Spec, DoneIsFinal

-----------------------------------------------------------------------------
-----------------------------------------------------------------------------
(* The fields of a document, while no loop outstayed its lease on it.  Only *)
(* the loop that holds a job writes what was read, so what is left to      *)
(* insert and what is stored stay complements of each other; a person who  *)
(* signs a row moves it and takes no field away.                           *)
FieldsRead(j) == \A k \in Fields : unsigned[j][k] + signed[j][k] > 0
ReadWell(j) == j \in mapped => FieldsRead(j)

HandlerFits(r) ==
  LET j == loop[r].job
      h == handler[r]
  IN
  /\ h.at = "insert" =>
       /\ h.todo \subseteq Fields
       /\ \A k \in h.todo : unsigned[j][k] = 0
       /\ \A k \in Fields \ h.todo : unsigned[j][k] + signed[j][k] > 0
  /\ h.at \in {"passages", "end"} => ReadWell(j)

RunnerFits(r) ==
  loop[r].job \notin overrun =>
    /\ Busy(r) => row[loop[r].job].state = "waiting"
    /\ loop[r].pc = "handling" => HandlerFits(r)
    /\ loop[r].pc = "returned" => ReadWell(loop[r].job)

JobFits(j) ==
  j \notin overrun =>
    /\ \A k \in Fields : unsigned[j][k] <= 1
    /\ row[j].state = "done" => ReadWell(j)

StoreTypeOK ==
  /\ unsigned \in [Jobs -> [Fields -> Nat]]
  /\ signed \in [Jobs -> [Fields -> Nat]]
  /\ DOMAIN handler = Runners

FieldsInv ==
  /\ Accounts /\ Covered /\ StoreTypeOK
  /\ \A j \in Jobs : JobFits(j)
  /\ \A r \in Runners : RunnerFits(r)

(* The passages of any document.  They only grow, page by page: whoever    *)
(* writes them has all the pages before the next one stored already, by    *)
(* its own hand or another's.                                              *)
PagesFit(j, todo) ==
  /\ todo \subseteq Pages
  /\ IF todo = {} THEN passages[j] # {} ELSE Pages \ todo \subseteq passages[j]

JobPages(j) ==
  /\ FirstPages(passages[j])
  /\ j \in unread /\ row[j].state = "done" => passages[j] # {}

RunnerPages(r) ==
  Busy(r) =>
    /\ row[loop[r].job].state # "absent"
    /\ loop[r].pc = "handling" /\ handler[r].at = "passages" =>
         PagesFit(loop[r].job, handler[r].todo)
    /\ /\ loop[r].pc = "returned" \/ (loop[r].pc = "handling" /\ handler[r].at = "end")
       /\ loop[r].job \in unread
       => passages[loop[r].job] # {}

WriterPages(i) ==
  /\ writer[i].at # "none" => writer[i].job \in Jobs
  /\ writer[i].at = "passages" => PagesFit(writer[i].job, writer[i].todo)

PagesInv ==
  /\ Accounts
  /\ passages \in [Jobs -> SUBSET Pages]
  /\ DOMAIN handler = Runners /\ DOMAIN writer = Instances
  /\ \A j \in Jobs : JobPages(j)
  /\ \A r \in Runners : RunnerPages(r)
  /\ \A i \in Instances : WriterPages(i)

LEMMA InitReading == ExtractionInit => FieldsInv /\ PagesInv
<1> SUFFICES ASSUME ExtractionInit PROVE FieldsInv /\ PagesInv
  OBVIOUS
<1>1. Accounts /\ Covered
  BY InitAccounts DEF ExtractionInit
<1>2. \A j \in Jobs : row[j].state = "absent"
  BY DEF ExtractionInit, Init
<1>3. \A r \in Runners : ~Busy(r)
  BY AtRestIsLoop DEF ExtractionInit, Init, Busy
<1>4. FieldsInv
  <2>1. StoreTypeOK
    BY DEF ExtractionInit, StoreTypeOK
  <2>2. \A j \in Jobs : JobFits(j)
    BY <1>2 DEF ExtractionInit, JobFits
  <2>3. \A r \in Runners : RunnerFits(r)
    BY <1>3 DEF RunnerFits, Busy
  <2> QED BY <1>1, <2>1, <2>2, <2>3 DEF FieldsInv
<1>5. PagesInv
  BY <1>1, <1>2, <1>3
  DEF ExtractionInit, PagesInv, JobPages, FirstPages, RunnerPages, WriterPages, NoWriter
<1> QED BY <1>4, <1>5

-----------------------------------------------------------------------------
(* What a step of the runner does to the loops: a loop after it is at its  *)
(* job as before, or begins a handler on a job that waits, and a row is    *)
(* done when it was or when a loop's handler has returned.                 *)
StaysAt(r) ==
  /\ Busy(r) /\ loop'[r].job = loop[r].job
  /\ \/ row'[loop[r].job].state = row[loop[r].job].state
     \/ \E s \in Runners \ {r} : Busy(s) /\ loop[s].job = loop[r].job
  /\ loop'[r].pc = "handling" => loop[r].pc = "handling" /\ handler'[r] = handler[r]
  /\ loop'[r].pc = "returned" =>
       loop[r].pc = "returned" \/ (loop[r].pc = "handling" /\ handler[r].at = "end")

BeginsAt(r) ==
  /\ loop'[r].pc = "handling" /\ handler'[r].at = "map"
  /\ loop'[r].job \in Jobs /\ row'[loop'[r].job].state = "waiting"

LoopsMove ==
  /\ overrun \subseteq overrun'
  /\ DOMAIN handler' = Runners
  /\ \A j \in Jobs : row[j].state # "absent" => row'[j].state # "absent"
  /\ \A j \in Jobs : row'[j].state = "done" =>
       \/ row[j].state = "done"
       \/ \E r \in Runners : loop[r].pc = "returned" /\ loop[r].job = j
  /\ \A r \in Runners : Busy(r)' => StaysAt(r) \/ BeginsAt(r)

(* A step in which no loop takes a job.                                    *)
KeepsJob(r) ==
  /\ Busy(r) /\ loop'[r].job = loop[r].job
  /\ \/ loop'[r].pc \in {loop[r].pc, "threw"}
     \/ loop'[r].pc = "returned" /\ loop[r].pc = "handling" /\ handler[r].at = "end"

KeepsState(j) ==
  \/ row'[j].state = row[j].state
  \/ row[j].state = "absent" /\ row'[j].state = "waiting"

LEMMA LoopsStay ==
  ASSUME Accounts, DOMAIN handler = Runners, handler' = handler,
         overrun \subseteq overrun',
         \A j \in Jobs : KeepsState(j),
         \A r \in Runners : Busy(r)' => KeepsJob(r),
         \A r \in Runners : Busy(r) => row[loop[r].job].state # "absent"
  PROVE  LoopsMove
<1>1. ASSUME NEW r \in Runners, Busy(r)' PROVE StaysAt(r)
  <2>1. KeepsJob(r)
    BY <1>1
  <2>2. loop[r].job \in Jobs /\ row[loop[r].job].state # "absent"
    BY <2>1 DEF Accounts, KeepsJob
  <2>3. row'[loop[r].job].state = row[loop[r].job].state
    BY <2>2 DEF KeepsState
  <2> QED BY <2>1, <2>3 DEF StaysAt, KeepsJob, Busy
<1>2. \A j \in Jobs : row[j].state # "absent" => row'[j].state # "absent"
  BY DEF KeepsState
<1>3. \A j \in Jobs : row'[j].state = "done" => row[j].state = "done"
  BY DEF KeepsState
<1> QED BY <1>1, <1>2, <1>3 DEF LoopsMove

LEMMA RunnerMoves ==
  ASSUME PagesInv,
         \/ OtherRunnerStep
         \/ \E r \in Runners : StartHandler(r) \/ FinishHandler(r) \/ TickThrows(r)
         \/ \E i \in Instances : InstanceRestarts(i)
         \/ \E i \in Instances, j \in Jobs, left \in BOOLEAN : FileDocument(i, j, left)
  PROVE  Accounts' /\ (Covered => Covered') /\ LoopsMove
<1>1. Next
  BY DEF OtherRunnerStep, StartHandler, FinishHandler, TickThrows, InstanceRestarts,
         FileDocument, Next
<1>2. Accounts' /\ (Covered => Covered')
  BY <1>1, NextStep DEF PagesInv
<1>3. row \in [Jobs -> Row] /\ loop \in [Runners -> Loop] /\ Accounts
      /\ DOMAIN handler = Runners
      /\ \A r \in Runners : Busy(r) =>
           loop[r].job \in Jobs /\ row[loop[r].job].state # "absent"
  BY DEF PagesInv, Accounts, RunnerPages
<1>4. ASSUME NEW r \in Runners, StartHandler(r) PROVE LoopsMove
  <2>1. PICK j \in Earliest :
          LET attempts == IF row[j].attempts < MaxAttempts
                          THEN row[j].attempts + 1 ELSE MaxAttempts IN
          /\ row' = [row EXCEPT ![j].attempts = attempts, ![j].lease = LeaseTicks]
          /\ loop' = [loop EXCEPT ![r] =
               [pc |-> "handling", job |-> j, attempts |-> attempts, age |-> 0]]
    BY <1>4 DEF StartHandler, Claim
  <2>2. j \in Jobs /\ row[j].state = "waiting"
    BY DEF Earliest, Claimable
  <2>3. \A i \in Jobs : row'[i].state = row[i].state
    BY <1>3, <2>1, <2>2 DEF Row
  <2>4. /\ loop'[r].pc = "handling" /\ loop'[r].job = j
        /\ \A s \in Runners \ {r} : loop'[s] = loop[s] /\ handler'[s] = handler[s]
        /\ handler'[r].at = "map" /\ DOMAIN handler' = Runners /\ overrun' = overrun
    BY <1>3, <1>4, <2>1 DEF StartHandler, Claim, Move
  <2>5. BeginsAt(r)
    BY <2>2, <2>3, <2>4 DEF BeginsAt
  <2>6. \A s \in Runners \ {r} : Busy(s)' => StaysAt(s)
    BY <1>3, <2>3, <2>4 DEF Busy, StaysAt
  <2> QED BY <2>3, <2>4, <2>5, <2>6 DEF LoopsMove
<1>5. ASSUME NEW r \in Runners, FinishHandler(r) PROVE LoopsMove
  <2>1. /\ loop' = [loop EXCEPT ![r].pc = "returned"] /\ row' = row
        /\ handler' = handler /\ overrun' = overrun
        /\ loop[r].pc = "handling" /\ handler[r].at = "end"
    BY <1>5 DEF FinishHandler, HandlerReturns
  <2>2. /\ loop'[r].pc = "returned" /\ loop'[r].job = loop[r].job
        /\ \A s \in Runners \ {r} : loop'[s] = loop[s]
    BY <1>3, <2>1 DEF Loop
  <2>3. \A j \in Jobs : KeepsState(j)
    BY <2>1 DEF KeepsState
  <2>4. \A s \in Runners : Busy(s)' => KeepsJob(s)
    BY <2>1, <2>2 DEF KeepsJob, Busy
  <2> QED BY <1>3, <2>1, <2>3, <2>4, LoopsStay
<1>6. ASSUME NEW i \in Instances, NEW j \in Jobs, NEW drain \in BOOLEAN,
             File(i, j, drain), handler' = handler
      PROVE  LoopsMove
  <2>1. \A k \in Jobs : KeepsState(k)
    BY <1>3, <1>6 DEF File, Row, KeepsState
  <2>2. \A r \in Runners : Busy(r)' => loop'[r] = loop[r]
    BY <1>3, <1>6, AtRestIsLoop DEF File, Busy, Runners, Loops
  <2>3. overrun' = overrun
    BY <1>6 DEF File
  <2>4. \A s \in Runners : Busy(s)' => KeepsJob(s)
    BY <2>2 DEF KeepsJob, Busy
  <2> QED BY <1>3, <1>6, <2>1, <2>3, <2>4, LoopsStay
<1>7. ASSUME NEW i \in Instances, Restart(i), handler' = handler PROVE LoopsMove
  <2>1. row' = row /\ overrun' = overrun /\ \A r \in Runners : Busy(r)' => loop'[r] = loop[r]
    BY <1>7, AtRestIsLoop DEF Restart, Busy
  <2>2. \A j \in Jobs : KeepsState(j)
    BY <2>1 DEF KeepsState
  <2>3. \A s \in Runners : Busy(s)' => KeepsJob(s)
    BY <2>1 DEF KeepsJob, Busy
  <2> QED BY <1>3, <1>7, <2>1, <2>2, <2>3, LoopsStay
<1>8. ASSUME NEW r \in Runners, DrainEnds(r) \/ ReleaseFails(r), handler' = handler
      PROVE  LoopsMove
  <2>1. row' = row /\ overrun' = overrun /\ \A s \in Runners : Busy(s)' => loop'[s] = loop[s]
    BY <1>3, <1>8, AtRestIsLoop DEF DrainEnds, ReleaseFails, Busy
  <2>2. \A j \in Jobs : KeepsState(j)
    BY <2>1 DEF KeepsState
  <2>3. \A s \in Runners : Busy(s)' => KeepsJob(s)
    BY <2>1 DEF KeepsJob, Busy
  <2> QED BY <1>3, <1>8, <2>1, <2>2, <2>3, LoopsStay
<1>9. ASSUME NEW r \in Runners, MarkDone(r), handler' = handler PROVE LoopsMove
  <2>1. /\ loop[r].job \in Jobs /\ Busy(r) /\ loop[r].pc = "returned"
        /\ row' = [row EXCEPT ![loop[r].job].state = "done"]
        /\ loop' = [loop EXCEPT ![r] = Ready] /\ overrun' = overrun
    BY <1>3, <1>9 DEF MarkDone, Busy
  <2>2. /\ row'[loop[r].job].state = "done"
        /\ \A k \in Jobs : k # loop[r].job => row'[k] = row[k]
    BY <1>3, <2>1 DEF Row
  <2>3. \A s \in Runners : Busy(s)' => s # r /\ loop'[s] = loop[s] /\ Busy(s)
    BY <1>3, <2>1, AtRestIsLoop DEF Busy
  <2>4. \A s \in Runners : Busy(s)' => StaysAt(s)
    BY <1>3, <1>9, <2>1, <2>2, <2>3 DEF StaysAt, Busy
  <2> QED BY <1>3, <1>9, <2>1, <2>2, <2>4 DEF LoopsMove
<1>10. ASSUME NEW r \in Runners, Release(r), handler' = handler PROVE LoopsMove
  <2>1. /\ loop[r].job \in Jobs /\ row' = [row EXCEPT ![loop[r].job].lease = 0]
        /\ loop' = [loop EXCEPT ![r] = Ready] /\ overrun' = overrun
    BY <1>3, <1>10 DEF Release, Busy
  <2>2. \A k \in Jobs : row'[k].state = row[k].state
    BY <1>3, <2>1 DEF Row
  <2>3. \A s \in Runners : Busy(s)' => loop'[s] = loop[s]
    BY <1>3, <2>1, AtRestIsLoop DEF Busy
  <2>4. \A j \in Jobs : KeepsState(j)
    BY <2>2 DEF KeepsState
  <2>5. \A s \in Runners : Busy(s)' => KeepsJob(s)
    BY <2>3 DEF KeepsJob, Busy
  <2> QED BY <1>3, <1>10, <2>1, <2>4, <2>5, LoopsStay
<1>11. ASSUME NEW r \in Runners, MarkDoneFails(r) \/ HandlerThrows(r), handler' = handler
       PROVE  LoopsMove
  <2>1. /\ row' = row /\ loop' = [loop EXCEPT ![r].pc = "threw"] /\ Busy(r)
        /\ overrun' = overrun
    BY <1>11 DEF MarkDoneFails, HandlerThrows, Busy
  <2>2. /\ loop'[r].pc = "threw" /\ loop'[r].job = loop[r].job
        /\ \A s \in Runners \ {r} : loop'[s] = loop[s]
    BY <1>3, <2>1 DEF Loop
  <2>3. \A j \in Jobs : KeepsState(j)
    BY <2>1 DEF KeepsState
  <2>4. \A s \in Runners : Busy(s)' => KeepsJob(s)
    BY <2>1, <2>2 DEF KeepsJob, Busy
  <2> QED BY <1>3, <1>11, <2>1, <2>3, <2>4, LoopsStay
<1>12. ASSUME Tick, handler' = handler PROVE LoopsMove
  <2>1. \A k \in Jobs : row'[k].state = row[k].state
    BY <1>3, <1>12 DEF Tick, Row
  <2>2. \A r \in Runners : loop'[r].pc = loop[r].pc /\ loop'[r].job = loop[r].job
    BY <1>3, <1>12 DEF Tick, Loop
  <2>3. overrun \subseteq overrun'
    BY <1>12 DEF Tick
  <2>4. \A j \in Jobs : KeepsState(j)
    BY <2>1 DEF KeepsState
  <2>5. \A s \in Runners : Busy(s)' => KeepsJob(s)
    BY <2>2 DEF KeepsJob, Busy
  <2> QED BY <1>3, <1>12, <2>3, <2>4, <2>5, LoopsStay
<1>13. LoopsMove
  BY <1>4, <1>5, <1>6, <1>7, <1>8, <1>9, <1>10, <1>11, <1>12
  DEF OtherRunnerStep, TickThrows, InstanceRestarts, FileDocument
<1> QED BY <1>2, <1>13

-----------------------------------------------------------------------------
(* Such a step keeps what is known of the fields, and of the pages when it *)
(* stores none and calls no job unread that a loop has begun.              *)
LEMMA FieldsKept ==
  ASSUME FieldsInv, Accounts', Covered', LoopsMove, UNCHANGED <<unsigned, signed, mapped>>
  PROVE  FieldsInv'
<1>1. \A j : ReadWell(j)' <=> ReadWell(j)
  BY DEF ReadWell, FieldsRead
<1>2. StoreTypeOK'
  BY DEF FieldsInv, StoreTypeOK, LoopsMove
<1>3. ASSUME NEW j \in Jobs PROVE JobFits(j)'
  <2>1. j \notin overrun' => j \notin overrun
    BY DEF LoopsMove
  <2>2. ASSUME j \notin overrun, row'[j].state = "done" PROVE ReadWell(j)
    <3>1. CASE row[j].state = "done"
      BY <2>2, <3>1 DEF FieldsInv, JobFits
    <3>2. ASSUME NEW r \in Runners, loop[r].pc = "returned", loop[r].job = j
          PROVE  ReadWell(j)
      BY <2>2, <3>2 DEF FieldsInv, RunnerFits
    <3> QED BY <2>2, <3>1, <3>2 DEF LoopsMove
  <2> QED BY <1>1, <2>1, <2>2 DEF FieldsInv, JobFits
<1>4. ASSUME NEW r \in Runners PROVE RunnerFits(r)'
  <2>1. CASE ~Busy(r)'
    BY <2>1 DEF RunnerFits, Busy
  <2>2. CASE BeginsAt(r)
    BY <2>2 DEF BeginsAt, RunnerFits, HandlerFits
  <2>3. CASE StaysAt(r)
    <3>1. SUFFICES ASSUME loop'[r].job \notin overrun'
                   PROVE  RunnerFits(r)'
      BY DEF RunnerFits
    <3>2. loop'[r].job = loop[r].job /\ loop[r].job \notin overrun /\ Busy(r)
      BY <2>3, <3>1 DEF StaysAt, LoopsMove
    <3>3. row'[loop[r].job].state = row[loop[r].job].state
      BY <2>3, <3>2 DEF StaysAt, FieldsInv, Covered, OneRunnerPerJob
    <3>4. RunnerFits(r)
      BY DEF FieldsInv
    <3>5. loop'[r].pc = "handling" => HandlerFits(r)'
      BY <1>1, <2>3, <3>2, <3>4 DEF StaysAt, RunnerFits, HandlerFits
    <3>6. loop'[r].pc = "returned" => ReadWell(loop[r].job)
      BY <2>3, <3>2, <3>4 DEF StaysAt, RunnerFits, HandlerFits
    <3> QED BY <1>1, <3>2, <3>3, <3>4, <3>5, <3>6 DEF RunnerFits
  <2> QED BY <2>1, <2>2, <2>3 DEF LoopsMove
<1> QED BY <1>2, <1>3, <1>4 DEF FieldsInv

LEMMA PagesKept ==
  ASSUME PagesInv, Accounts', LoopsMove, passages' = passages,
         \A j \in unread' : j \in unread \/ row[j].state = "absent",
         DOMAIN writer' = Instances, \A i \in Instances : WriterPages(i)'
  PROVE  PagesInv'
<1>1. ASSUME NEW j \in Jobs PROVE JobPages(j)'
  <2>1. FirstPages(passages[j])'
    BY DEF PagesInv, JobPages, FirstPages
  <2>2. ASSUME j \in unread', row'[j].state = "done" PROVE passages[j] # {}
    <3>1. CASE row[j].state = "done"
      BY <2>2, <3>1 DEF PagesInv, JobPages
    <3>2. ASSUME NEW r \in Runners, loop[r].pc = "returned", loop[r].job = j
          PROVE  passages[j] # {}
      BY <2>2, <3>2 DEF PagesInv, RunnerPages, Busy
    <3> QED BY <2>2, <3>1, <3>2 DEF LoopsMove
  <2> QED BY <2>1, <2>2 DEF JobPages
<1>2. ASSUME NEW r \in Runners PROVE RunnerPages(r)'
  <2>1. CASE ~Busy(r)'
    BY <2>1 DEF RunnerPages
  <2>2. CASE BeginsAt(r)
    BY <2>2 DEF BeginsAt, RunnerPages
  <2>3. CASE StaysAt(r)
    <3>1. loop'[r].job = loop[r].job /\ Busy(r) /\ loop[r].job \in Jobs /\ RunnerPages(r)
      BY <2>3 DEF StaysAt, PagesInv, Accounts
    <3>2. row'[loop[r].job].state # "absent"
      BY <3>1 DEF RunnerPages, LoopsMove
    <3>3. loop[r].job \in unread' => loop[r].job \in unread
      BY <3>1 DEF RunnerPages
    <3> QED BY <2>3, <3>1, <3>2, <3>3 DEF StaysAt, RunnerPages, PagesFit
  <2> QED BY <2>1, <2>2, <2>3 DEF LoopsMove
<1> QED BY <1>1, <1>2 DEF PagesInv, LoopsMove

LEMMA LoopsStep ==
  ASSUME FieldsInv, PagesInv,
         \/ OtherRunnerStep
         \/ \E r \in Runners : StartHandler(r) \/ FinishHandler(r) \/ TickThrows(r)
         \/ \E i \in Instances : InstanceRestarts(i)
         \/ \E i \in Instances, j \in Jobs, left \in BOOLEAN : FileDocument(i, j, left)
  PROVE  FieldsInv' /\ PagesInv'
<1>1. Accounts' /\ Covered' /\ LoopsMove
  BY RunnerMoves DEF FieldsInv
<1>2. UNCHANGED <<unsigned, signed, mapped, passages>>
  BY DEF OtherRunnerStep, StartHandler, FinishHandler, TickThrows, InstanceRestarts,
         FileDocument, store
<1>3. \A j \in unread' : j \in unread \/ row[j].state = "absent"
  BY DEF OtherRunnerStep, StartHandler, FinishHandler, TickThrows, InstanceRestarts,
         FileDocument
<1>4. DOMAIN writer' = Instances /\ \A i \in Instances :
        \/ writer'[i] = writer[i]
        \/ writer'[i] = NoWriter
        \/ writer'[i].at = "drain" /\ writer'[i].job \in Jobs
  <2>1. DOMAIN writer = Instances
    BY DEF PagesInv
  <2>2. ASSUME NEW r \in Runners, TickThrows(r)
        PROVE  \/ writer' = writer
               \/ \E i \in Instances : writer' = [writer EXCEPT ![i] = NoWriter]
    BY <2>2 DEF TickThrows, Runners
  <2>3. \/ writer' = writer
        \/ \E i \in Instances : writer' = [writer EXCEPT ![i] = NoWriter]
        \/ \E i \in Instances, j \in Jobs :
             writer' = [writer EXCEPT ![i] = [at |-> "drain", job |-> j, todo |-> {}]]
    BY <2>2 DEF OtherRunnerStep, StartHandler, FinishHandler, InstanceRestarts, FileDocument
  <2> QED BY <2>1, <2>3
<1>5. \A i \in Instances : WriterPages(i)'
  BY <1>2, <1>4 DEF PagesInv, WriterPages, PagesFit, NoWriter
<1> QED BY <1>1, <1>2, <1>3, <1>4, <1>5, FieldsKept, PagesKept

-----------------------------------------------------------------------------
(* A statement of a handler touches the job its loop is on and no other.   *)
SameReading(j) ==
  unsigned'[j] = unsigned[j] /\ signed'[j] = signed[j] /\ (j \in mapped' <=> j \in mapped)

LEMMA HandlerStep ==
  ASSUME FieldsInv, NEW r \in Runners, loop[r].pc = "handling", UNCHANGED vars,
         StoreTypeOK', \A s \in Runners \ {r} : handler'[s] = handler[s],
         \A i \in Jobs \ {loop[r].job} : SameReading(i),
         loop[r].job \notin overrun => JobFits(loop[r].job)' /\ HandlerFits(r)'
  PROVE  FieldsInv'
<1>1. UNCHANGED <<loop, row, returned, cancelled, overrun>>
  BY DEF vars
<1>2. Accounts' /\ Covered'
  BY <1>1 DEF FieldsInv, Accounts, Covered, DoneIsEarned, OneRunnerPerJob, Busy
<1>3. ASSUME NEW i \in Jobs PROVE JobFits(i)'
  <2>1. CASE i = loop[r].job
    BY <1>1, <2>1 DEF JobFits
  <2>2. CASE i # loop[r].job
    BY <1>1, <2>2 DEF FieldsInv, JobFits, SameReading, ReadWell, FieldsRead
  <2> QED BY <2>1, <2>2
<1>4. ASSUME NEW s \in Runners PROVE RunnerFits(s)'
  <2>1. SUFFICES ASSUME loop[s].job \notin overrun, Busy(s)
                 PROVE  RunnerFits(s)'
    BY <1>1 DEF RunnerFits, Busy
  <2>2. RunnerFits(s) /\ loop[s].job \in Jobs
    BY <2>1 DEF FieldsInv, Accounts
  <2>3. CASE s = r
    BY <1>1, <2>1, <2>2, <2>3 DEF RunnerFits, Busy
  <2>4. CASE s # r
    <3>1. loop[s].job # loop[r].job
      BY <2>1, <2>4 DEF FieldsInv, Covered, OneRunnerPerJob, Busy
    <3>2. SameReading(loop[s].job)
      BY <2>2, <3>1
    <3>3. /\ ReadWell(loop[s].job)' <=> ReadWell(loop[s].job)
          /\ HandlerFits(s)' <=> HandlerFits(s)
      BY <1>1, <2>4, <3>2 DEF SameReading, HandlerFits, ReadWell, FieldsRead
    <3> QED BY <1>1, <2>1, <2>2, <3>3 DEF RunnerFits, Busy
  <2> QED BY <2>3, <2>4
<1> QED BY <1>2, <1>3, <1>4 DEF FieldsInv

\* A step after which nothing of the fields and the loops has changed.
LEMMA FieldsSame ==
  ASSUME FieldsInv, UNCHANGED <<vars, unsigned, signed, mapped, handler>>
  PROVE  FieldsInv'
<1>1. UNCHANGED <<loop, row, returned, cancelled, overrun>>
  BY DEF vars
<1> QED BY <1>1 DEF FieldsInv, Accounts, Covered, DoneIsEarned, OneRunnerPerJob, Busy,
     StoreTypeOK, JobFits, RunnerFits, HandlerFits, ReadWell, FieldsRead

(* Passages only grow, and what a writer had stored before it stays stored.*)
LEMMA PagesGrow ==
  ASSUME PagesInv, UNCHANGED <<vars, unread>>,
         passages' \in [Jobs -> SUBSET Pages],
         \A j \in Jobs : passages[j] \subseteq passages'[j] /\ FirstPages(passages'[j]),
         DOMAIN handler' = Runners, DOMAIN writer' = Instances,
         \A r \in Runners : handler'[r] = handler[r] \/ RunnerPages(r)',
         \A i \in Instances : writer'[i] = writer[i] \/ WriterPages(i)'
  PROVE  PagesInv'
<1>1. UNCHANGED <<loop, row, returned, cancelled, overrun>>
  BY DEF vars
<1>2. Accounts'
  BY <1>1 DEF PagesInv, Accounts, DoneIsEarned, Busy
<1>3. \A j \in Jobs : \A todo : PagesFit(j, todo) => PagesFit(j, todo)'
  BY DEF PagesFit
<1>4. \A j \in Jobs : JobPages(j)'
  BY <1>1 DEF PagesInv, JobPages, FirstPages
<1>5. ASSUME NEW r \in Runners PROVE RunnerPages(r)'
  <2>1. CASE handler'[r] = handler[r]
    <3>1. RunnerPages(r) /\ (Busy(r) => loop[r].job \in Jobs)
      BY DEF PagesInv, Accounts
    <3> QED BY <1>1, <1>3, <2>1, <3>1 DEF RunnerPages, Busy
  <2> QED BY <2>1
<1>6. ASSUME NEW i \in Instances PROVE WriterPages(i)'
  <2>1. WriterPages(i)
    BY DEF PagesInv
  <2> QED BY <1>3, <2>1 DEF WriterPages
<1> QED BY <1>2, <1>4, <1>5, <1>6 DEF PagesInv

\* The next page written leaves first pages, and the writer's list fits.
LEMMA NextPage ==
  ASSUME PagesInv, NEW j \in Jobs, NEW todo, PagesFit(j, todo),
         NEW page \in todo, \A q \in todo : page <= q,
         passages' = [passages EXCEPT ![j] = @ \cup {page}]
  PROVE  /\ passages' \in [Jobs -> SUBSET Pages]
         /\ \A i \in Jobs : passages[i] \subseteq passages'[i] /\ FirstPages(passages'[i])
         /\ todo \ {page} \subseteq Pages /\ passages'[j] # {}
         /\ Pages \ (todo \ {page}) \subseteq passages'[j]
<1>1. page \in Pages /\ Pages \ todo \subseteq passages[j] /\ todo \subseteq Pages
  BY DEF PagesFit
<1>2. passages \in [Jobs -> SUBSET Pages] /\ \A i \in Jobs : FirstPages(passages[i])
  BY DEF PagesInv, JobPages
<1>3. /\ passages' \in [Jobs -> SUBSET Pages] /\ passages'[j] = passages[j] \cup {page}
      /\ \A i \in Jobs \ {j} : passages'[i] = passages[i]
  BY <1>1, <1>2
<1>4. FirstPages(passages'[j])
  <2>1. SUFFICES ASSUME NEW p \in passages[j] \cup {page}, NEW q \in Pages, q < p
                 PROVE  q \in passages[j] \cup {page}
    BY <1>3 DEF FirstPages
  <2>2. CASE p \in passages[j]
    BY <1>2, <2>1, <2>2 DEF FirstPages
  <2>3. CASE p = page
    <3>1. p \in Nat /\ q \in Nat
      BY <1>1, <2>3, ExtractionAssumption
    <3>2. q \notin todo
      BY <2>1, <2>3, <3>1
    <3> QED BY <1>1, <3>2
  <2> QED BY <2>1, <2>2, <2>3
<1>5. \A i \in Jobs : FirstPages(passages'[i])
  BY <1>2, <1>3, <1>4
<1> QED BY <1>1, <1>3, <1>5

-----------------------------------------------------------------------------
\* The job of a loop in its handler.
LEMMA AtItsJob ==
  ASSUME FieldsInv, NEW r \in Runners, loop[r].pc = "handling"
  PROVE  /\ loop[r].job \in Jobs /\ JobFits(loop[r].job) /\ RunnerFits(r) /\ Busy(r)
         /\ loop[r].job \notin overrun =>
              HandlerFits(r) /\ row[loop[r].job].state = "waiting"
BY DEF FieldsInv, Accounts, RunnerFits, Busy

\* Where the reading goes on after the fields.
LEMMA ReadOnTo ==
  ASSUME PagesInv, NEW r \in Runners, Busy(r), ReadOn(r)
  PROVE  /\ DOMAIN handler' = Runners
         /\ \A s \in Runners \ {r} : handler'[s] = handler[s]
         /\ handler'[r].at \in {"passages", "end"}
         /\ handler'[r].at = "passages" => PagesFit(loop[r].job, handler'[r].todo)
         /\ handler'[r].at = "end" => loop[r].job \notin unread
<1>1. DOMAIN handler = Runners /\ loop[r].job \in Jobs
      /\ passages \in [Jobs -> SUBSET Pages]
  BY DEF PagesInv, Accounts
<1>2. PagesFit(loop[r].job, PagesToWrite(loop[r].job))
  BY <1>1, ExtractionAssumption DEF PagesFit, PagesToWrite
<1> QED BY <1>1, <1>2 DEF ReadOn, Move

\* A statement that stores no page, of a loop that goes where its pages fit.
LEMMA PagesSame ==
  ASSUME PagesInv, NEW r \in Runners, UNCHANGED <<vars, passages, unread, writer>>,
         Busy(r), loop[r].pc = "handling", DOMAIN handler' = Runners,
         \A s \in Runners \ {r} : handler'[s] = handler[s],
         handler'[r].at = "passages" => PagesFit(loop[r].job, handler'[r].todo),
         handler'[r].at = "end" => loop[r].job \notin unread \/ passages[loop[r].job] # {}
  PROVE  PagesInv'
<1>1. loop' = loop /\ row' = row
  BY DEF vars
<1>2. RunnerPages(r)'
  BY <1>1 DEF PagesInv, RunnerPages, PagesFit, Busy
<1>3. \A j \in Jobs : FirstPages(passages'[j])
  BY DEF PagesInv, JobPages, FirstPages
<1> QED BY <1>2, <1>3, PagesGrow DEF PagesInv

LEMMA MapSteps ==
  ASSUME FieldsInv, PagesInv, NEW r \in Runners, MapFields(r) \/ ReaderUnavailable(r)
  PROVE  FieldsInv' /\ PagesInv'
<1> DEFINE j == loop[r].job
<1>1. loop[r].pc = "handling" /\ UNCHANGED <<vars, unsigned, signed, passages, unread, writer>>
  BY DEF MapFields, ReaderUnavailable, Running
<1>2. loop' = loop /\ row' = row /\ overrun' = overrun
  BY <1>1 DEF vars
<1>3. DOMAIN handler = Runners
  BY DEF PagesInv
<1>4. j \in Jobs /\ JobFits(j) /\ Busy(r)
      /\ (j \notin overrun => row[j].state = "waiting")
  BY <1>1, AtItsJob
<1>5. /\ DOMAIN handler' = Runners /\ \A s \in Runners \ {r} : handler'[s] = handler[s]
      /\ handler'[r].at = "passages" => PagesFit(j, handler'[r].todo)
      /\ handler'[r].at = "end" => j \notin unread
      /\ \/ handler'[r].at = "replace"
         \/ handler'[r].at \in {"passages", "end"} /\ j \notin mapped'
  BY <1>3, <1>4, ReadOnTo DEF MapFields, ReaderUnavailable, Move
<1>6. StoreTypeOK'
  BY <1>1, <1>5 DEF FieldsInv, StoreTypeOK
<1>7. \A i \in Jobs \ {j} : SameReading(i)
  BY <1>1 DEF SameReading, MapFields, ReaderUnavailable
<1>8. j \notin overrun => JobFits(j)' /\ HandlerFits(r)'
  BY <1>1, <1>2, <1>4, <1>5 DEF JobFits, HandlerFits, ReadWell
<1> QED BY <1>1, <1>4, <1>5, <1>6, <1>7, <1>8, HandlerStep, PagesSame

LEMMA ReplaceStep ==
  ASSUME FieldsInv, PagesInv, NEW r \in Runners, DeleteUnsigned(r)
  PROVE  FieldsInv' /\ PagesInv'
<1> DEFINE j == loop[r].job
<1>1. loop[r].pc = "handling" /\ UNCHANGED <<vars, signed, passages, mapped, unread, writer>>
  BY DEF DeleteUnsigned, Running
<1>2. j \in Jobs /\ Busy(r) /\ (j \notin overrun => row[j].state = "waiting")
  BY <1>1, AtItsJob
<1>3. loop' = loop /\ row' = row /\ overrun' = overrun
  BY <1>1 DEF vars
<1>4. DOMAIN handler = Runners /\ unsigned \in [Jobs -> [Fields -> Nat]]
  BY DEF FieldsInv, StoreTypeOK
<1>5. /\ unsigned' \in [Jobs -> [Fields -> Nat]]
      /\ \A k \in Fields : unsigned'[j][k] = 0
      /\ \A i \in Jobs \ {j} : unsigned'[i] = unsigned[i]
  BY <1>2, <1>4 DEF DeleteUnsigned
<1>6. /\ handler'[r] = [at |-> "insert", todo |-> Fields] /\ DOMAIN handler' = Runners
      /\ \A s \in Runners \ {r} : handler'[s] = handler[s]
  BY <1>4 DEF DeleteUnsigned, Move
<1>7. StoreTypeOK'
  BY <1>1, <1>5, <1>6 DEF FieldsInv, StoreTypeOK
<1>8. \A i \in Jobs \ {j} : SameReading(i)
  BY <1>1, <1>5 DEF SameReading
<1>9. j \notin overrun => JobFits(j)' /\ HandlerFits(r)'
  BY <1>2, <1>3, <1>5, <1>6 DEF JobFits, HandlerFits
<1> QED BY <1>1, <1>2, <1>6, <1>7, <1>8, <1>9, HandlerStep, PagesSame

LEMMA InsertFieldStep ==
  ASSUME FieldsInv, PagesInv, NEW r \in Runners, InsertField(r)
  PROVE  FieldsInv' /\ PagesInv'
<1> DEFINE j == loop[r].job
<1>1. loop[r].pc = "handling" /\ handler[r].at = "insert"
      /\ UNCHANGED <<vars, signed, passages, mapped, unread, writer>>
  BY DEF InsertField, Running
<1>2. j \in Jobs /\ Busy(r) /\ JobFits(j)
      /\ (j \notin overrun => HandlerFits(r) /\ row[j].state = "waiting")
  BY <1>1, AtItsJob
<1>3. loop' = loop /\ row' = row /\ overrun' = overrun
  BY <1>1 DEF vars
<1>4. DOMAIN handler = Runners /\ unsigned \in [Jobs -> [Fields -> Nat]]
      /\ signed \in [Jobs -> [Fields -> Nat]]
  BY DEF FieldsInv, StoreTypeOK
<1>5. PICK k \in handler[r].todo :
        /\ unsigned' = [unsigned EXCEPT ![j][k] = @ + 1]
        /\ Move(r, "insert", handler[r].todo \ {k})
  BY DEF InsertField
<1>6. /\ handler'[r] = [at |-> "insert", todo |-> handler[r].todo \ {k}]
      /\ DOMAIN handler' = Runners
      /\ \A s \in Runners \ {r} : handler'[s] = handler[s]
  BY <1>4, <1>5 DEF Move
<1>7. /\ unsigned' \in [Jobs -> [Fields -> Nat]]
      /\ \A i \in Jobs \ {j} : unsigned'[i] = unsigned[i]
  <2>1. CASE k \in Fields
    BY <1>2, <1>4, <1>5, <2>1
  <2>2. CASE k \notin Fields
    <3>1. unsigned'[j] = unsigned[j]
      BY <1>2, <1>4, <1>5, <2>2
    <3>2. DOMAIN unsigned' = Jobs /\ \A i \in Jobs \ {j} : unsigned'[i] = unsigned[i]
      BY <1>2, <1>4, <1>5
    <3>3. \A i \in Jobs : unsigned'[i] = unsigned[i]
      BY <3>1, <3>2
    <3>4. unsigned' = [i \in Jobs |-> unsigned'[i]]
      BY <1>4, <1>5
    <3> QED BY <1>4, <3>3, <3>4
  <2> QED BY <2>1, <2>2
<1>8. StoreTypeOK' /\ \A i \in Jobs \ {j} : SameReading(i)
  BY <1>1, <1>6, <1>7 DEF FieldsInv, StoreTypeOK, SameReading
<1>9. ASSUME j \notin overrun PROVE JobFits(j)' /\ HandlerFits(r)'
  <2>1. /\ k \in Fields /\ unsigned[j][k] = 0 /\ handler[r].todo \subseteq Fields
        /\ \A f \in Fields \ handler[r].todo : unsigned[j][f] + signed[j][f] > 0
        /\ \A e \in handler[r].todo : unsigned[j][e] = 0
    BY <1>1, <1>2, <1>5, <1>9 DEF HandlerFits
  <2>2. /\ unsigned'[j][k] = 1
        /\ \A f \in Fields \ {k} : unsigned'[j][f] = unsigned[j][f]
    BY <1>2, <1>4, <1>5, <2>1
  <2>3. JobFits(j)'
    BY <1>2, <1>3, <1>9, <2>2 DEF JobFits
  <2>4. \A e \in handler'[r].todo : unsigned'[j][e] = 0
    <3> TAKE e \in handler'[r].todo
    <3>1. e \in handler[r].todo /\ e \in Fields \ {k}
      BY <1>6, <2>1
    <3> QED BY <2>1, <2>2, <3>1
  <2>5. signed[j][k] \in Nat
    BY <1>2, <1>4, <2>1
  <2>6. \A f \in Fields \ handler'[r].todo : unsigned'[j][f] + signed'[j][f] > 0
    BY <1>1, <1>6, <2>1, <2>2, <2>5
  <2>7. HandlerFits(r)'
    BY <1>3, <1>6, <2>1, <2>4, <2>6 DEF HandlerFits
  <2> QED BY <2>3, <2>7
<1> QED BY <1>1, <1>2, <1>6, <1>8, <1>9, HandlerStep, PagesSame

LEMMA WrittenSteps ==
  ASSUME FieldsInv, PagesInv, NEW r \in Runners, FieldsWritten(r) \/ PassagesWritten(r)
  PROVE  FieldsInv' /\ PagesInv'
<1> DEFINE j == loop[r].job
<1>1. loop[r].pc = "handling" /\ UNCHANGED vars
      /\ UNCHANGED <<unsigned, signed, passages, mapped, unread, writer>>
  BY DEF FieldsWritten, PassagesWritten, Running, store
<1>2. j \in Jobs /\ JobFits(j) /\ Busy(r)
      /\ (j \notin overrun => HandlerFits(r) /\ row[j].state = "waiting")
  BY <1>1, AtItsJob
<1>3. loop' = loop /\ row' = row /\ overrun' = overrun
  BY <1>1 DEF vars
<1>4. DOMAIN handler = Runners /\ RunnerPages(r)
  BY DEF PagesInv
<1>5. /\ DOMAIN handler' = Runners /\ \A s \in Runners \ {r} : handler'[s] = handler[s]
      /\ handler'[r].at \in {"passages", "end"}
      /\ handler'[r].at = "passages" => PagesFit(j, handler'[r].todo)
      /\ handler'[r].at = "end" => j \notin unread \/ passages[j] # {}
  <2>1. CASE FieldsWritten(r)
    BY <1>2, <2>1, ReadOnTo DEF FieldsWritten
  <2>2. CASE PassagesWritten(r)
    BY <1>2, <1>4, <2>2 DEF PassagesWritten, Running, Move, RunnerPages, PagesFit
  <2> QED BY <2>1, <2>2
<1>6. StoreTypeOK' /\ \A i \in Jobs \ {j} : SameReading(i)
  BY <1>1, <1>5 DEF FieldsInv, StoreTypeOK, SameReading
<1>7. ASSUME j \notin overrun PROVE JobFits(j)' /\ HandlerFits(r)'
  <2>1. ReadWell(j)
    BY <1>2, <1>7 DEF FieldsWritten, PassagesWritten, Running, HandlerFits, ReadWell, FieldsRead
  <2>2. ReadWell(j)'
    BY <1>1, <1>3, <2>1 DEF ReadWell, FieldsRead
  <2> QED BY <1>1, <1>2, <1>3, <1>5, <2>2 DEF JobFits, HandlerFits
<1> QED BY <1>1, <1>2, <1>5, <1>6, <1>7, HandlerStep, PagesSame

LEMMA InsertPassageStep ==
  ASSUME FieldsInv, PagesInv, NEW r \in Runners, InsertPassage(r)
  PROVE  FieldsInv' /\ PagesInv'
<1> DEFINE j == loop[r].job
<1>1. loop[r].pc = "handling" /\ handler[r].at = "passages"
      /\ UNCHANGED <<unsigned, signed, mapped, unread, writer, row, returned, cancelled, overrun>>
  BY DEF InsertPassage, Running
<1>2. j \in Jobs /\ Busy(r) /\ JobFits(j)
      /\ (j \notin overrun => HandlerFits(r) /\ row[j].state = "waiting")
  BY <1>1, AtItsJob
<1>3. PagesFit(j, handler[r].todo) /\ DOMAIN handler = Runners
  BY <1>1, <1>2 DEF PagesInv, RunnerPages
<1>4. PICK page \in handler[r].todo :
        /\ \A q \in handler[r].todo : page <= q
        /\ IF page \in passages[j]
             THEN /\ loop' = [loop EXCEPT ![r].pc = "threw"]
                  /\ UNCHANGED <<passages, handler>>
             ELSE /\ passages' = [passages EXCEPT ![j] = @ \cup {page}]
                  /\ Move(r, "passages", handler[r].todo \ {page})
                  /\ UNCHANGED loop
  BY DEF InsertPassage
<1>5. CASE page \in passages[j]
  <2> DEFINE new == [loop[r] EXCEPT !.pc = "threw"]
  <2>1. Accounts /\ Covered /\ loop \in [Runners -> Loop] /\ loop[r] \in Loop
    BY DEF FieldsInv, Accounts
  <2>2. /\ new \in Loop /\ new.pc = "threw"
        /\ new.job = loop[r].job /\ new.age = loop[r].age
    BY <2>1 DEF Loop
  <2>3. loop' = [loop EXCEPT ![r] = new]
    BY <1>4, <1>5
  <2> HIDE DEF new
  <2>4. Accounts' /\ Covered'
    BY <1>1, <1>2, <2>1, <2>2, <2>3, LoopStep
  <2>5. \A i \in Jobs : KeepsState(i)
    BY <1>1 DEF KeepsState
  <2>6. \A s \in Runners : Busy(s)' => KeepsJob(s)
    BY <1>2, <2>1, <2>2, <2>3 DEF KeepsJob, Busy
  <2>7. LoopsMove
    BY <1>1, <1>3, <1>4, <1>5, <2>1, <2>5, <2>6, LoopsStay DEF PagesInv, RunnerPages
  <2>8. \A i \in Instances : WriterPages(i)'
    BY <1>1, <1>4, <1>5 DEF PagesInv, WriterPages, PagesFit
  <2> QED BY <1>1, <1>4, <1>5, <2>4, <2>7, <2>8, FieldsKept, PagesKept DEF PagesInv
<1>6. CASE page \notin passages[j]
  <2>1. UNCHANGED vars
    BY <1>4, <1>6 DEF InsertPassage, vars
  <2>2. /\ handler'[r] = [at |-> "passages", todo |-> handler[r].todo \ {page}]
        /\ DOMAIN handler' = Runners
        /\ \A s \in Runners \ {r} : handler'[s] = handler[s]
    BY <1>3, <1>4, <1>6 DEF Move
  <2>3. /\ passages' \in [Jobs -> SUBSET Pages]
        /\ \A i \in Jobs : passages[i] \subseteq passages'[i] /\ FirstPages(passages'[i])
        /\ handler[r].todo \ {page} \subseteq Pages /\ passages'[j] # {}
        /\ Pages \ (handler[r].todo \ {page}) \subseteq passages'[j]
    BY <1>2, <1>3, <1>4, <1>6, NextPage
  <2>4. RunnerPages(r)'
    BY <1>1, <1>2, <1>4, <1>6, <2>2, <2>3 DEF PagesInv, RunnerPages, PagesFit, Busy
  <2>5. PagesInv'
    BY <1>1, <2>1, <2>2, <2>3, <2>4, PagesGrow DEF PagesInv
  <2>6. StoreTypeOK' /\ \A i \in Jobs : SameReading(i)
    BY <1>1, <2>2 DEF FieldsInv, StoreTypeOK, SameReading
  <2>7. j \notin overrun => JobFits(j)' /\ HandlerFits(r)'
    BY <1>1, <1>2, <1>4, <1>6, <2>2 DEF JobFits, HandlerFits, ReadWell, FieldsRead
  <2> QED BY <1>1, <2>1, <2>2, <2>5, <2>6, <2>7, HandlerStep
<1> QED BY <1>5, <1>6

(* The request that files writes pages and nothing else.                   *)
LEMMA RequestSteps ==
  ASSUME FieldsInv, PagesInv, NEW i \in Instances,
         ReadStored(i) \/ WritePassage(i) \/ WriterEnds(i)
  PROVE  FieldsInv' /\ PagesInv'
<1>1. UNCHANGED <<vars, unsigned, signed, mapped, unread, handler>>
  BY DEF ReadStored, WritePassage, WriterEnds, store
<1>2. FieldsInv'
  BY <1>1, FieldsSame
<1>3. /\ DOMAIN handler' = Runners /\ DOMAIN writer = Instances /\ WriterPages(i)
      /\ passages \in [Jobs -> SUBSET Pages] /\ \A j \in Jobs : FirstPages(passages[j])
  BY <1>1 DEF PagesInv, JobPages
<1>4. ASSUME passages' = passages, DOMAIN writer' = Instances, WriterPages(i)',
             \A k \in Instances \ {i} : writer'[k] = writer[k]
      PROVE  PagesInv'
  <2>1. \A j \in Jobs : FirstPages(passages'[j])
    BY <1>3, <1>4
  <2> QED BY <1>1, <1>3, <1>4, <2>1, PagesGrow
<1>5. CASE ReadStored(i)
  <2>1. /\ writer'[i].at = "passages" /\ writer'[i].job = writer[i].job
        /\ writer'[i].todo = PagesToWrite(writer[i].job) /\ DOMAIN writer' = Instances
        /\ \A k \in Instances \ {i} : writer'[k] = writer[k]
    BY <1>3, <1>5 DEF ReadStored
  <2>2. passages' = passages /\ writer[i].job \in Jobs
    BY <1>3, <1>5 DEF ReadStored, store, WriterPages
  <2>3. PagesFit(writer[i].job, PagesToWrite(writer[i].job))
    BY <1>3, <2>2, ExtractionAssumption DEF PagesFit, PagesToWrite
  <2>4. WriterPages(i)'
    BY <2>1, <2>2, <2>3 DEF WriterPages, PagesFit
  <2> QED BY <1>2, <1>4, <2>1, <2>2, <2>4
<1>6. CASE WriterEnds(i) \/ (passages' = passages /\ writer' = [writer EXCEPT ![i] = NoWriter])
  <2>1. /\ writer'[i] = NoWriter /\ DOMAIN writer' = Instances /\ passages' = passages
        /\ \A k \in Instances \ {i} : writer'[k] = writer[k]
    BY <1>3, <1>6 DEF WriterEnds, store
  <2>2. WriterPages(i)'
    BY <2>1 DEF WriterPages, NoWriter
  <2> QED BY <1>2, <1>4, <2>1, <2>2
<1>7. CASE WritePassage(i)
  <2> DEFINE j == writer[i].job
  <2>1. j \in Jobs /\ PagesFit(j, writer[i].todo)
    BY <1>3, <1>7 DEF WritePassage, WriterPages
  <2>2. PICK page \in writer[i].todo :
          /\ \A q \in writer[i].todo : page <= q
          /\ IF page \in passages[j]
               THEN /\ writer' = [writer EXCEPT ![i] = NoWriter]
                    /\ UNCHANGED passages
               ELSE /\ passages' = [passages EXCEPT ![j] = @ \cup {page}]
                    /\ writer' = [writer EXCEPT ![i].todo = @ \ {page}]
    BY <1>7 DEF WritePassage
  <2>3. CASE page \in passages[j]
    BY <1>6, <2>2, <2>3
  <2>4. CASE page \notin passages[j]
    <3>1. /\ passages' \in [Jobs -> SUBSET Pages]
          /\ \A k \in Jobs : passages[k] \subseteq passages'[k] /\ FirstPages(passages'[k])
          /\ writer[i].todo \ {page} \subseteq Pages /\ passages'[j] # {}
          /\ Pages \ (writer[i].todo \ {page}) \subseteq passages'[j]
      BY <2>1, <2>2, <2>4, NextPage
    <3>2. /\ writer'[i].at = writer[i].at /\ writer'[i].job = j
          /\ writer'[i].todo = writer[i].todo \ {page} /\ DOMAIN writer' = Instances
          /\ \A k \in Instances \ {i} : writer'[k] = writer[k]
      <4>1. writer' = [writer EXCEPT ![i] = [writer[i] EXCEPT !.todo = writer[i].todo \ {page}]]
        BY <2>2, <2>4
      <4> QED BY <1>3, <4>1
    <3>3. WriterPages(i)'
      BY <2>1, <3>1, <3>2 DEF WriterPages, PagesFit
    <3>4. PagesInv'
      BY <1>1, <1>3, <3>1, <3>2, <3>3, PagesGrow
    <3> QED BY <1>2, <3>4
  <2> QED BY <2>3, <2>4
<1> QED BY <1>5, <1>6, <1>7

LEMMA ApproveStep ==
  ASSUME FieldsInv, PagesInv, NEW j \in Jobs, NEW k \in Fields, Approve(j, k)
  PROVE  FieldsInv' /\ PagesInv'
<1>1. /\ unsigned \in [Jobs -> [Fields -> Nat]] /\ signed \in [Jobs -> [Fields -> Nat]]
      /\ unsigned[j][k] > 0
      /\ UNCHANGED <<vars, passages, mapped, unread, handler, writer>>
  BY DEF Approve, FieldsInv, StoreTypeOK
<1>2. unsigned[j][k] \in Nat /\ signed[j][k] \in Nat
  BY <1>1
<1>3. /\ unsigned' \in [Jobs -> [Fields -> Nat]] /\ signed' \in [Jobs -> [Fields -> Nat]]
      /\ unsigned'[j][k] = unsigned[j][k] - 1 /\ signed'[j][k] = signed[j][k] + 1
      /\ \A i \in Jobs, f \in Fields :
           <<i, f>> # <<j, k>> =>
             unsigned'[i][f] = unsigned[i][f] /\ signed'[i][f] = signed[i][f]
  BY <1>1, <1>2 DEF Approve
<1>4. \A i \in Jobs, f \in Fields :
        /\ unsigned'[i][f] + signed'[i][f] = unsigned[i][f] + signed[i][f]
        /\ unsigned'[i][f] <= unsigned[i][f]
        /\ unsigned[i][f] = 0 => unsigned'[i][f] = 0
  <2> TAKE i \in Jobs, f \in Fields
  <2>1. unsigned[i][f] \in Nat /\ signed[i][f] \in Nat
    BY <1>1
  <2> QED BY <1>1, <1>2, <1>3, <2>1
<1>5. UNCHANGED <<loop, row, returned, cancelled, overrun>>
  BY <1>1 DEF vars
<1>6. Accounts' /\ Covered'
  BY <1>5 DEF FieldsInv, Accounts, Covered, DoneIsEarned, OneRunnerPerJob, Busy
<1>7. \A i \in Jobs : ReadWell(i) => ReadWell(i)'
  BY <1>1, <1>4 DEF ReadWell, FieldsRead
<1>8. ASSUME NEW i \in Jobs PROVE JobFits(i)'
  <2>1. i \notin overrun => \A f \in Fields : unsigned'[i][f] <= 1
    <3> SUFFICES ASSUME i \notin overrun, NEW f \in Fields PROVE unsigned'[i][f] <= 1
      OBVIOUS
    <3>1. unsigned[i][f] <= 1 /\ unsigned'[i][f] <= unsigned[i][f]
      BY <1>4 DEF FieldsInv, JobFits
    <3>2. unsigned[i][f] \in Nat /\ unsigned'[i][f] \in Nat
      BY <1>1, <1>3
    <3> QED BY <3>1, <3>2
  <2> QED BY <1>5, <1>7, <2>1 DEF FieldsInv, JobFits
<1>9. ASSUME NEW s \in Runners PROVE RunnerFits(s)'
  <2>1. SUFFICES ASSUME loop[s].job \notin overrun, Busy(s)
                 PROVE  RunnerFits(s)'
    BY <1>5 DEF RunnerFits, Busy
  <2>2. RunnerFits(s) /\ loop[s].job \in Jobs
    BY <2>1 DEF FieldsInv, Accounts
  <2>3. HandlerFits(s) => HandlerFits(s)'
    BY <1>1, <1>4, <1>5, <1>7, <2>2 DEF HandlerFits
  <2> QED BY <1>5, <1>7, <2>1, <2>2, <2>3 DEF RunnerFits, Busy
<1>10. FieldsInv'
  BY <1>1, <1>3, <1>6, <1>8, <1>9 DEF FieldsInv, StoreTypeOK
<1>11. PagesInv'
  <2>1. \A i \in Jobs : FirstPages(passages'[i])
    BY <1>1 DEF PagesInv, JobPages
  <2> QED BY <1>1, <2>1, PagesGrow DEF PagesInv
<1> QED BY <1>10, <1>11

LEMMA NextReading ==
  ASSUME FieldsInv, PagesInv, [ExtractionNext]_allVars
  PROVE  FieldsInv' /\ PagesInv'
<1>1. CASE \/ OtherRunnerStep
           \/ \E r \in Runners : StartHandler(r) \/ FinishHandler(r) \/ TickThrows(r)
           \/ \E i \in Instances : InstanceRestarts(i)
           \/ \E i \in Instances, j \in Jobs, left \in BOOLEAN : FileDocument(i, j, left)
  BY <1>1, LoopsStep
<1>2. ASSUME NEW r \in Runners, Reading(r) PROVE FieldsInv' /\ PagesInv'
  BY <1>2, MapSteps, ReplaceStep, InsertFieldStep, WrittenSteps, InsertPassageStep DEF Reading
<1>3. ASSUME NEW i \in Instances, ReadStored(i) \/ WritePassage(i) \/ WriterEnds(i)
      PROVE  FieldsInv' /\ PagesInv'
  BY <1>3, RequestSteps
<1>4. ASSUME NEW j \in Jobs, NEW k \in Fields, Approve(j, k) PROVE FieldsInv' /\ PagesInv'
  BY <1>4, ApproveStep
<1>5. CASE UNCHANGED allVars
  <2>1. UNCHANGED <<vars, unsigned, signed, passages, mapped, unread, handler, writer>>
    BY <1>5 DEF allVars, store
  <2>2. \A j \in Jobs : FirstPages(passages'[j])
    BY <2>1 DEF PagesInv, JobPages
  <2> QED BY <2>1, <2>2, FieldsSame, PagesGrow DEF PagesInv
<1> QED BY <1>1, <1>2, <1>3, <1>4, <1>5 DEF ExtractionNext, RequestStep

(* Readings that stop half-way, fail and are run again leave one whole     *)
(* reading: a field has two rows to sign, or is missing from a document    *)
(* marked done, only where a loop outstayed its lease; and whoever writes  *)
(* the passages, those of the first pages are stored.                      *)
THEOREM ReadingsAreWhole == ExtractionSpec => []ReadingIsWhole
<1>1. ExtractionInit => FieldsInv /\ PagesInv
  BY InitReading
<1>2. (FieldsInv /\ PagesInv) /\ [ExtractionNext]_allVars => (FieldsInv /\ PagesInv)'
  BY NextReading
<1>3. FieldsInv /\ PagesInv => ReadingIsWhole
  <2> SUFFICES ASSUME FieldsInv, PagesInv PROVE ReadingIsWhole
    OBVIOUS
  <2>1. OneUnsignedRow
    BY DEF FieldsInv, JobFits, OneUnsignedRow
  <2>2. DoneIsRead
    BY DEF FieldsInv, JobFits, ReadWell, FieldsRead, DoneIsRead
  <2>3. DoneHasFirstPages
    BY DEF PagesInv, JobPages, DoneHasFirstPages
  <2> QED BY <2>1, <2>2, <2>3 DEF ReadingIsWhole
<1> QED BY <1>1, <1>2, <1>3, PTL DEF ExtractionSpec

=============================================================================
