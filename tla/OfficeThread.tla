----------------------------- MODULE OfficeThread -----------------------------
(***************************************************************************)
(* The office's questions: one thread of turns per operator and bound (a   *)
(* unit, a building, the portfolio).  A question loads the thread, waits   *)
(* for the model, and only then finds or makes the thread and appends its  *)
(* turn, one statement at a time without a transaction.  Another tab of    *)
(* the same operator asks and clears in between.  One thread's key is      *)
(* modelled: threads of two keys share nothing.                            *)
(***************************************************************************)
EXTENDS Naturals, FiniteSets, FiniteSetsExt

CONSTANTS
  AskTabs,      \* the operator's tabs and instances
  MaxAsks,      \* bound on questions
  MaxThreads    \* bound on threads made

ASSUME OfficeThreadAssumption == MaxAsks \in Nat /\ MaxThreads \in Nat

VARIABLES
  thread,    \* office_retrieval_thread: the row of the key, 0 when there is none
  made,      \* threads made so far
  turns,     \* office_retrieval_turn
  asks,      \* tab -> the question under way
  earlier,   \* question -> the questions whose turns were stored when it was put
  answered   \* the questions answered to their tab whose thread was not cleared since

threadVars == <<thread, made, turns, asks, earlier, answered>>

OfficeTurn == [id : 1..MaxAsks, thread : 1..MaxThreads, ordinal : Nat, ask : 1..MaxAsks]

Asking == [step : {"idle", "model", "ensure", "make", "ordinal", "insert"},
           ask : 0..MaxAsks, thread : 0..MaxThreads, ordinal : Nat]

NotAsking == [step |-> "idle", ask |-> 0, thread |-> 0, ordinal |-> 0]

OfficeThreadTypeOK ==
  /\ thread \in 0..MaxThreads /\ made \in 0..MaxThreads
  /\ turns \subseteq OfficeTurn
  /\ asks \in [AskTabs -> Asking]
  /\ DOMAIN earlier \subseteq 1..MaxAsks
  /\ \A q \in DOMAIN earlier : earlier[q] \subseteq 1..MaxAsks
  /\ answered \subseteq 1..MaxAsks

OfficeThreadInit ==
  /\ thread = 0 /\ made = 0
  /\ turns = {}
  /\ asks = [t \in AskTabs |-> NotAsking]
  /\ earlier = <<>>
  /\ answered = {}

AskAt(t, step) == asks[t].step = step

AskGoes(t, step) == asks' = [asks EXCEPT ![t].step = step]

AskEnds(t) == asks' = [asks EXCEPT ![t] = NotAsking]

\* runOfficeTurn loads the thread, whose turns the model may read.
PutQuestion(t) ==
  LET q == Cardinality(DOMAIN earlier) + 1 IN
  /\ AskAt(t, "idle") /\ q <= MaxAsks
  /\ asks' = [asks EXCEPT ![t] = [NotAsking EXCEPT !.step = "model", !.ask = q]]
  /\ earlier' = [x \in 1..q |-> IF x = q THEN {u.ask : u \in turns} ELSE earlier[x]]
  /\ UNCHANGED <<thread, made, turns, answered>>

\* The tools are chosen, the passages and the record read, and the answer (a
\* refusal is one too) comes back.
ModelAnswers(t) ==
  /\ AskAt(t, "model") /\ AskGoes(t, "ensure")
  /\ UNCHANGED <<thread, made, turns, earlier, answered>>

\* A client is unavailable: the page says so and nothing is stored.
ModelFails(t) ==
  /\ AskAt(t, "model") /\ AskEnds(t)
  /\ UNCHANGED <<thread, made, turns, earlier, answered>>

\* ensureThread: the SELECT, then the INSERT if it found nothing.
EnsureThread(t) ==
  /\ AskAt(t, "ensure")
  /\ asks' = [asks EXCEPT ![t].thread = thread,
                          ![t].step = IF thread = 0 THEN "make" ELSE "ordinal"]
  /\ UNCHANGED <<thread, made, turns, earlier, answered>>

\* The key is UNIQUE: of two first questions the later INSERT fails its request.
MakeThread(t) ==
  /\ AskAt(t, "make")
  /\ IF thread # 0
     THEN AskEnds(t) /\ UNCHANGED <<thread, made>>
     ELSE /\ made < MaxThreads
          /\ made' = made + 1 /\ thread' = made + 1
          /\ asks' = [asks EXCEPT ![t].thread = made + 1, ![t].step = "ordinal"]
  /\ UNCHANGED <<turns, earlier, answered>>

TurnsOf(h) == {u \in turns : u.thread = h}

Ordinals(h) == {u.ordinal : u \in TurnsOf(h)}

\* COALESCE(MAX(ordinal) + 1, 0).
AfterTheLast(h) == IF TurnsOf(h) = {} THEN 0 ELSE Max(Ordinals(h)) + 1

\* The last ordinal itself.
AtTheLast(h) == IF TurnsOf(h) = {} THEN 0 ELSE Max(Ordinals(h))

NextOrdinal(h) == AfterTheLast(h)

ReadOrdinal(t) ==
  /\ AskAt(t, "ordinal")
  /\ asks' = [asks EXCEPT ![t].ordinal = NextOrdinal(asks[t].thread), ![t].step = "insert"]
  /\ UNCHANGED <<thread, made, turns, earlier, answered>>

\* The thread is referenced: a cleared one fails the INSERT.  The id is a time
\* of this instance's clock and a random tail, so it may be below an older one.
InsertTurn(t) ==
  LET a == asks[t] IN
  /\ AskAt(t, "insert") /\ AskEnds(t)
  /\ IF a.thread # thread
     THEN UNCHANGED <<turns, answered>>
     ELSE /\ \E id \in (1..MaxAsks) \ {u.id : u \in turns} :
               turns' = turns \cup {[id |-> id, thread |-> a.thread,
                                     ordinal |-> a.ordinal, ask |-> a.ask]}
          /\ answered' = answered \cup {a.ask}
  /\ UNCHANGED <<thread, made, earlier>>

\* clearOfficeRetrievalThread: the row, and its turns by cascade.
ClearThread ==
  /\ thread # 0
  /\ thread' = 0
  /\ turns' = turns \ TurnsOf(thread)
  /\ answered' = {}
  /\ UNCHANGED <<made, asks, earlier>>

OfficeThreadNext ==
  \/ \E t \in AskTabs :
       \/ PutQuestion(t) \/ ModelAnswers(t) \/ ModelFails(t) \/ EnsureThread(t)
       \/ MakeThread(t) \/ ReadOrdinal(t) \/ InsertTurn(t)
  \/ ClearThread

OfficeThreadSpec == OfficeThreadInit /\ [][OfficeThreadNext]_threadVars

-----------------------------------------------------------------------------
\* loadOfficeRetrievalThread: ORDER BY ordinal, id.
ReadsBefore(u, v) ==
  \/ u.ordinal < v.ordinal
  \/ u.ordinal = v.ordinal /\ u.id < v.id

\* The page lists every answered question once until a clear, and a question
\* put after a turn was stored is listed after that turn, in whatever order
\* ids were minted and whichever tabs asked at once.
ThreadTellsItsTurns ==
  /\ {u.ask : u \in TurnsOf(thread)} = answered
  /\ \A u, v \in TurnsOf(thread) :
       /\ u.ask = v.ask => u = v
       /\ u.ask \in earlier[v.ask] => ReadsBefore(u, v)
=============================================================================
