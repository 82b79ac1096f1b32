------------------------------- MODULE Library -------------------------------
(***************************************************************************)
(* The policy library (policy/internal/library.ts): the versions of one    *)
(* title in one section.  An upload reads the open version, is refused     *)
(* unless it starts later, embeds its pages, and then, in the same         *)
(* transaction, ends the open version where its own begins and inserts     *)
(* itself with its passages.  Nothing keeps two uploads apart but the row  *)
(* lock of the version they both end and the exclusion constraint          *)
(* policy_versions_do_not_overlap.                                         *)
(***************************************************************************)
EXTENDS Integers, FiniteSets

CONSTANTS
  Uploads,     \* requests that upload a version, each at most once
  TermDays,    \* the dates a version may start on
  Never        \* effective_to of a version nothing has ended

ASSUME LibraryAssumption ==
  TermDays \subseteq Nat /\ Never \in Nat /\ \A d \in TermDays : d < Never

VARIABLES
  versions,    \* policy_document rows that are committed
  upload       \* where each request is

libraryVars == <<versions, upload>>

Version == [from: TermDays, to: TermDays \cup {Never}]
OpenVersion == [on: BOOLEAN, from: TermDays \cup {Never}]
None == [on |-> FALSE, from |-> Never]

PolicyUpload ==
  [pc: {"idle", "embedding", "closing", "inserting", "inserted", "done",
        "refused"},
   from: TermDays \cup {Never},
   current: OpenVersion]   \* the open version it read

LibraryTypeOK ==
  /\ versions \subseteq Version
  /\ upload \in [Uploads -> PolicyUpload]

LibraryInit ==
  /\ versions = {}
  /\ upload = [u \in Uploads |->
       [pc |-> "idle", from |-> Never, current |-> None]]

-----------------------------------------------------------------------------
Uploading(u, step) == upload[u].pc = step
Proceed(u, step) == upload' = [upload EXCEPT ![u].pc = step]
Conflict(u) == Proceed(u, "refused") /\ UNCHANGED versions

OpenFrom(d) == [from |-> d, to |-> Never]
Overlap(v, w) == v.from < w.to /\ w.from < v.to

\* What u has ended but not committed.
Ended(u) ==
  IF upload[u].current.on /\ upload[u].pc \in {"inserting", "inserted"}
  THEN {OpenFrom(upload[u].current.from)} ELSE {}

StartsLater(u, from, current) == ~current.on \/ current.from < from

\* The file is read and the open version looked up, without a lock.
ReadCurrent(u) ==
  /\ Uploading(u, "idle")
  /\ \E from \in TermDays :
       LET open == {v \in versions : v.to = Never}
           current == IF open = {} THEN None
                      ELSE [on |-> TRUE, from |-> (CHOOSE v \in open : TRUE).from]
       IN upload' = [upload EXCEPT ![u] =
            [pc |-> IF StartsLater(u, from, current) THEN "embedding"
                    ELSE "refused",
             from |-> from, current |-> current]]
  /\ UNCHANGED versions

\* The embedder answers and the bytes are put under their own hash; either
\* may fail.
Embed(u) ==
  /\ Uploading(u, "embedding")
  /\ \/ Proceed(u, IF upload[u].current.on THEN "closing" ELSE "inserting")
     \/ Proceed(u, "refused")
  /\ UNCHANGED versions

\* The update waits for a transaction that has ended the same version, and
\* finds no open row if that one commits.
CloseCurrent(u) ==
  LET row == OpenFrom(upload[u].current.from) IN
  /\ Uploading(u, "closing")
  /\ \A w \in Uploads : row \notin Ended(w)
  /\ IF row \in versions THEN Proceed(u, "inserting") /\ UNCHANGED versions
                         ELSE Conflict(u)

\* The exclusion constraint, beside what u has ended itself; it waits for a
\* transaction that has inserted a row in the way.
InsertVersion(u) ==
  LET row == OpenFrom(upload[u].from) IN
  /\ Uploading(u, "inserting")
  /\ \A w \in Uploads : ~Uploading(w, "inserted")
  /\ IF \E v \in versions \ Ended(u) : Overlap(v, row)
       THEN Conflict(u)
       ELSE Proceed(u, "inserted") /\ UNCHANGED versions

ClosedTheDayBefore(u) ==
  {[from |-> v.from, to |-> upload[u].from - 1] : v \in Ended(u)}
Closed(u) ==
  {[from |-> v.from, to |-> upload[u].from] : v \in Ended(u)}

\* The passages are inserted and the transaction commits.
CommitUpload(u) ==
  /\ Uploading(u, "inserted")
  /\ versions' = (versions \ Ended(u)) \cup Closed(u)
                   \cup {OpenFrom(upload[u].from)}
  /\ Proceed(u, "done")

RollBack(u) ==
  /\ upload[u].pc \in {"closing", "inserting", "inserted"}
  /\ Conflict(u)

LibraryNext ==
  \E u \in Uploads :
    \/ ReadCurrent(u) \/ Embed(u) \/ CloseCurrent(u) \/ InsertVersion(u)
    \/ CommitUpload(u) \/ RollBack(u)

LibrarySpec == LibraryInit /\ [][LibraryNext]_libraryVars

-----------------------------------------------------------------------------
\* policy_document_in_force, which search and the screen ask.
InForce(day) == {v \in versions : v.from <= day /\ day < v.to}

(* in-force.test.ts: the day before a new version starts the old one is in *)
(* force, and on that day the new one.  From the first version on, every   *)
(* day has exactly one, whichever uploads cross, fail or are refused.      *)
OneVersionInForce ==
  \A v \in versions : \A day \in TermDays :
    day >= v.from => Cardinality(InForce(day)) = 1

=============================================================================
