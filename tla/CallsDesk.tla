------------------------------ MODULE CallsDesk ------------------------------
(***************************************************************************)
(* The office's lists of calls (callsPage and filteredPage of              *)
(* calls/internal/routes.ts): the open calls with their counts, the closed *)
(* ones in windows of thirty days counted back from now, and the filtered  *)
(* tab.  A reader goes from window to window by the older link while time  *)
(* passes and the office opens, flags, returns, restores and closes calls. *)
(* One tick is a part of a window; of a closed call only the close and the *)
(* exit are on a list.                                                     *)
(***************************************************************************)
EXTENDS Integers, FiniteSets, FiniteSetsExt

CONSTANTS
  DeskCalls,
  Notes,        \* messages the sorter called noise
  Exits,        \* the exits in play
  Window,       \* CLOSED_WINDOW_MS, in ticks
  AmberAge,     \* the handling goal, in ticks
  RedAge,
  LastTick,     \* bound: the clock
  NoPage        \* no older window; no exit filter; no such call

ASSUME DeskAssumption ==
  /\ IsFiniteSet(DeskCalls)
  /\ Window \in Nat \ {0} /\ LastTick \in Nat /\ AmberAge \in Nat /\ RedAge \in Nat
  /\ NoPage \notin Nat

VARIABLES
  row,     \* service_call: the columns the lists read
  noise,   \* messages on the filtered list
  tick,
  reader   \* the closed list as a browser holds it, and what it has drawn

deskVars == <<row, noise, tick, reader>>

DeskRow ==
  [state: {"none", "open", "CLOSED"}, at: 0..LastTick, returned: BOOLEAN,
   flagged: BOOLEAN, exit: Exits \cup {NoPage}]
NoRow == [state |-> "none", at |-> 0, returned |-> FALSE, flagged |-> FALSE,
          exit |-> NoPage]
NoReader == [page |-> NoPage, exit |-> NoPage, older |-> NoPage,
             began |-> {}, drawn |-> {}]

DeskTypeOK ==
  /\ row \in [DeskCalls -> DeskRow]
  /\ noise \subseteq Notes
  /\ tick \in 0..LastTick
  /\ reader.page \in Nat \cup {NoPage} /\ reader.older \in Nat \cup {NoPage}
  /\ reader.exit \in Exits \cup {NoPage}
  /\ reader.began \subseteq DeskCalls /\ reader.drawn \subseteq DeskCalls

DeskInit ==
  /\ row = [c \in DeskCalls |-> NoRow]
  /\ noise = {} /\ tick = 0 /\ reader = NoReader

-----------------------------------------------------------------------------
ListOpenCalls == {c \in DeskCalls : row[c].state = "open" /\ ~row[c].returned}

\* A close later than `after` and not later than `upTo`.
ListClosedCalls(after, upTo) ==
  {c \in DeskCalls : /\ row[c].state = "CLOSED" /\ ~row[c].returned
                     /\ after < row[c].at /\ row[c].at <= upTo}
ListReturnedCalls == {c \in DeskCalls : row[c].returned}

Matches(c, exit) == exit = NoPage \/ row[c].exit = exit

ClosesBefore(time, exit) ==
  {row[c].at : c \in {d \in DeskCalls :
     /\ row[d].state = "CLOSED" /\ ~row[d].returned
     /\ row[d].at < time /\ Matches(d, exit)}}
\* The closes newestCloseAtOrBefore chooses the newest of.
ClosesAtOrBefore(time, exit) ==
  {row[c].at : c \in {d \in DeskCalls :
     /\ row[d].state = "CLOSED" /\ ~row[d].returned
     /\ row[d].at <= time /\ Matches(d, exit)}}

UpTo(page) == tick - page * Window
After(page) == UpTo(page) - Window

ClosedPageHolding(time) == (tick - time) \div Window

OlderPage(page, exit) ==
  LET closes == ClosesAtOrBefore(After(page), exit) IN
  IF closes = {} THEN NoPage ELSE ClosedPageHolding(Max(closes))

DrawnOn(page, exit) ==
  {c \in ListClosedCalls(After(page), UpTo(page)) : Matches(c, exit)}

\* officeBand on the handling goal: exactly on a threshold has not passed it.
DeskBand(c) ==
  LET age == tick - row[c].at IN
  IF age > RedAge THEN "red" ELSE IF age > AmberAge THEN "amber" ELSE "in time"

\* shownCall, for the segments that are links: the list each of them opens.
SegmentShows(segment) ==
  CASE segment = "open" -> ListOpenCalls
    [] segment = "emergency" -> {c \in ListOpenCalls : row[c].flagged}
    [] segment = "late" -> {c \in ListOpenCalls : DeskBand(c) \in {"amber", "red"}}
    [] segment = "red" -> {c \in ListOpenCalls : DeskBand(c) = "red"}
\* The counts callsPage makes in one pass over every open call.
Counts ==
  LET near == Cardinality({c \in ListOpenCalls : DeskBand(c) = "amber"})
      past == Cardinality({c \in ListOpenCalls : DeskBand(c) = "red"})
  IN [open |-> Cardinality(ListOpenCalls),
      emergency |-> Cardinality({c \in ListOpenCalls : row[c].flagged}),
      late |-> near + past, red |-> past]

\* arrange: an emergency, then what is past its goal, oldest first; the rest.
Rank(c) == IF row[c].flagged THEN 0 ELSE IF DeskBand(c) = "red" THEN 1 ELSE 2
Ahead(c, d) ==
  \/ Rank(c) < Rank(d)
  \/ Rank(c) = Rank(d) /\ Rank(c) < 2 /\ row[c].at < row[d].at
  \/ Rank(c) = 2 /\ Rank(d) = 2 /\ row[c].at > row[d].at

\* The call the split inbox previews, and the receipt names as the next one:
\* none stands ahead of it.
MayPreview == {c \in ListOpenCalls : ~\E d \in ListOpenCalls : Ahead(d, c)}

\* filteredPage, by origin.
FilteredRows(origin) ==
  (IF origin \in {"all", "sorter"} THEN noise ELSE {})
    \cup (IF origin \in {"all", "office"} THEN ListReturnedCalls ELSE {})

-----------------------------------------------------------------------------
Set(c, r) == row' = [row EXCEPT ![c] = r] /\ UNCHANGED <<tick, reader>>

\* A call gets an identifier nobody has had.
Unused(c) ==
  /\ row[c].state = "none"
  /\ c = CHOOSE d \in DeskCalls : row[d].state = "none"
DeskOpens(c) ==
  /\ Unused(c)
  /\ Set(c, [NoRow EXCEPT !.state = "open", !.at = tick])
  /\ UNCHANGED noise

NoiseArrives(n) == noise' = noise \cup {n} /\ UNCHANGED <<row, tick, reader>>

DeskRescues(n, c) ==
  /\ n \in noise /\ Unused(c)
  /\ Set(c, [NoRow EXCEPT !.state = "open", !.at = tick])
  /\ noise' = noise \ {n}

DeskFlags(c) ==
  /\ row[c].state = "open"
  /\ Set(c, [row[c] EXCEPT !.flagged = ~@]) /\ UNCHANGED noise

DeskReturns(c) ==
  /\ row[c].state = "open" /\ ~row[c].returned
  /\ Set(c, [row[c] EXCEPT !.returned = TRUE]) /\ UNCHANGED noise
DeskRestores(c) ==
  /\ row[c].returned
  /\ Set(c, [row[c] EXCEPT !.returned = FALSE]) /\ UNCHANGED noise

DeskCloses(c, exit) ==
  /\ c \in ListOpenCalls
  /\ Set(c, [NoRow EXCEPT !.state = "CLOSED", !.at = tick, !.exit = exit])
  /\ UNCHANGED noise

TickPasses == tick < LastTick /\ tick' = tick + 1 /\ UNCHANGED <<row, noise, reader>>

\* GET /calls?state=CLOSED, and the older link of the page it drew.
Draws(page, exit, began, drawn) ==
  /\ reader' = [page |-> page, exit |-> exit, older |-> OlderPage(page, exit),
                began |-> began, drawn |-> drawn \cup DrawnOn(page, exit)]
  /\ UNCHANGED <<row, noise, tick>>

OpensClosedList(exit) ==
  Draws(0, exit,
        {c \in DeskCalls : row[c].state = "CLOSED" /\ Matches(c, exit)}, {})
FollowsOlder ==
  /\ reader.page # NoPage /\ reader.older # NoPage
  /\ Draws(reader.older, reader.exit, reader.began, reader.drawn)

DeskNext ==
  \/ \E c \in DeskCalls :
       \/ DeskOpens(c) \/ DeskFlags(c) \/ DeskReturns(c) \/ DeskRestores(c)
       \/ \E n \in Notes : DeskRescues(n, c)
       \/ \E exit \in Exits : DeskCloses(c, exit)
  \/ \E n \in Notes : NoiseArrives(n)
  \/ \E exit \in Exits \cup {NoPage} : OpensClosedList(exit)
  \/ FollowsOlder
  \/ TickPasses

-----------------------------------------------------------------------------
\* SPEC-calls.md: a reader who follows the older links to the last one has
\* been shown every call that was closed when they began, whatever the pace
\* and whatever closed meanwhile: no close falls between two windows.
OlderReachesAll ==
  reader.page # NoPage /\ reader.older = NoPage => reader.began \subseteq reader.drawn

\* At any moment a call stands on one list: the open one, one window of the
\* closed one, or the filtered one.
Places(c) ==
  (IF c \in ListOpenCalls THEN {"open"} ELSE {})
    \cup (IF c \in FilteredRows("office") THEN {"filtered"} ELSE {})
    \cup {page \in 0..LastTick : c \in DrawnOn(page, NoPage)}
OneListEach ==
  \A c \in DeskCalls :
    row[c].state # "none" => Cardinality(Places(c)) = 1

\* The number on a segment is the length of the list it opens, and what the
\* inbox previews unasked is an emergency as long as there is one.
CountsAreLists ==
  /\ \A segment \in DOMAIN Counts :
       Counts[segment] = Cardinality(SegmentShows(segment))
  /\ Counts.open > 0 => MayPreview # {}
  /\ Counts.emergency > 0 => \A c \in MayPreview : row[c].flagged

\* The lists hold every call, and hold it once.
ListsHold == OlderReachesAll /\ OneListEach /\ CountsAreLists
=============================================================================
