------------------------------ MODULE DeskProofs ------------------------------
(***************************************************************************)
(* Proofs about what the office sees on its desk: the lists of calls       *)
(* (CallsDesk) and the screens of the flats and their lettings             *)
(* (EstateDesk), each for any number of calls, lettings and requests.      *)
(***************************************************************************)
EXTENDS CallsDesk, EstateDesk, FiniteSetTheorems, WellFoundedInduction, TLAPS

-----------------------------------------------------------------------------
(* The lists of calls.  No row is of the future, a returned call is open,  *)
(* and a call that was closed when the reader began and has not been drawn *)
(* is behind the window the older link goes to: it stays closed, so it     *)
(* stays there while the clock moves the windows on.                       *)
RowsFit ==
  \A c \in DeskCalls :
    row[c].at <= tick /\ (row[c].returned => row[c].state = "open")
ReaderFits ==
  reader.page # NoPage =>
    \A c \in reader.began \ reader.drawn :
      /\ row[c].state = "CLOSED" /\ Matches(c, reader.exit)
      /\ reader.older # NoPage /\ row[c].at <= tick - reader.older * Window

DeskInv == DeskTypeOK /\ RowsFit /\ ReaderFits

LEMMA RowTypes ==
  ASSUME DeskTypeOK
  PROVE  /\ \A c \in DeskCalls :
              /\ row[c] \in DeskRow /\ row[c].at \in Nat /\ row[c].returned \in BOOLEAN
              /\ row[c].state \in {"none", "open", "CLOSED"}
         /\ tick \in Nat /\ Window \in Nat \ {0} /\ tick <= LastTick /\ LastTick \in Nat
<1>1. LastTick \in Nat /\ Window \in Nat \ {0}
  BY DeskAssumption
<1>2. \A r \in DeskRow : /\ r.at \in Nat /\ r.returned \in BOOLEAN
                         /\ r.state \in {"none", "open", "CLOSED"}
  BY <1>1 DEF DeskRow
<1> QED BY <1>1, <1>2 DEF DeskTypeOK

-----------------------------------------------------------------------------
\* The window a time is in, counted back from now.
LEMMA WindowOf ==
  ASSUME NEW a \in Nat, NEW w \in Nat \ {0}
  PROVE  /\ a \div w \in Nat /\ (a \div w) * w <= a /\ a < (a \div w) * w + w
         /\ a \div w <= a
<1>1. a \div w \in Int /\ (a \div w) * w <= a /\ a < (a \div w) * w + w
  OBVIOUS
<1> DEFINE q == a \div w
<1>2. q \in Int /\ q * w <= a /\ a < q * w + w
  BY <1>1
<1> HIDE DEF q
<1>3. q >= 0
  <2> SUFFICES ASSUME q < 0 PROVE FALSE
    BY <1>2
  <2>1. (q + 1) * w <= 0
    BY <1>2
  <2>2. (q + 1) * w = q * w + w
    BY <1>2
  <2> QED BY <1>2, <2>1, <2>2
<1>4. q <= q * w
  BY <1>2, <1>3
<1> QED BY <1>2, <1>3, <1>4 DEF q

LEMMA OneWindow ==
  ASSUME NEW a \in Nat, NEW w \in Nat \ {0}, NEW p \in Nat, NEW q \in Nat,
         p * w <= a, a < p * w + w, q * w <= a, a < q * w + w
  PROVE  p = q
<1>1. ASSUME NEW x \in Nat, NEW y \in Nat, x < y PROVE x * w + w <= y * w
  <2>1. PICK d \in Nat : y = x + 1 + d
    BY <1>1
  <2>2. y * w = x * w + w + d * w
    BY <2>1
  <2>3. d * w >= 0
    OBVIOUS
  <2>4. x * w \in Int /\ y * w \in Int /\ d * w \in Int
    OBVIOUS
  <2> QED BY <2>2, <2>3, <2>4
<1>2. ~(p < q) /\ ~(q < p)
  BY <1>1
<1> QED BY <1>2

\* A finite set that is not empty has a member nothing stands ahead of.
LEMMA Foremost ==
  ASSUME NEW S, IsFiniteSet(S), S # {}, NEW R,
         \A x \in S : <<x, x>> \notin R,
         \A x, y, z \in S : <<x, y>> \in R /\ <<y, z>> \in R => <<x, z>> \in R
  PROVE  \E x \in S : \A y \in S : <<y, x>> \notin R
<1> DEFINE aheadOf(x) == {y \in S : <<y, x>> \in R}
           T == {aheadOf(x) : x \in S}
           order == StrictSubsetOrdering(S)
<1>1. IsWellFoundedOn(order, SUBSET S)
  BY FS_StrictSubsetOrderingWellFounded, FS_FiniteSubsetsOfFinite
<1>2. T \subseteq SUBSET S /\ T # {}
  <2>1. \A x \in S : aheadOf(x) \in SUBSET S
    OBVIOUS
  <2>2. PICK x \in S : TRUE
    OBVIOUS
  <2>3. aheadOf(x) \in T /\ \A U \in T : \E y \in S : U = aheadOf(y)
    OBVIOUS
  <2> HIDE DEF T, aheadOf
  <2> QED BY <2>1, <2>3
<1> HIDE DEF order, T
<1>3. PICK U \in T : \A V \in T : <<V, U>> \notin order
  BY <1>1, <1>2, WFMin
<1>4. PICK x \in S : U = aheadOf(x)
  BY <1>3 DEF T
<1>5. ASSUME NEW y \in S, <<y, x>> \in R PROVE FALSE
  <2>1. aheadOf(y) \in T
    BY DEF T
  <2>2. aheadOf(y) \subseteq U /\ y \in U /\ y \notin aheadOf(y)
    BY <1>4, <1>5
  <2>3. <<aheadOf(y), U>> \in order
    BY <1>2, <1>3, <2>1, <2>2 DEF order, StrictSubsetOrdering
  <2> QED BY <1>3, <2>1, <2>3
<1> QED BY <1>5

\* The newest of some closes.
LEMMA NewestOf ==
  ASSUME NEW S, S \subseteq 0..LastTick, S # {}
  PROVE  Max(S) \in S /\ \A t \in S : t <= Max(S)
<1>1. LastTick \in Nat
  BY DeskAssumption
<1>2. IsFiniteSet(S)
  BY <1>1, FS_BoundedSetOfNaturals
<1> DEFINE R == {p \in S \X S : p[1] > p[2]}
<1>3. /\ \A x \in S : <<x, x>> \notin R
      /\ \A x, y, z \in S : <<x, y>> \in R /\ <<y, z>> \in R => <<x, z>> \in R
      /\ \A x, y \in S : <<x, y>> \in R <=> x > y
  BY <1>1
<1> HIDE DEF R
<1>4. PICK x \in S : \A y \in S : <<y, x>> \notin R
  BY <1>2, <1>3, Foremost
<1>5. \A y \in S : x >= y
  <2> TAKE y \in S
  <2>1. x \in Int /\ y \in Int
    BY <1>1
  <2>2. ~(y > x)
    BY <1>3, <1>4
  <2> QED BY <2>1, <2>2
<1>6. Max(S) \in S /\ \A y \in S : Max(S) >= y
  BY <1>5 DEF Max
<1> QED BY <1>1, <1>6

-----------------------------------------------------------------------------
LEMMA InitDesk == DeskInit => DeskInv
<1> SUFFICES ASSUME DeskInit PROVE DeskInv
  OBVIOUS
<1>1. row = [c \in DeskCalls |-> NoRow] /\ noise = {} /\ tick = 0 /\ reader = NoReader
  BY DEF DeskInit
<1>2. NoRow \in DeskRow /\ NoRow.at = 0 /\ NoRow.returned = FALSE
  BY DeskAssumption DEF NoRow, DeskRow
<1>3. tick \in 0..LastTick
  BY <1>1, DeskAssumption
<1>4. /\ reader.page = NoPage /\ reader.older = NoPage /\ reader.exit = NoPage
      /\ reader.began = {} /\ reader.drawn = {}
  BY <1>1 DEF NoReader
<1> HIDE DEF NoRow
<1>5. DeskTypeOK
  BY <1>1, <1>2, <1>3, <1>4 DEF DeskTypeOK
<1>6. RowsFit /\ ReaderFits
  BY <1>1, <1>2, <1>4 DEF RowsFit, ReaderFits
<1> QED BY <1>5, <1>6 DEF DeskInv

\* A command on a row that is not closed disturbs no reader.
LEMMA RowStep ==
  ASSUME DeskInv, NEW c \in DeskCalls, NEW r \in DeskRow, Set(c, r), noise' \subseteq Notes,
         row[c].state # "CLOSED", r.at <= tick, r.returned => r.state = "open"
  PROVE  DeskInv'
<1>1. /\ row' = [row EXCEPT ![c] = r] /\ tick' = tick /\ reader' = reader
      /\ row \in [DeskCalls -> DeskRow]
  BY DEF Set, DeskInv, DeskTypeOK
<1>2. /\ row' \in [DeskCalls -> DeskRow] /\ row'[c] = r
      /\ \A d \in DeskCalls \ {c} : row'[d] = row[d]
  BY <1>1
<1>3. DeskTypeOK'
  BY <1>1, <1>2 DEF DeskInv, DeskTypeOK
<1>4. RowsFit'
  BY <1>1, <1>2 DEF DeskInv, RowsFit
<1>5. ReaderFits'
  <2> SUFFICES ASSUME reader.page # NoPage, NEW d \in reader.began \ reader.drawn
               PROVE  /\ row'[d].state = "CLOSED" /\ Matches(d, reader.exit)'
                      /\ reader.older # NoPage /\ row'[d].at <= tick - reader.older * Window
    BY <1>1 DEF ReaderFits
  <2>1. /\ row[d].state = "CLOSED" /\ Matches(d, reader.exit) /\ d \in DeskCalls
        /\ reader.older # NoPage /\ row[d].at <= tick - reader.older * Window
    BY DEF DeskInv, DeskTypeOK, ReaderFits
  <2>2. row'[d] = row[d]
    BY <1>2, <2>1
  <2> QED BY <1>1, <2>1, <2>2 DEF Matches
<1> QED BY <1>3, <1>4, <1>5 DEF DeskInv

LEMMA CallSteps ==
  ASSUME DeskInv, NEW c \in DeskCalls,
         \/ DeskOpens(c) \/ DeskFlags(c) \/ DeskReturns(c) \/ DeskRestores(c)
         \/ \E n \in Notes : DeskRescues(n, c)
         \/ \E exit \in Exits : DeskCloses(c, exit)
  PROVE  DeskInv'
<1>1. /\ row[c] \in DeskRow /\ row[c].at \in Nat /\ row[c].at <= tick /\ tick \in 0..LastTick
      /\ row[c].returned => row[c].state = "open"
      /\ noise \subseteq Notes
  BY RowTypes DEF DeskInv, RowsFit, DeskTypeOK
<1>2. CASE DeskOpens(c) \/ \E n \in Notes : DeskRescues(n, c)
  <2> DEFINE r == [NoRow EXCEPT !.state = "open", !.at = tick]
  <2>1. Set(c, r) /\ row[c].state = "none" /\ noise' \subseteq Notes
    BY <1>1, <1>2 DEF DeskOpens, DeskRescues, Unused
  <2>2. NoRow \in DeskRow
    BY DeskAssumption DEF NoRow, DeskRow
  <2>3. r \in DeskRow
    BY <1>1, <2>2 DEF DeskRow
  <2>4. r.at = tick /\ r.state = "open"
    BY <2>2 DEF DeskRow
  <2> HIDE DEF r
  <2>5. tick <= tick
    BY <1>1
  <2> QED BY <2>1, <2>3, <2>4, <2>5, RowStep
<1>3. CASE DeskFlags(c)
  <2> DEFINE r == [row[c] EXCEPT !.flagged = ~@]
  <2>1. Set(c, r) /\ row[c].state = "open" /\ noise' \subseteq Notes
    BY <1>1, <1>3 DEF DeskFlags
  <2>2. r \in DeskRow /\ r.at <= tick /\ (r.returned => r.state = "open")
    BY <1>1, <2>1 DEF DeskRow
  <2> HIDE DEF r
  <2> QED BY <2>1, <2>2, RowStep
<1>4. CASE DeskReturns(c)
  <2> DEFINE r == [row[c] EXCEPT !.returned = TRUE]
  <2>1. Set(c, r) /\ row[c].state = "open" /\ noise' \subseteq Notes
    BY <1>1, <1>4 DEF DeskReturns
  <2>2. r \in DeskRow /\ r.at <= tick /\ (r.returned => r.state = "open")
    BY <1>1, <2>1 DEF DeskRow
  <2> HIDE DEF r
  <2> QED BY <2>1, <2>2, RowStep
<1>5. CASE DeskRestores(c)
  <2> DEFINE r == [row[c] EXCEPT !.returned = FALSE]
  <2>1. Set(c, r) /\ row[c].state = "open" /\ noise' \subseteq Notes
    BY <1>1, <1>5 DEF DeskRestores
  <2>2. r \in DeskRow /\ r.at <= tick /\ (r.returned => r.state = "open")
    BY <1>1, <2>1 DEF DeskRow
  <2> HIDE DEF r
  <2> QED BY <2>1, <2>2, RowStep
<1>6. ASSUME NEW exit \in Exits, DeskCloses(c, exit) PROVE DeskInv'
  <2> DEFINE r == [NoRow EXCEPT !.state = "CLOSED", !.at = tick, !.exit = exit]
  <2>1. Set(c, r) /\ row[c].state = "open" /\ noise' \subseteq Notes
    BY <1>1, <1>6 DEF DeskCloses, ListOpenCalls
  <2>2. NoRow \in DeskRow /\ ~NoRow.returned
    BY DeskAssumption DEF NoRow, DeskRow
  <2>3. r \in DeskRow
    BY <1>1, <2>2 DEF DeskRow
  <2>4. r.at = tick /\ ~r.returned
    BY <2>2 DEF DeskRow
  <2> HIDE DEF r
  <2>5. tick <= tick
    BY <1>1
  <2> QED BY <2>1, <2>3, <2>4, <2>5, RowStep
<1> QED BY <1>2, <1>3, <1>4, <1>5, <1>6

\* What a window leaves undrawn of what stands before its end is behind the
\* window the older link goes to.
LEMMA DrawnOrOlder ==
  ASSUME DeskInv, NEW page \in Nat, NEW exit \in Exits \cup {NoPage},
         NEW c \in DeskCalls, row[c].state = "CLOSED", Matches(c, exit),
         row[c].at <= tick - page * Window, c \notin DrawnOn(page, exit)
  PROVE  /\ OlderPage(page, exit) # NoPage
         /\ row[c].at <= tick - OlderPage(page, exit) * Window
<1> DEFINE closes == ClosesAtOrBefore(After(page), exit)
           newest == Max(closes)
<1>1. /\ \A d \in DeskCalls : row[d].at \in Nat /\ row[d].at <= tick
      /\ tick \in Nat /\ Window \in Nat \ {0} /\ tick <= LastTick /\ LastTick \in Nat
      /\ page * Window \in Int
  BY RowTypes DEF DeskInv, RowsFit
<1>2. ~row[c].returned
  BY DEF DeskInv, RowsFit
<1>3. row[c].at <= After(page)
  <2>1. c \notin ListClosedCalls(After(page), UpTo(page))
    BY DEF DrawnOn
  <2>2. row[c].at <= UpTo(page)
    BY DEF UpTo
  <2>3. ~(After(page) < row[c].at)
    BY <1>2, <2>1, <2>2 DEF ListClosedCalls
  <2>4. After(page) \in Int
    BY <1>1 DEF After, UpTo
  <2> QED BY <1>1, <2>3, <2>4
<1>4. row[c].at \in closes
  BY <1>2, <1>3 DEF ClosesAtOrBefore
<1>5. closes \subseteq 0..LastTick /\ \A t \in closes : t <= tick
  BY <1>1 DEF ClosesAtOrBefore
<1> HIDE DEF closes
<1>6. newest \in closes /\ row[c].at <= newest
  BY <1>4, <1>5, NewestOf
<1>7. OlderPage(page, exit) = (tick - newest) \div Window
  BY <1>4 DEF OlderPage, ClosedPageHolding, closes
<1> HIDE DEF newest
<1>8. tick - newest \in Nat /\ newest \in Nat
  <2>1. newest \in 0..LastTick /\ newest <= tick
    BY <1>5, <1>6
  <2> QED BY <1>1, <2>1
<1> DEFINE older == (tick - newest) \div Window
<1>9. older \in Nat /\ older * Window <= tick - newest
  BY <1>1, <1>8, WindowOf
<1> HIDE DEF older
<1>10. older * Window \in Int
  BY <1>1, <1>9
<1>11. row[c].at <= tick - older * Window
  BY <1>1, <1>6, <1>8, <1>9, <1>10
<1>12. older # NoPage
  BY <1>9, DeskAssumption
<1> QED BY <1>7, <1>11, <1>12 DEF older

LEMMA OlderIsAPage ==
  ASSUME DeskInv, NEW page \in Nat, NEW exit \in Exits \cup {NoPage}
  PROVE  OlderPage(page, exit) \in Nat \cup {NoPage}
<1> DEFINE closes == ClosesAtOrBefore(After(page), exit)
<1>1. /\ \A d \in DeskCalls : row[d].at \in Nat /\ row[d].at <= tick
      /\ tick \in Nat /\ Window \in Nat \ {0} /\ tick <= LastTick /\ LastTick \in Nat
  BY RowTypes DEF DeskInv, RowsFit
<1>2. closes \subseteq 0..LastTick /\ \A t \in closes : t <= tick
  BY <1>1 DEF ClosesAtOrBefore
<1>3. CASE closes = {}
  BY <1>3 DEF OlderPage
<1>4. CASE closes # {}
  <2>1. Max(closes) \in closes
    BY <1>2, <1>4, NewestOf
  <2>2. tick - Max(closes) \in Nat
    BY <1>1, <1>2, <2>1
  <2>3. (tick - Max(closes)) \div Window \in Nat
    BY <1>1, <2>2, WindowOf
  <2> QED BY <1>4, <2>3 DEF OlderPage, ClosedPageHolding
<1> QED BY <1>3, <1>4

LEMMA ReaderSteps ==
  ASSUME DeskInv,
         FollowsOlder \/ \E exit \in Exits \cup {NoPage} : OpensClosedList(exit)
  PROVE  DeskInv'
<1>1. ASSUME NEW page \in Nat, NEW exit \in Exits \cup {NoPage},
             NEW began \in SUBSET DeskCalls, NEW drawn \in SUBSET DeskCalls,
             Draws(page, exit, began, drawn),
             \A c \in began \ drawn :
               /\ row[c].state = "CLOSED" /\ Matches(c, exit)
               /\ row[c].at <= tick - page * Window
      PROVE  DeskInv'
  <2>1. /\ reader'.page = page /\ reader'.exit = exit /\ reader'.began = began
        /\ reader'.older = OlderPage(page, exit)
        /\ reader'.drawn = drawn \cup DrawnOn(page, exit)
        /\ row' = row /\ noise' = noise /\ tick' = tick
    BY <1>1 DEF Draws
  <2>2. DrawnOn(page, exit) \subseteq DeskCalls
    BY DEF DrawnOn, ListClosedCalls
  <2>3. DeskTypeOK'
    BY <2>1, <2>2, OlderIsAPage DEF DeskInv, DeskTypeOK
  <2>4. RowsFit'
    BY <2>1 DEF DeskInv, RowsFit
  <2>5. ASSUME NEW c \in began \ (drawn \cup DrawnOn(page, exit))
        PROVE  /\ row[c].state = "CLOSED" /\ Matches(c, exit)
               /\ OlderPage(page, exit) # NoPage
               /\ row[c].at <= tick - OlderPage(page, exit) * Window
    BY <1>1, DrawnOrOlder
  <2>6. ReaderFits'
    BY <2>1, <2>5 DEF ReaderFits, Matches
  <2> QED BY <2>3, <2>4, <2>6 DEF DeskInv
<1>2. ASSUME NEW exit \in Exits \cup {NoPage}, OpensClosedList(exit)
      PROVE  DeskInv'
  <2> DEFINE began == {c \in DeskCalls : row[c].state = "CLOSED" /\ Matches(c, exit)}
  <2>1. Draws(0, exit, began, {})
    BY <1>2 DEF OpensClosedList
  <2>2. /\ \A c \in DeskCalls : row[c].at <= tick
        /\ tick - 0 * Window = tick
    BY RowTypes DEF DeskInv, RowsFit
  <2>3. \A c \in began \ {} :
          /\ row[c].state = "CLOSED" /\ Matches(c, exit) /\ row[c].at <= tick - 0 * Window
    BY <2>2
  <2>4. began \in SUBSET DeskCalls /\ {} \in SUBSET DeskCalls /\ 0 \in Nat
    OBVIOUS
  <2> HIDE DEF began
  <2> QED BY <1>1, <2>1, <2>3, <2>4
<1>3. CASE FollowsOlder
  <2>1. /\ Draws(reader.older, reader.exit, reader.began, reader.drawn)
        /\ reader.page # NoPage /\ reader.older # NoPage
    BY <1>3 DEF FollowsOlder
  <2>2. /\ reader.older \in Nat /\ reader.exit \in Exits \cup {NoPage}
        /\ reader.began \in SUBSET DeskCalls /\ reader.drawn \in SUBSET DeskCalls
    BY <2>1 DEF DeskInv, DeskTypeOK
  <2>3. \A c \in reader.began \ reader.drawn :
          /\ row[c].state = "CLOSED" /\ Matches(c, reader.exit)
          /\ row[c].at <= tick - reader.older * Window
    BY <2>1 DEF DeskInv, ReaderFits
  <2> DEFINE page == reader.older
             began == reader.began
             drawn == reader.drawn
             exit == reader.exit
  <2>4. /\ Draws(page, exit, began, drawn)
        /\ page \in Nat /\ exit \in Exits \cup {NoPage}
        /\ began \in SUBSET DeskCalls /\ drawn \in SUBSET DeskCalls
        /\ \A c \in began \ drawn :
             /\ row[c].state = "CLOSED" /\ Matches(c, exit) /\ row[c].at <= tick - page * Window
    BY <2>1, <2>2, <2>3
  <2> HIDE DEF page, began, drawn, exit
  <2> QED BY <1>1, <2>4
<1> QED BY <1>2, <1>3

LEMMA ClockAndNoiseSteps ==
  ASSUME DeskInv, TickPasses \/ \E n \in Notes : NoiseArrives(n)
  PROVE  DeskInv'
<1>1. /\ row' = row /\ reader' = reader /\ noise' \subseteq Notes
      /\ tick' \in 0..LastTick /\ tick <= tick'
  BY DeskAssumption DEF TickPasses, NoiseArrives, DeskInv, DeskTypeOK
<1>2. DeskTypeOK'
  BY <1>1 DEF DeskInv, DeskTypeOK
<1>3. \A c \in DeskCalls : row[c].at \in Nat
  BY RowTypes DEF DeskInv
<1>4. tick \in Nat /\ tick' \in Nat
  BY <1>1, RowTypes DEF DeskInv
<1>5. RowsFit'
  BY <1>1, <1>3, <1>4 DEF DeskInv, RowsFit
<1>6. ReaderFits'
  <2> SUFFICES ASSUME reader.page # NoPage, NEW d \in reader.began \ reader.drawn
               PROVE  /\ row[d].state = "CLOSED" /\ Matches(d, reader.exit)'
                      /\ reader.older # NoPage /\ row[d].at <= tick' - reader.older * Window
    BY <1>1 DEF ReaderFits
  <2>1. /\ row[d].state = "CLOSED" /\ Matches(d, reader.exit) /\ d \in DeskCalls
        /\ reader.older # NoPage /\ row[d].at <= tick - reader.older * Window
    BY DEF DeskInv, DeskTypeOK, ReaderFits
  <2>2. reader.older \in Nat /\ Window \in Nat
    BY <2>1, DeskAssumption DEF DeskInv, DeskTypeOK
  <2>3. reader.older * Window \in Int
    BY <2>2
  <2>4. row[d].at <= tick' - reader.older * Window
    BY <1>1, <1>3, <1>4, <2>1, <2>3
  <2> QED BY <1>1, <2>1, <2>4 DEF Matches
<1> QED BY <1>2, <1>5, <1>6 DEF DeskInv

LEMMA NextDesk == DeskInv /\ [DeskNext]_deskVars => DeskInv'
<1> SUFFICES ASSUME DeskInv, [DeskNext]_deskVars PROVE DeskInv'
  OBVIOUS
<1>1. CASE UNCHANGED deskVars
  BY <1>1 DEF deskVars, DeskInv, DeskTypeOK, RowsFit, ReaderFits, Matches
<1> QED BY <1>1, CallSteps, ReaderSteps, ClockAndNoiseSteps DEF DeskNext

-----------------------------------------------------------------------------
\* Everything the office has is on one list.
LEMMA OneList ==
  ASSUME DeskInv
  PROVE  OneListEach
<1> SUFFICES ASSUME NEW c \in DeskCalls, row[c].state # "none"
             PROVE  Cardinality(Places(c)) = 1
  BY DEF OneListEach
<1>1. /\ row[c].at \in Nat /\ row[c].at <= tick /\ row[c].returned \in BOOLEAN
      /\ row[c].state \in {"none", "open", "CLOSED"}
      /\ tick \in Nat /\ Window \in Nat \ {0} /\ tick <= LastTick /\ LastTick \in Nat
      /\ row[c].returned => row[c].state = "open"
  BY RowTypes DEF DeskInv, RowsFit
<1>2. c \in FilteredRows("office") <=> row[c].returned
  BY DEF FilteredRows, ListReturnedCalls
<1>3. c \in ListOpenCalls <=> row[c].state = "open" /\ ~row[c].returned
  BY DEF ListOpenCalls
<1> DEFINE pages == {page \in 0..LastTick : c \in DrawnOn(page, NoPage)}
<1>4. CASE row[c].state = "open"
  <2>1. pages = {}
    BY <1>4 DEF DrawnOn, ListClosedCalls
  <2>2. CASE row[c].returned
    <3>1. Places(c) = {"filtered"}
      BY <1>2, <1>3, <2>1, <2>2 DEF Places
    <3> QED BY <3>1, FS_Singleton
  <2>3. CASE ~row[c].returned
    <3>1. Places(c) = {"open"}
      BY <1>2, <1>3, <1>4, <2>1, <2>3 DEF Places
    <3> QED BY <3>1, FS_Singleton
  <2> QED BY <2>2, <2>3
<1>5. CASE row[c].state = "CLOSED"
  <2> DEFINE age == tick - row[c].at
             holding == age \div Window
  <2>1. age \in Nat
    BY <1>1
  <2>2. \A page \in Nat : c \in DrawnOn(page, NoPage) <=>
          page * Window <= age /\ age < page * Window + Window
    <3> TAKE page \in Nat
    <3>1. page * Window \in Int
      BY <1>1
    <3>2. c \in DrawnOn(page, NoPage) <=> After(page) < row[c].at /\ row[c].at <= UpTo(page)
      BY <1>1, <1>5 DEF DrawnOn, ListClosedCalls, Matches
    <3> QED BY <1>1, <3>1, <3>2 DEF After, UpTo
  <2>3. age <= LastTick
    BY <1>1
  <2> HIDE DEF age
  <2>4. /\ holding \in Nat /\ holding * Window <= age /\ age < holding * Window + Window
        /\ holding <= age
    BY <1>1, <2>1, WindowOf
  <2> HIDE DEF holding
  <2>5. holding \in pages
    BY <1>1, <2>1, <2>2, <2>3, <2>4
  <2>6. \A page \in pages : page = holding
    BY <1>1, <2>1, <2>2, <2>4, OneWindow
  <2>7. pages = {holding}
    BY <2>5, <2>6
  <2>8. Places(c) = pages
    BY <1>1, <1>2, <1>3, <1>5 DEF Places
  <2> QED BY <2>7, <2>8, FS_Singleton
<1> QED BY <1>1, <1>4, <1>5

\* Who stands ahead of whom is an order.
LEMMA AheadIsAnOrder ==
  ASSUME DeskInv
  PROVE  /\ \A c \in DeskCalls : ~Ahead(c, c)
         /\ \A b, c, d \in DeskCalls : Ahead(b, c) /\ Ahead(c, d) => Ahead(b, d)
         /\ \A c, d \in DeskCalls : row[c].flagged /\ ~row[d].flagged => Ahead(c, d)
<1>1. \A c \in DeskCalls : row[c].at \in Nat /\ Rank(c) \in {0, 1, 2}
  BY RowTypes DEF DeskInv, Rank
<1>2. \A c \in DeskCalls : Rank(c) = 0 <=> row[c].flagged
  BY DEF Rank
<1> QED BY <1>1, <1>2 DEF Ahead

LEMMA CountsHold ==
  ASSUME DeskInv
  PROVE  CountsAreLists
<1> DEFINE near == {c \in ListOpenCalls : DeskBand(c) = "amber"}
           past == {c \in ListOpenCalls : DeskBand(c) = "red"}
           emergencies == {c \in ListOpenCalls : row[c].flagged}
<1>1. IsFiniteSet(ListOpenCalls) /\ ListOpenCalls \subseteq DeskCalls
  <2>1. ListOpenCalls \subseteq DeskCalls
    BY DEF ListOpenCalls
  <2> QED BY <2>1, DeskAssumption, FS_Subset
<1>2. /\ IsFiniteSet(near) /\ IsFiniteSet(past) /\ IsFiniteSet(emergencies)
      /\ near \cap past = {}
      /\ near \cup past = {c \in ListOpenCalls : DeskBand(c) \in {"amber", "red"}}
  <2>1. near \subseteq ListOpenCalls /\ past \subseteq ListOpenCalls
        /\ emergencies \subseteq ListOpenCalls
    OBVIOUS
  <2>2. IsFiniteSet(near) /\ IsFiniteSet(past) /\ IsFiniteSet(emergencies)
    BY <1>1, <2>1, FS_Subset
  <2> QED BY <2>2
<1>3. Cardinality(near \cup past) = Cardinality(near) + Cardinality(past)
  <2>1. Cardinality(near \cup past)
          = Cardinality(near) + Cardinality(past) - Cardinality(near \cap past)
    BY <1>2, FS_Union
  <2>2. Cardinality(near) \in Nat /\ Cardinality(past) \in Nat
    BY <1>2, FS_CardinalityType
  <2>3. Cardinality(near \cap past) = 0
    BY <1>2, FS_EmptySet
  <2> HIDE DEF near, past
  <2> QED BY <2>1, <2>2, <2>3
<1>4. /\ Counts.open = Cardinality(ListOpenCalls)
      /\ Counts.emergency = Cardinality(emergencies)
      /\ Counts.late = Cardinality(near) + Cardinality(past)
      /\ Counts.red = Cardinality(past)
      /\ DOMAIN Counts = {"open", "emergency", "late", "red"}
  BY DEF Counts
<1>5. /\ Counts["open"] = Counts.open /\ Counts["emergency"] = Counts.emergency
      /\ Counts["late"] = Counts.late /\ Counts["red"] = Counts.red
  OBVIOUS
<1>6. /\ SegmentShows("open") = ListOpenCalls
      /\ SegmentShows("emergency") = emergencies
      /\ SegmentShows("late") = near \cup past
      /\ SegmentShows("red") = past
  BY <1>2 DEF SegmentShows
<1>7. \A segment \in DOMAIN Counts : Counts[segment] = Cardinality(SegmentShows(segment))
  BY <1>3, <1>4, <1>5, <1>6
<1>8. Counts.open > 0 => MayPreview # {}
  <2> SUFFICES ASSUME ListOpenCalls # {} PROVE MayPreview # {}
    BY <1>1, <1>4, FS_EmptySet
  <2> DEFINE R == {p \in ListOpenCalls \X ListOpenCalls : Ahead(p[1], p[2])}
  <2>1. \A c, d \in ListOpenCalls : <<c, d>> \in R <=> Ahead(c, d)
    OBVIOUS
  <2> HIDE DEF R
  <2>2. PICK c \in ListOpenCalls : \A d \in ListOpenCalls : <<d, c>> \notin R
    BY <1>1, <2>1, AheadIsAnOrder, Foremost
  <2> QED BY <2>1, <2>2 DEF MayPreview
<1>9. Counts.emergency > 0 => \A c \in MayPreview : row[c].flagged
  <2> SUFFICES ASSUME emergencies # {}, NEW c \in MayPreview PROVE row[c].flagged
    BY <1>2, <1>4, FS_EmptySet
  <2>1. PICK d \in ListOpenCalls : row[d].flagged
    OBVIOUS
  <2>2. c \in DeskCalls /\ d \in DeskCalls /\ ~Ahead(d, c)
    BY <1>1, <2>1 DEF MayPreview
  <2> QED BY <2>1, <2>2, AheadIsAnOrder
<1> QED BY <1>7, <1>8, <1>9 DEF CountsAreLists

(* For any number of calls and any length of a window: a reader who        *)
(* follows the older links to the last is shown every call closed when     *)
(* they began, every call is on one list, and the counts are the lists'.   *)
THEOREM ListsAlwaysHold == DeskInit /\ [][DeskNext]_deskVars => []ListsHold
<1>1. DeskInv => OlderReachesAll
  BY DEF DeskInv, ReaderFits, OlderReachesAll
<1>2. DeskInv => ListsHold
  BY <1>1, OneList, CountsHold DEF ListsHold
<1> QED BY <1>2, InitDesk, NextDesk, PTL

(* The rows of the lists, the clock and the page a browser holds keep      *)
(* their types.                                                            *)
THEOREM DeskTypeCorrect == DeskInit /\ [][DeskNext]_deskVars => []DeskTypeOK
<1>1. DeskInv => DeskTypeOK
  BY DEF DeskInv
<1> QED BY <1>1, InitDesk, NextDesk, PTL

-----------------------------------------------------------------------------
(* The estate.  A letting is taken once it is active, and already while    *)
(* the request that activates it has not committed: no two taken lettings  *)
(* of a flat share a day, and as long as no sale overlapped an activation  *)
(* no taken letting is on a flat that is sold or being sold.  Whoever      *)
(* writes a letting puts somebody on it.                                   *)
InHand(t) == \E h \in Desktops : AtDesktop(h, "activate") /\ atWork[h].on = t
Taken(t) == Status(t) = "ACTIVE" \/ InHand(t)

FlatsApart ==
  \A s, t \in EstateLettings :
    s # t /\ FlatLet[s] = FlatLet[t] /\ Taken(s) /\ Taken(t) => ~Meets(s, t)
SalesApart ==
  ~crossed =>
    \A t \in EstateLettings : Taken(t) =>
      tenure[FlatLet[t]] # "SOLD" /\ FlatLet[t] \notin Working("sell")

Known(t) == Stands(t) \/ InHand(t)
Peopled == \A t \in EstateLettings : Known(t) => household[t] # {}

EstateInv == EstateTypeOK /\ FlatsApart /\ SalesApart /\ Peopled

Hand ==
  [does: {"nothing"}, on: {NoTask}] \cup [does: {"activate"}, on: EstateLettings]
    \cup [does: {"sell"}, on: EstateFlats]
Statuses == {"none", "DRAFT", "ACTIVE", "ENDED", "TERMINATED_EARLY"}

LEMMA HandsAndRows ==
  /\ IdleDesktop \in Hand
  /\ \A t \in EstateLettings : [does |-> "activate", on |-> t] \in Hand
  /\ \A f \in EstateFlats : [does |-> "sell", on |-> f] \in Hand
  /\ EstateTypeOK => atWork \in [Desktops -> Hand] /\ lets \in [EstateLettings -> Statuses]
  /\ \A d \in Hand : /\ d.does = "activate" => d.on \in EstateLettings
                     /\ d.does = "sell" => d.on \in EstateFlats
BY DEF IdleDesktop, Hand, Statuses, EstateTypeOK

LEMMA Terms ==
  \A t \in EstateLettings :
    /\ First(t) \in Nat \ {0} /\ Final(t) \in Nat /\ First(t) <= Final(t)
    /\ FlatLet[t] \in EstateFlats
BY EstateAssumption DEF First, Final

LEMMA WorkingMeans ==
  \A x, does : x \in Working(does) <=>
    \E h \in Desktops : AtDesktop(h, does) /\ atWork[h].on = x
BY DEF Working

LEMMA InitEstate == EstateInit => EstateInv
<1> SUFFICES ASSUME EstateInit PROVE EstateInv
  OBVIOUS
<1>1. /\ tenure \in [EstateFlats -> Designations]
      /\ lets = [t \in EstateLettings |-> "none"] /\ atWork = [h \in Desktops |-> IdleDesktop]
      /\ household = [t \in EstateLettings |-> {}] /\ bound = [t \in EstateLettings |-> {}]
      /\ dated = {} /\ excepted = {} /\ officeDay = 1 /\ crossed = FALSE
  BY DEF EstateInit
<1>2. EstateTypeOK
  <2>1. tenure \in [EstateFlats -> Designations \cup {"SOLD"}]
    BY <1>1
  <2>2. atWork \in [Desktops -> Hand] /\ lets \in [EstateLettings -> Statuses]
    BY <1>1, HandsAndRows DEF Statuses
  <2>3. /\ household \in [EstateLettings -> SUBSET HeldRoles] /\ DOMAIN bound = EstateLettings
        /\ dated \subseteq EstateLettings /\ excepted \subseteq EstateLettings \X ExceptedRules
    BY <1>1
  <2>4. LastOfficeDay \in Nat \ {0}
    BY EstateAssumption
  <2>5. officeDay \in 1..LastOfficeDay
    BY <1>1, <2>4
  <2>6. crossed \in BOOLEAN
    BY <1>1
  <2> QED BY <2>1, <2>2, <2>3, <2>5, <2>6 DEF EstateTypeOK, Hand, Statuses
<1>3. \A t \in EstateLettings : ~Taken(t) /\ ~Known(t)
  BY <1>1 DEF Taken, Known, Stands, Status, InHand, AtDesktop, IdleDesktop
<1> QED BY <1>2, <1>3 DEF EstateInv, FlatsApart, SalesApart, Peopled

-----------------------------------------------------------------------------
\* A step that takes no letting and begins no sale.
LEMMA NothingTaken ==
  ASSUME EstateInv, EstateTypeOK', Peopled', crossed' = crossed,
         \A t \in EstateLettings : Taken(t)' => Taken(t),
         Working("sell")' \subseteq Working("sell"),
         \A f \in EstateFlats :
           tenure'[f] = "SOLD" => tenure[f] = "SOLD" \/ f \in Working("sell")
  PROVE  EstateInv'
<1>1. FlatsApart'
  BY DEF EstateInv, FlatsApart, Meets, First, Final
<1>2. SalesApart'
  BY Terms DEF EstateInv, SalesApart
<1> QED BY <1>1, <1>2 DEF EstateInv

\* A step that takes one, on a flat that is free for its days.
LEMMA OneTaken ==
  ASSUME EstateInv, EstateTypeOK', Peopled', NEW t \in EstateLettings,
         TriggerTakes(t, "ACTIVE"), PeriodFree(t, "ACTIVE"),
         crossed' = (crossed \/ FlatLet[t] \in Working("sell")),
         \A s \in EstateLettings : Taken(s)' => Taken(s) \/ s = t,
         Working("sell")' = Working("sell"), tenure' = tenure
  PROVE  EstateInv'
<1>1. ASSUME NEW s \in EstateLettings, s # t, FlatLet[s] = FlatLet[t], Taken(s)
      PROVE  ~Meets(s, t) /\ ~Meets(t, s)
  <2>1. /\ Blockers(t) = {}
        /\ \A r \in On(FlatLet[t]) \cap Working("activate") : ~Meets(r, t)
    BY DEF PeriodFree
  <2>2. s \in On(FlatLet[t])
    BY <1>1 DEF On
  <2>3. ~Meets(s, t)
    BY <1>1, <2>1, <2>2, WorkingMeans DEF Taken, InHand, Blockers
  <2> QED BY <2>3 DEF Meets
<1>2. FlatsApart'
  BY <1>1 DEF EstateInv, FlatsApart, Meets, First, Final
<1>3. SalesApart'
  BY DEF EstateInv, SalesApart, TriggerTakes
<1> QED BY <1>2, <1>3 DEF EstateInv

\* What a paper, an exception or a day changes of a letting is not its status.
LEMMA PaperSteps ==
  ASSUME EstateInv,
         \/ \E t \in EstateLettings :
              \/ \E kind \in {"lease", "handover_protocol"} : BindsPaper(t, kind)
              \/ ConfirmsHandover(t)
              \/ \E rule \in ExceptedRules : RecordsException(t, rule)
         \/ OfficeDayPasses
  PROVE  EstateInv'
<1>1. /\ tenure' = tenure /\ lets' = lets /\ household' = household /\ atWork' = atWork
      /\ crossed' = crossed
  BY DEF BindsPaper, ConfirmsHandover, RecordsException, OfficeDayPasses, WorkRests
<1>2. EstateTypeOK'
  <2>1. DOMAIN bound' = EstateLettings
    BY DEF BindsPaper, ConfirmsHandover, RecordsException, OfficeDayPasses, EstateInv, EstateTypeOK
  <2>2. /\ dated' \subseteq EstateLettings
        /\ excepted' \subseteq EstateLettings \X ExceptedRules
    BY DEF BindsPaper, ConfirmsHandover, RecordsException, OfficeDayPasses, EstateInv, EstateTypeOK
  <2>3. officeDay' \in 1..LastOfficeDay
    BY EstateAssumption
    DEF BindsPaper, ConfirmsHandover, RecordsException, OfficeDayPasses, EstateInv, EstateTypeOK
  <2> QED BY <1>1, <2>1, <2>2, <2>3 DEF EstateInv, EstateTypeOK
<1>3. /\ \A s \in EstateLettings : (Taken(s)' <=> Taken(s)) /\ (Known(s)' <=> Known(s))
      /\ Working("sell")' = Working("sell")
  BY <1>1 DEF Taken, Known, Stands, InHand, Status, AtDesktop, Working
<1>4. Peopled'
  BY <1>1, <1>3 DEF EstateInv, Peopled
<1> QED BY <1>1, <1>2, <1>3, <1>4, NothingTaken

LEMMA WritesLettingStep ==
  ASSUME EstateInv, NEW t \in EstateLettings, NEW status \in Statuses \ {"none"},
         NEW roles \in SUBSET HeldRoles, roles # {}, NEW papers,
         WritesLetting(t, status, roles, papers)
  PROVE  EstateInv'
<1>2. /\ lets' = [lets EXCEPT ![t] = status] /\ tenure' = tenure /\ atWork' = atWork
      /\ UNCHANGED <<dated, excepted, officeDay>>
      /\ household' = [household EXCEPT ![t] = @ \cup roles]
      /\ bound' = [bound EXCEPT ![t] = @ \cup papers]
      /\ crossed' = (crossed \/ (status = "ACTIVE" /\ FlatLet[t] \in Working("sell")))
  BY DEF WritesLetting
<1>3. lets \in [EstateLettings -> Statuses]
  BY HandsAndRows DEF EstateInv
<1>4. /\ lets' \in [EstateLettings -> Statuses] /\ lets'[t] = status
      /\ \A s \in EstateLettings \ {t} : lets'[s] = lets[s]
  BY <1>2, <1>3
<1>5. /\ household' \in [EstateLettings -> SUBSET HeldRoles] /\ household'[t] # {}
      /\ \A s \in EstateLettings \ {t} : household'[s] = household[s]
  BY <1>2 DEF EstateInv, EstateTypeOK
<1>6. EstateTypeOK'
  BY <1>2, <1>4, <1>5 DEF EstateInv, EstateTypeOK, Statuses
<1>7. \A s \in EstateLettings :
        /\ Taken(s)' => Taken(s) \/ (s = t /\ status = "ACTIVE")
        /\ Known(s)' => Known(s) \/ s = t
  BY <1>2, <1>4 DEF Taken, Known, Stands, InHand, Status, AtDesktop
<1>8. Peopled'
  BY <1>5, <1>7 DEF EstateInv, Peopled
<1>9. Working("sell")' = Working("sell")
  BY <1>2 DEF Working, AtDesktop
<1>10. CASE status = "ACTIVE"
  <2>1. TriggerTakes(t, "ACTIVE") /\ PeriodFree(t, "ACTIVE")
    BY <1>10 DEF WritesLetting
  <2> QED BY <1>2, <1>6, <1>7, <1>8, <1>9, <1>10, <2>1, OneTaken
<1>11. CASE status # "ACTIVE"
  BY <1>2, <1>6, <1>7, <1>8, <1>9, <1>11, NothingTaken DEF EstateInv, EstateTypeOK
<1> QED BY <1>10, <1>11

\* What a desk that takes a look, or answers, leaves at the others.
LEMMA OneHandMoves ==
  ASSUME EstateInv, NEW h \in Desktops, NEW d \in Hand, atWork' = [atWork EXCEPT ![h] = d]
  PROVE  /\ atWork' \in [Desktops -> Hand] /\ atWork'[h] = d
         /\ \A g \in Desktops \ {h} : atWork'[g] = atWork[g]
BY HandsAndRows DEF EstateInv

LEMMA LooksToActivateStep ==
  ASSUME EstateInv, NEW h \in Desktops, NEW t \in EstateLettings, LooksToActivate(h, t)
  PROVE  EstateInv'
<1> DEFINE d == [does |-> "activate", on |-> t]
<1>1. /\ AtDesktop(h, "nothing") /\ atWork' = [atWork EXCEPT ![h] = d]
      /\ TriggerTakes(t, "ACTIVE") /\ PeriodFree(t, "ACTIVE")
      /\ crossed' = (crossed \/ FlatLet[t] \in Working("sell"))
      /\ UNCHANGED <<tenure, lets, household, bound, dated, excepted, officeDay>>
  BY DEF LooksToActivate, TakesLook
<1>2. d \in Hand /\ d.does = "activate" /\ d.on = t
  BY HandsAndRows
<1> HIDE DEF d
<1>3. /\ atWork' \in [Desktops -> Hand] /\ atWork'[h] = d
      /\ \A g \in Desktops \ {h} : atWork'[g] = atWork[g]
  BY <1>1, <1>2, OneHandMoves
<1>4. EstateTypeOK'
  BY <1>1, <1>3 DEF EstateInv, EstateTypeOK, Hand
<1>5. \A s \in EstateLettings : Taken(s)' => Taken(s) \/ s = t
  BY <1>1, <1>2, <1>3 DEF Taken, InHand, Status, AtDesktop
<1>7. Peopled'
  <2>1. Stands(t)
    BY DEF LooksToActivate, CanActivate, Stands
  <2>2. \A s \in EstateLettings : Known(s)' => Known(s) \/ s = t
    BY <1>1, <1>2, <1>3 DEF Known, Stands, InHand, Status, AtDesktop
  <2> QED BY <1>1, <2>1, <2>2 DEF EstateInv, Peopled, Known
<1>6. Working("sell")' = Working("sell")
  <2>1. \A g \in Desktops : AtDesktop(g, "sell")' <=> AtDesktop(g, "sell")
    BY <1>1, <1>2, <1>3 DEF AtDesktop
  <2>2. \A g \in Desktops : AtDesktop(g, "sell") => atWork'[g] = atWork[g]
    BY <1>1, <1>3 DEF AtDesktop
  <2> QED BY <2>1, <2>2 DEF Working
<1> QED BY <1>1, <1>4, <1>5, <1>6, <1>7, OneTaken

LEMMA ActivatesStep ==
  ASSUME EstateInv, NEW h \in Desktops, Activates(h)
  PROVE  EstateInv'
<1> DEFINE t == atWork[h].on
<1>1. /\ AtDesktop(h, "activate") /\ lets' = [lets EXCEPT ![t] = "ACTIVE"]
      /\ atWork' = [atWork EXCEPT ![h] = IdleDesktop] /\ crossed' = crossed
      /\ UNCHANGED <<tenure, household, bound, dated, excepted, officeDay>>
  BY DEF Activates, Answered
<1>2. t \in EstateLettings
  BY <1>1, HandsAndRows DEF EstateInv, AtDesktop
<1>3. lets \in [EstateLettings -> Statuses]
  BY HandsAndRows DEF EstateInv
<1>5. /\ lets' \in [EstateLettings -> Statuses] /\ lets'[t] = "ACTIVE"
      /\ \A s \in EstateLettings \ {t} : lets'[s] = lets[s]
  BY <1>1, <1>2, <1>3 DEF Statuses
<1>6. /\ atWork' \in [Desktops -> Hand] /\ atWork'[h] = IdleDesktop
      /\ \A g \in Desktops \ {h} : atWork'[g] = atWork[g]
  BY <1>1, HandsAndRows, OneHandMoves
<1>7. EstateTypeOK'
  BY <1>1, <1>5, <1>6 DEF EstateInv, EstateTypeOK, Hand, Statuses
<1>8. InHand(t)
  BY <1>1 DEF InHand
<1>9. \A s \in EstateLettings : (Taken(s)' => Taken(s)) /\ (Known(s)' => Known(s))
  BY <1>5, <1>6, <1>8 DEF Taken, Known, Stands, InHand, Status, AtDesktop, IdleDesktop
<1>11. Peopled'
  BY <1>1, <1>9 DEF EstateInv, Peopled
<1>10. Working("sell")' \subseteq Working("sell")
  BY <1>6 DEF Working, AtDesktop, IdleDesktop
<1> QED BY <1>1, <1>7, <1>9, <1>10, <1>11, NothingTaken

LEMMA SaleSteps ==
  ASSUME EstateInv, NEW h \in Desktops, NEW f \in EstateFlats, LooksToSell(h, f) \/ Sells(h)
  PROVE  EstateInv'
<1>1. CASE LooksToSell(h, f)
  <2> DEFINE d == [does |-> "sell", on |-> f]
  <2>1. /\ AtDesktop(h, "nothing") /\ atWork' = [atWork EXCEPT ![h] = d]
        /\ tenure[f] # "SOLD" /\ MayBeSold(f)
        /\ crossed' = (crossed \/ On(f) \cap Working("activate") # {})
        /\ UNCHANGED <<tenure, lets, household, bound, dated, excepted, officeDay>>
    BY <1>1 DEF LooksToSell, TakesLook
  <2>2. d \in Hand /\ d.does = "sell" /\ d.on = f
    BY HandsAndRows
  <2> HIDE DEF d
  <2>3. /\ atWork' \in [Desktops -> Hand] /\ atWork'[h] = d
        /\ \A g \in Desktops \ {h} : atWork'[g] = atWork[g]
    BY <2>1, <2>2, OneHandMoves
  <2>4. EstateTypeOK'
    BY <2>1, <2>3 DEF EstateInv, EstateTypeOK, Hand
  <2>5. \A s \in EstateLettings : (Taken(s)' => Taken(s)) /\ (Known(s)' => Known(s))
    BY <2>1, <2>2, <2>3 DEF Taken, Known, Stands, InHand, Status, AtDesktop
  <2>10. Peopled'
    BY <2>1, <2>5 DEF EstateInv, Peopled
  <2>6. Working("sell")' \subseteq Working("sell") \cup {f}
    BY <2>2, <2>3 DEF Working, AtDesktop
  <2>7. FlatsApart'
    BY <2>5 DEF EstateInv, FlatsApart, Meets, First, Final
  <2>8. ASSUME ~crossed', NEW s \in EstateLettings, Taken(s)
        PROVE  FlatLet[s] # f
    BY <2>1, <2>8, WorkingMeans DEF Taken, InHand, MayBeSold, On
  <2>9. SalesApart'
    BY <2>1, <2>5, <2>6, <2>8 DEF EstateInv, SalesApart
  <2> QED BY <2>4, <2>7, <2>9, <2>10 DEF EstateInv
<1>2. CASE Sells(h)
  <2>1. /\ AtDesktop(h, "sell") /\ tenure' = [tenure EXCEPT ![atWork[h].on] = "SOLD"]
        /\ atWork' = [atWork EXCEPT ![h] = IdleDesktop] /\ crossed' = crossed
        /\ UNCHANGED <<lets, household, bound, dated, excepted, officeDay>>
    BY <1>2 DEF Sells, Answered
  <2>2. /\ atWork' \in [Desktops -> Hand] /\ atWork'[h] = IdleDesktop
        /\ \A g \in Desktops \ {h} : atWork'[g] = atWork[g]
    BY <2>1, HandsAndRows, OneHandMoves
  <2>3. EstateTypeOK'
    BY <2>1, <2>2 DEF EstateInv, EstateTypeOK, Hand
  <2>4. \A s \in EstateLettings : (Taken(s)' => Taken(s)) /\ (Known(s)' => Known(s))
    BY <2>1, <2>2 DEF Taken, Known, Stands, InHand, Status, AtDesktop, IdleDesktop
  <2>7. Peopled'
    BY <2>1, <2>4 DEF EstateInv, Peopled
  <2>5. Working("sell")' \subseteq Working("sell")
    BY <2>2 DEF Working, AtDesktop, IdleDesktop
  <2>6. \A e \in EstateFlats :
          tenure'[e] = "SOLD" => tenure[e] = "SOLD" \/ e \in Working("sell")
    BY <2>1, WorkingMeans DEF EstateInv, EstateTypeOK
  <2> QED BY <2>1, <2>3, <2>4, <2>5, <2>6, <2>7, NothingTaken
<1> QED BY <1>1, <1>2

LEMMA OfficeSteps ==
  ASSUME EstateInv,
         \/ \E f \in EstateFlats, to \in Designations : Redesignates(f, to)
         \/ \E t \in EstateLettings, moveOut \in 1..LastOfficeDay, notice \in NoticeDays,
               letter \in BOOLEAN : EndsEarly(t, moveOut, notice, letter)
         \/ OpensUnitPage
  PROVE  EstateInv'
<1>1. atWork' = atWork /\ crossed' = crossed /\ UNCHANGED <<household, dated, excepted, officeDay>>
  BY DEF Redesignates, EndsEarly, OpensUnitPage, WorkRests
<1>2. lets \in [EstateLettings -> Statuses]
  BY HandsAndRows DEF EstateInv
<1>3. /\ lets' \in [EstateLettings -> Statuses]
      /\ \A s \in EstateLettings : /\ lets'[s] = "ACTIVE" => lets[s] = "ACTIVE"
                                   /\ lets'[s] # "none" => lets[s] # "none"
  BY <1>2 DEF Redesignates, EndsEarly, OpensUnitPage, Stands, Status, Statuses
<1>4. /\ tenure' \in [EstateFlats -> Designations \cup {"SOLD"}]
      /\ \A f \in EstateFlats : tenure'[f] = "SOLD" => tenure[f] = "SOLD"
  BY EstateAssumption DEF Redesignates, EndsEarly, OpensUnitPage, EstateInv, EstateTypeOK
<1>5. DOMAIN bound' = EstateLettings
  BY DEF Redesignates, EndsEarly, OpensUnitPage, EstateInv, EstateTypeOK
<1>6. EstateTypeOK'
  BY <1>1, <1>3, <1>4, <1>5 DEF EstateInv, EstateTypeOK, Statuses
<1>7. /\ \A s \in EstateLettings : (Taken(s)' => Taken(s)) /\ (Known(s)' => Known(s))
      /\ Working("sell")' = Working("sell")
  BY <1>1, <1>3 DEF Taken, Known, Stands, InHand, Status, AtDesktop, Working
<1>8. Peopled'
  BY <1>1, <1>7 DEF EstateInv, Peopled
<1> QED BY <1>1, <1>4, <1>6, <1>7, <1>8, NothingTaken

LEMMA NextEstate == EstateInv /\ [EstateNext]_estateVars => EstateInv'
<1> SUFFICES ASSUME EstateInv, [EstateNext]_estateVars PROVE EstateInv'
  OBVIOUS
<1>1. ASSUME NEW t \in EstateLettings, NEW roles \in SUBSET HeldRoles, OpensLeaseDraft(t, roles)
      PROVE  EstateInv'
  <2>1. "DRAFT" \in Statuses \ {"none"} /\ roles # {}
    BY <1>1 DEF OpensLeaseDraft, Statuses
  <2> QED BY <1>1, <2>1, WritesLettingStep DEF OpensLeaseDraft
<1>2. ASSUME NEW t \in EstateLettings, NEW role \in HeldRoles,
             NEW status \in {"DRAFT", "ACTIVE", "ENDED", "TERMINATED_EARLY"},
             ImportsLetting(t, status, role)
      PROVE  EstateInv'
  <2>1. status \in Statuses \ {"none"} /\ {role} \in SUBSET HeldRoles /\ {role} # {}
    BY DEF Statuses
  <2> QED BY <1>2, <2>1, WritesLettingStep DEF ImportsLetting
<1>3. ASSUME NEW t \in EstateLettings,
             \/ \E kind \in {"lease", "handover_protocol"} : BindsPaper(t, kind)
             \/ ConfirmsHandover(t)
             \/ \E rule \in ExceptedRules : RecordsException(t, rule)
      PROVE  EstateInv'
  BY <1>3, PaperSteps
<1>4. CASE OfficeDayPasses
  BY <1>4, PaperSteps
<1>5. ASSUME NEW h \in Desktops, NEW t \in EstateLettings, LooksToActivate(h, t)
      PROVE  EstateInv'
  BY <1>5, LooksToActivateStep
<1>6. ASSUME NEW h \in Desktops, NEW f \in EstateFlats, LooksToSell(h, f)
      PROVE  EstateInv'
  BY <1>6, SaleSteps
<1>7. ASSUME NEW h \in Desktops, Activates(h)
      PROVE  EstateInv'
  BY <1>7, ActivatesStep
<1>8. ASSUME NEW h \in Desktops, Sells(h)
      PROVE  EstateInv'
  <2>1. atWork[h].on \in EstateFlats
    BY <1>8, HandsAndRows DEF Sells, EstateInv, AtDesktop
  <2> QED BY <1>8, <2>1, SaleSteps
<1>9. CASE UNCHANGED estateVars
  BY <1>9 DEF estateVars, EstateInv, EstateTypeOK, FlatsApart, SalesApart, Peopled, Taken, Known,
              Stands, InHand, Status, AtDesktop, Working, Meets, First, Final
<1> QED BY <1>1, <1>2, <1>3, <1>4, <1>5, <1>6, <1>7, <1>8, <1>9, OfficeSteps DEF EstateNext

-----------------------------------------------------------------------------
(* The screens, in any state the invariant describes.                      *)
LEMMA StatusesOf ==
  ASSUME EstateTypeOK, NEW t \in EstateLettings
  PROVE  Status(t) \in Statuses
BY DEF EstateTypeOK, Status, Statuses

LEMMA GateOf ==
  ASSUME NEW t
  PROVE  /\ Misses(t) \subseteq GateRules
         /\ "lease" \notin Misses(t) => bound[t] # {}
         /\ "start_reached" \in Misses(t) <=> ~(officeDay >= First(t))
         /\ "within_term" \in Misses(t) <=> ~(officeDay <= Final(t))
         /\ "unit_free" \in Misses(t) <=> Blockers(t) # {}
<1>1. \A rule \in GateRules : rule \in Misses(t) <=> ~Passes(t, rule)
  BY DEF Misses
<1>2. /\ Passes(t, "lease") = HeldApproved(t, "lease")
      /\ Passes(t, "start_reached") = (officeDay >= First(t))
      /\ Passes(t, "within_term") = (officeDay <= Final(t))
      /\ Passes(t, "unit_free") = (Blockers(t) = {})
  BY DEF Passes
<1>3. "lease" \in GateRules /\ "start_reached" \in GateRules /\ "within_term" \in GateRules
      /\ "unit_free" \in GateRules
  BY DEF GateRules
<1> QED BY <1>1, <1>2, <1>3 DEF Misses, HeldApproved

\* The label of a draft, and its one section of the book.
LEMMA ChipOf ==
  ASSUME EstateTypeOK, NEW t \in EstateLettings, Stands(t)
  PROVE  /\ BookSection(BookChip(t)) = "ready" <=> CanActivate(t)
         /\ BookSection(BookChip(t)) = "waiting" <=>
              Status(t) = "DRAFT" /\ Misses(t) = {"start_reached"}
<1>1. Status(t) \in Statuses \ {"none"}
  BY StatusesOf DEF Stands
<1>2. CASE Status(t) = "DRAFT"
  <2>1. BookChip(t) = DraftLabel(t)
    BY <1>2 DEF BookChip
  <2>2. /\ DraftLabel(t) \in {"ready", "waiting", "draft"}
        /\ DraftLabel(t) = "ready" <=> CanActivate(t)
        /\ DraftLabel(t) = "waiting" <=> Misses(t) = {"start_reached"}
    BY <1>2 DEF DraftLabel, CanActivate
  <2> HIDE DEF DraftLabel
  <2> QED BY <1>2, <2>1, <2>2 DEF BookSection
<1>3. CASE Status(t) = "ACTIVE"
  BY <1>3 DEF BookChip, BookSection, CanActivate
<1>4. CASE Status(t) \in {"ENDED", "TERMINATED_EARLY"}
  BY <1>4 DEF BookChip, BookSection, CanActivate
<1> QED BY <1>1, <1>2, <1>3, <1>4 DEF Statuses

LEMMA BookHolds ==
  ASSUME EstateTypeOK
  PROVE  QueueIsBook
<1>1. \A t \in EstateLettings : CanActivate(t) => Stands(t) /\ bound[t] # {}
  BY GateOf DEF CanActivate, Stands
<1>2. QueueReady = Book("ready")
  BY <1>1, ChipOf DEF QueueReady, Book
<1>3. \A t \in EstateLettings :
        /\ t \in Book("waiting") <=> Status(t) = "DRAFT" /\ Misses(t) = {"start_reached"}
        /\ Misses(t) = {"start_reached"} => bound[t] # {} /\ ~CanActivate(t)
        /\ ActivatableOn(t) # 0 <=> Status(t) = "DRAFT" /\ Misses(t) = {"start_reached"}
        /\ ActivatableOn(t) # 0 => ActivatableOn(t) = First(t)
  <2> TAKE t \in EstateLettings
  <2>1. t \in Book("waiting") <=> Status(t) = "DRAFT" /\ Misses(t) = {"start_reached"}
    BY ChipOf DEF Book, Stands
  <2>2. Misses(t) = {"start_reached"} => bound[t] # {} /\ ~CanActivate(t)
    BY GateOf DEF CanActivate
  <2> QED BY <2>1, <2>2, Terms DEF ActivatableOn
<1>4. QueueSoon = {t \in Book("waiting") : First(t) <= officeDay + QueueDays}
  <2>1. \A t : t \in QueueSoon <=> t \in EstateLettings /\ t \in Book("waiting")
                                  /\ First(t) <= officeDay + QueueDays
    BY <1>3 DEF QueueSoon
  <2> QED BY <2>1 DEF Book
<1> QED BY <1>2, <1>4 DEF QueueIsBook

\* A set any two of whose members are one has at most one.
LEMMA AtMostOne ==
  ASSUME NEW S, \A x, y \in S : x = y
  PROVE  Cardinality(S) <= 1
<1>1. CASE S = {}
  BY <1>1, FS_EmptySet
<1>2. CASE S # {}
  <2>1. PICK x \in S : TRUE
    BY <1>2
  <2>2. S = {x}
    BY <2>1
  <2> QED BY <2>2, FS_Singleton
<1> QED BY <1>1, <1>2

\* Of the drafts open on a flat one begins first.
LEMMA SomeDraftIsNext ==
  ASSUME NEW f, NEW t \in On(f), Status(t) = "DRAFT", Final(t) >= officeDay
  PROVE  NextDraft(f) # {}
<1> DEFINE open == {s \in On(f) : Status(s) = "DRAFT" /\ Final(s) >= officeDay}
           days == {First(s) : s \in open}
<1>1. days \subseteq Nat /\ days # {}
  <2>1. \A s \in open : First(s) \in Nat
    BY Terms DEF On
  <2> QED BY <2>1
<1>2. PICK day \in days : \A other \in days : <<other, day>> \notin OpToRel(<, Nat)
  <2> HIDE DEF days
  <2> QED BY <1>1, NatLessThanWellFounded, WFMin
<1>3. \A other \in days : day <= other
  <2> HIDE DEF days
  <2>1. ASSUME NEW other \in days PROVE day <= other
    <3>1. ~(other < day)
      BY <1>1, <1>2 DEF OpToRel
    <3> QED BY <1>1, <3>1
  <2> QED BY <2>1
<1>4. PICK s \in open : First(s) = day
  BY <1>2
<1>5. s \in NextDraft(f)
  BY <1>3, <1>4 DEF NextDraft
<1> QED BY <1>5

LEMMA TilesFollow ==
  ASSUME EstateInv
  PROVE  QueueIsDrawn
<1> SUFFICES ASSUME NEW f \in EstateFlats
             PROVE  /\ \A t \in EstateLettings :
                         <<t, "ready">> \in TileLines(f) => t \in QueueReady
                    /\ tenure[f] # "SOLD" /\ On(f) \cap QueueReady # {} =>
                         \E line \in TileLines(f) : line[2] # "active"
  BY DEF QueueIsDrawn
<1>1. ASSUME NEW t \in EstateLettings, <<t, "ready">> \in TileLines(f)
      PROVE  t \in QueueReady
  <2>1. t \in NextDraft(f) /\ DraftLabel(t) = "ready"
    BY <1>1 DEF TileLines
  <2>2. CanActivate(t)
    BY <2>1 DEF DraftLabel
  <2> QED BY <2>2, GateOf DEF QueueReady, CanActivate
<1>2. ASSUME tenure[f] # "SOLD", NEW t \in On(f), t \in QueueReady
      PROVE  \E line \in TileLines(f) : line[2] # "active"
  <2>1. Status(t) = "DRAFT" /\ Final(t) >= officeDay
    <3>1. t \in EstateLettings /\ Final(t) \in Nat /\ officeDay \in Nat
      BY Terms, EstateAssumption DEF On, EstateInv, EstateTypeOK
    <3> QED BY <1>2, <3>1, GateOf DEF QueueReady, CanActivate
  <2>2. PICK s \in NextDraft(f) : TRUE
    BY <2>1, SomeDraftIsNext
  <2>3. <<s, DraftLabel(s)>> \in TileLines(f)
    BY <1>2 DEF TileLines
  <2>4. DraftLabel(s) # "active"
    BY DEF DraftLabel
  <2> QED BY <2>3, <2>4
<1> QED BY <1>1, <1>2

LEMMA FlatsTell ==
  ASSUME EstateInv
  PROVE  RecordIsDrawn
<1> SUFFICES ASSUME NEW f \in EstateFlats
             PROVE  /\ Cardinality(RecordLetting(f)) <= 1
                    /\ OccupiedBy(f) = RecordLetting(f)
                    /\ tenure[f] # "SOLD" => (TileWord(f) = "let" <=> RecordLetting(f) # {})
  BY DEF RecordIsDrawn
<1>1. officeDay \in Nat
  BY EstateAssumption DEF EstateInv, EstateTypeOK
<1>2. \A s, t \in RecordLetting(f) : s = t
  <2> SUFFICES ASSUME NEW s \in RecordLetting(f), NEW t \in RecordLetting(f), s # t PROVE FALSE
    OBVIOUS
  <2>1. /\ s \in EstateLettings /\ t \in EstateLettings /\ FlatLet[s] = f /\ FlatLet[t] = f
        /\ Taken(s) /\ Taken(t)
        /\ First(s) <= officeDay /\ officeDay <= Final(s)
        /\ First(t) <= officeDay /\ officeDay <= Final(t)
    BY DEF RecordLetting, ActiveTenancyOf, CountsToday, On, Taken
  <2>2. ~Meets(s, t)
    BY <2>1 DEF EstateInv, FlatsApart
  <2> QED BY <1>1, <2>1, <2>2, Terms DEF Meets
<1>3. Cardinality(RecordLetting(f)) <= 1
  BY <1>2, AtMostOne
<1>4. OccupiedBy(f) = RecordLetting(f)
  <2>1. \A t \in ActiveTenancyOf(f) : household[t] # {}
    BY DEF ActiveTenancyOf, CountsToday, On, EstateInv, Peopled, Known, Stands
  <2> QED BY <2>1 DEF RecordLetting, OccupiedBy
<1>5. tenure[f] # "SOLD" => (TileWord(f) = "let" <=> RecordLetting(f) # {})
  BY <1>4 DEF TileWord
<1> QED BY <1>3, <1>4, <1>5

LEMMA DisjointSum ==
  ASSUME NEW S, NEW T, IsFiniteSet(S), IsFiniteSet(T), S \cap T = {}
  PROVE  /\ IsFiniteSet(S \cup T)
         /\ Cardinality(S \cup T) = Cardinality(S) + Cardinality(T)
<1>1. Cardinality(S \cap T) = 0
  BY FS_EmptySet
<1>2. /\ IsFiniteSet(S \cup T)
      /\ Cardinality(S \cup T) = Cardinality(S) + Cardinality(T) - Cardinality(S \cap T)
  BY FS_Union
<1>3. Cardinality(S) \in Nat /\ Cardinality(T) \in Nat
  BY FS_CardinalityType
<1> QED BY <1>1, <1>2, <1>3

LEMMA CountsFollow ==
  ASSUME EstateInv, ~crossed
  PROVE  CountsAreTiles
<1> DEFINE Vacants == {f \in EstateFlats : tenure[f] # "SOLD" /\ f \notin LetFlats}
           Solds == {f \in EstateFlats : tenure[f] = "SOLD"}
<1>1. \A f \in EstateFlats : tenure[f] = "SOLD" => OccupiedBy(f) = {}
  BY DEF EstateInv, SalesApart, OccupiedBy, ActiveTenancyOf, CountsToday, On, Taken
<1>2. /\ LetFlats \subseteq EstateFlats
      /\ LetFlats \cap Solds = {}
  BY <1>1 DEF LetFlats
<1>3. \A f \in EstateFlats :
        /\ TileWord(f) = "let" <=> f \in LetFlats
        /\ TileWord(f) = "sold" <=> tenure[f] = "SOLD"
  BY <1>1 DEF TileWord, LetFlats
<1>4. Tiled("let") = Cardinality(LetFlats) /\ Tiled("sold") = Cardinality(Solds)
  <2>1. {f \in EstateFlats : TileWord(f) = "let"} = LetFlats
    BY <1>2, <1>3
  <2>2. {f \in EstateFlats : TileWord(f) = "sold"} = Solds
    BY <1>3
  <2> QED BY <2>1, <2>2 DEF Tiled
<1>5. Cardinality(LetFlats) + Cardinality(Vacants) + Cardinality(Solds) = Cardinality(EstateFlats)
  <2>1. /\ IsFiniteSet(LetFlats) /\ IsFiniteSet(Vacants) /\ IsFiniteSet(Solds)
    BY <1>2, EstateAssumption, FS_Subset
  <2>2. LetFlats \cap Vacants = {} /\ (LetFlats \cup Vacants) \cap Solds = {}
        /\ (LetFlats \cup Vacants) \cup Solds = EstateFlats
    BY <1>2
  <2> HIDE DEF Vacants, Solds
  <2>3. /\ IsFiniteSet(LetFlats \cup Vacants)
        /\ Cardinality(LetFlats \cup Vacants) = Cardinality(LetFlats) + Cardinality(Vacants)
    BY <2>1, <2>2, DisjointSum
  <2>4. Cardinality((LetFlats \cup Vacants) \cup Solds)
          = Cardinality(LetFlats \cup Vacants) + Cardinality(Solds)
    BY <2>1, <2>2, <2>3, DisjointSum
  <2> QED BY <2>2, <2>3, <2>4
<1>6. /\ {f \in EstateFlats : Vacant(f)} = Vacants
      /\ {f \in EstateFlats \ LetFlats : tenure[f] # "SOLD"} = Vacants
  BY DEF Vacant
<1>7. \A page \in {KindDrill, InventoryPage, InventoryBuildingPage} :
        page.let = Cardinality(LetFlats) /\ page.vacant = Cardinality(Vacants)
  BY <1>6 DEF KindDrill, InventoryPage, InventoryBuildingPage
<1>8. BuildingsPage.let = Cardinality(LetFlats)
  BY DEF BuildingsPage
<1> HIDE DEF Vacants, Solds
<1> QED BY <1>4, <1>5, <1>7, <1>8 DEF CountsAreTiles

LEMMA DraftsHaveAWay ==
  ASSUME EstateInv
  PROVE  DraftHasAWay
<1> SUFFICES ASSUME NEW t \in EstateLettings, Status(t) = "DRAFT", officeDay <= Final(t)
             PROVE  /\ "handover_protocol" \in Misses(t) =>
                         {"waiver", "protocol"} \subseteq LettingForms(t)
                    /\ \A s \in Blockers(t) :
                         /\ "end" \in LettingForms(s)
                         /\ First(s) <= officeDay => MoveOutDays(s) # {}
                    /\ SaysNothingMissing(t) =>
                         CanActivate(t) \/ SaysOnlyTheDate(t) \/ Blockers(t) # {}
                    /\ Misses(t) # {} => SaysStillMissing(t) = Misses(t) \/ SaysOnlyTheDate(t)
  BY DEF DraftHasAWay
<1>1. officeDay \in Nat /\ officeDay <= LastOfficeDay /\ LastOfficeDay \in Nat
  BY EstateAssumption DEF EstateInv, EstateTypeOK
<1>2. "handover_protocol" \in Misses(t) => {"waiver", "protocol"} \subseteq LettingForms(t)
  BY DEF LettingForms, HandoverForms
<1>3. ASSUME NEW s \in Blockers(t)
      PROVE  /\ "end" \in LettingForms(s)
             /\ First(s) <= officeDay => MoveOutDays(s) # {}
  <2>1. s \in EstateLettings /\ Status(s) = "ACTIVE"
    BY <1>3 DEF Blockers, On
  <2>2. "end" \in LettingForms(s)
    BY <2>1 DEF LettingForms, EndForms
  <2>3. First(s) <= officeDay => First(s) \in MoveOutDays(s)
    BY <1>1, <2>1, Terms DEF MoveOutDays
  <2> QED BY <2>2, <2>3
<1>4. Misses(t) \subseteq GateRules /\ "within_term" \notin Misses(t)
      /\ ("unit_free" \in Misses(t) <=> Blockers(t) # {})
  BY GateOf
<1>5. First(t) # 0
  BY Terms
<1>6. SaysNothingMissing(t) => CanActivate(t) \/ SaysOnlyTheDate(t) \/ Blockers(t) # {}
  <2> SUFFICES ASSUME SaysNothingMissing(t), Blockers(t) = {}
               PROVE  CanActivate(t) \/ SaysOnlyTheDate(t)
    OBVIOUS
  <2>1. Misses(t) \subseteq {"start_reached"}
    BY <1>4 DEF SaysNothingMissing, GateRules
  <2>2. CASE Misses(t) = {}
    BY <2>2 DEF CanActivate
  <2>3. CASE Misses(t) = {"start_reached"}
    BY <1>5, <2>3 DEF SaysOnlyTheDate, ActivatableOn
  <2> QED BY <2>1, <2>2, <2>3
<1>7. Misses(t) # {} => SaysStillMissing(t) = Misses(t) \/ SaysOnlyTheDate(t)
  <2> SUFFICES ASSUME Misses(t) # {} PROVE SaysStillMissing(t) = Misses(t) \/ SaysOnlyTheDate(t)
    OBVIOUS
  <2>1. CASE ActivatableOn(t) = 0
    BY <2>1 DEF SaysStillMissing, CanActivate
  <2>2. CASE ActivatableOn(t) # 0
    BY <2>2 DEF SaysOnlyTheDate, SaysNothingMissing, ActivatableOn
  <2> QED BY <2>1, <2>2
<1> QED BY <1>2, <1>3, <1>6, <1>7

(* The tenure of a flat, the status of a letting and what the requests in  *)
(* hand looked at keep their types.                                        *)
THEOREM EstateTypeCorrect == EstateInit /\ [][EstateNext]_estateVars => []EstateTypeOK
<1>1. EstateInv => EstateTypeOK
  BY DEF EstateInv
<1> QED BY <1>1, InitEstate, NextEstate, PTL

(* As long as no sale overlapped an activation of the flat, no active      *)
(* letting is on a sold flat.                                              *)
THEOREM SoldFlatsAreNotLet == EstateInit /\ [][EstateNext]_estateVars => []SoldFlatIsNotLet
<1>1. EstateInv => SoldFlatIsNotLet
  BY DEF EstateInv, SalesApart, SoldFlatIsNotLet, Taken, On
<1> QED BY <1>1, InitEstate, NextEstate, PTL

(* For any flats, lettings and requests the office's screens tell one      *)
(* story of a letting, and no draft whose term has not passed is stuck.    *)
THEOREM EstateAlwaysAgrees == EstateInit /\ [][EstateNext]_estateVars => []EstateAgrees
<1>1. EstateInv => EstateAgrees
  BY BookHolds, TilesFollow, FlatsTell, CountsFollow, DraftsHaveAWay DEF EstateInv, EstateAgrees
<1> QED BY <1>1, InitEstate, NextEstate, PTL

=============================================================================
