------------------------------ MODULE EstateDesk ------------------------------
(***************************************************************************)
(* What the office sees of its flats and their lettings: the book, the     *)
(* tiles and their counts, the queue of activations, the page of one       *)
(* letting and the record the office turn reads                            *)
(* (tenancy/internal: lettings.ts, completeness.ts, activation.ts;         *)
(* estate/internal: unit-occupancy.ts, read-model.ts, record.ts, views.ts, *)
(* routes.ts), while drafts open, activate, end and expire, and flats are  *)
(* sold under them (facts.ts; the triggers of 0064_unit_tenure.sql).       *)
(*                                                                         *)
(* Every screen is derived on the load, each by a query of its own.  The   *)
(* gate and the statement of an activation are one step here, its commit   *)
(* is another (Letting has them all); a sale looks and writes in one       *)
(* transaction.  The two triggers read what is committed and share no lock.*)
(*                                                                         *)
(* A post is taken whether or not the page that offers it is still true.   *)
(*                                                                         *)
(* Abstracted: names, addresses, orders and the dates a screen only        *)
(* prints; a letting's flat and term are given, and a file of the register *)
(* is one of its rows; bays are in Spaces, purges in Purge.                *)
(***************************************************************************)
EXTENDS Naturals, FiniteSets

CONSTANTS
  EstateFlats,
  EstateLettings,
  FlatLet,        \* the flat of each letting
  TermLet,        \* its first and last day
  Designations,   \* FOR_RENT, FOR_SALE or both
  Desktops,       \* requests under way at once
  QueueDays,      \* ACTIVATION_QUEUE_DAYS
  HeldRoles,      \* bound: tenancy_party.role, the tenant and the guarantor
  ExceptedRules,  \* bound: the rules an exception is recorded of
  NoticeDays,     \* bound: the day notice was given, or 0
  LastOfficeDay,  \* bound: the calendar
  NoTask           \* an idle request

\* A letting is named by its flat and its first day, and ends no sooner.
ASSUME EstateAssumption ==
  /\ FlatLet \in [EstateLettings -> EstateFlats]
  /\ TermLet \in [EstateLettings -> (Nat \ {0}) \X Nat]
  /\ \A t \in EstateLettings : TermLet[t][1] <= TermLet[t][2]
  /\ \A s, t \in EstateLettings :
       s # t /\ FlatLet[s] = FlatLet[t] => TermLet[s][1] # TermLet[t][1]
  /\ "SOLD" \notin Designations
  /\ "PRIMARY_TENANT" \in HeldRoles
  /\ QueueDays \in Nat /\ LastOfficeDay \in Nat \ {0}
  /\ IsFiniteSet(EstateFlats)

VARIABLES
  tenure,      \* unit.tenure
  lets,        \* tenancy.status, or "none"
  household,   \* tenancy_party: the roles somebody holds
  bound,       \* document_link to the letting, by type
  dated,       \* lettings whose handover date was confirmed
  excepted,    \* tenancy_completeness_exception, by letting and rule
  officeDay,
  atWork,      \* requests between their look and their commit
  crossed      \* history: a sale and an activation of one flat overlapped

estateVars ==
  <<tenure, lets, household, bound, dated, excepted, officeDay, atWork, crossed>>

First(t) == TermLet[t][1]
Final(t) == TermLet[t][2]
On(f) == {t \in EstateLettings : FlatLet[t] = f}
Status(t) == lets[t]
Stands(t) == Status(t) # "none"
IdleDesktop == [does |-> "nothing", on |-> NoTask]

EstateTypeOK ==
  /\ tenure \in [EstateFlats -> Designations \cup {"SOLD"}]
  /\ lets \in [EstateLettings -> {"none", "DRAFT", "ACTIVE", "ENDED", "TERMINATED_EARLY"}]
  /\ household \in [EstateLettings -> SUBSET HeldRoles]
  /\ DOMAIN bound = EstateLettings
  /\ dated \subseteq EstateLettings
  /\ excepted \subseteq EstateLettings \X ExceptedRules
  /\ officeDay \in 1..LastOfficeDay
  /\ atWork \in [Desktops ->
       [does: {"nothing"}, on: {NoTask}] \cup [does: {"activate"}, on: EstateLettings]
         \cup [does: {"sell"}, on: EstateFlats]]
  /\ crossed \in BOOLEAN

EstateInit ==
  /\ tenure \in [EstateFlats -> Designations]
  /\ lets = [t \in EstateLettings |-> "none"]
  /\ household = [t \in EstateLettings |-> {}]
  /\ bound = [t \in EstateLettings |-> {}]
  /\ dated = {} /\ excepted = {}
  /\ officeDay = 1
  /\ atWork = [h \in Desktops |-> IdleDesktop] /\ crossed = FALSE

-----------------------------------------------------------------------------
\* activationGate.
GateRules == {"lease", "handover_protocol", "start_reached", "within_term", "unit_free"}
Meets(s, t) == First(s) <= Final(t) /\ First(t) <= Final(s)
Blockers(t) ==
  {s \in On(FlatLet[t]) \ {t} : Status(s) = "ACTIVE" /\ Meets(s, t)}
HeldApproved(t, kind) ==
  kind \in bound[t] /\ (kind = "handover_protocol" => t \in dated)
Passes(t, rule) ==
  CASE rule = "lease" -> HeldApproved(t, "lease")
    [] rule = "handover_protocol" ->
         HeldApproved(t, "handover_protocol") \/ <<t, "handover_protocol">> \in excepted
    [] rule = "start_reached" -> officeDay >= First(t)
    [] rule = "within_term" -> officeDay <= Final(t)
    [] rule = "unit_free" -> Blockers(t) = {}
Misses(t) == {rule \in GateRules : ~Passes(t, rule)}
CanActivate(t) == Status(t) = "DRAFT" /\ Misses(t) = {}
ActivatableOn(t) ==
  IF Status(t) = "DRAFT" /\ Misses(t) = {"start_reached"} THEN First(t) ELSE 0

\* draftLabel.  Mutant: any draft before its first day waits.
WaitsForStart(t) ==
  IF CanActivate(t) THEN "ready"
  ELSE IF "start_reached" \in Misses(t) THEN "waiting" ELSE "draft"
DraftLabel(t) ==
  IF CanActivate(t) THEN "ready"
  ELSE IF Misses(t) = {"start_reached"} THEN "waiting" ELSE "draft"

\* listTenancyBook: the section a letting is a row of, and its chip there.
BookChip(t) ==
  CASE Status(t) = "DRAFT" -> DraftLabel(t)
    [] Status(t) = "ACTIVE" -> "active"
    [] Status(t) = "TERMINATED_EARLY" -> "stopped"
    [] OTHER -> "ended"
BookSection(chip) == IF chip \in {"ended", "stopped"} THEN "past" ELSE chip
Book(section) ==
  {t \in EstateLettings : Stands(t) /\ BookSection(BookChip(t)) = section}

-----------------------------------------------------------------------------
\* The letting that counts today: scope's answer.  The occupancy view has it
\* once somebody is on it; resolveActiveTenancy reads the table.
CountsToday(t) ==
  Status(t) = "ACTIVE" /\ First(t) <= officeDay /\ officeDay <= Final(t)
ActiveTenancyOf(f) == {t \in On(f) : CountsToday(t)}
OccupiedBy(f) == {t \in ActiveTenancyOf(f) : household[t] # {}}

\* nextDraft: the first of the drafts whose term has not passed.
NextDraft(f) ==
  LET open == {t \in On(f) : Status(t) = "DRAFT" /\ Final(t) >= officeDay} IN
  {t \in open : \A s \in open : First(t) <= First(s)}

\* unitStates and spaceTile: the word of a tile, and its lines with their chips.
TileWord(f) ==
  IF tenure[f] = "SOLD" THEN "sold"
  ELSE IF OccupiedBy(f) # {} THEN "let" ELSE "vacant"
TileLines(f) ==
  IF tenure[f] = "SOLD" THEN {}
  ELSE {<<t, "active">> : t \in OccupiedBy(f)}
         \cup {<<t, DraftLabel(t)>> : t \in NextDraft(f)}

\* The pages of all buildings: their flats and the let ones; the tiles by kind.
LetFlats == {f \in EstateFlats : OccupiedBy(f) # {}}
BuildingsPage == [flats |-> Cardinality(EstateFlats), let |-> Cardinality(LetFlats)]
InventoryPage ==
  [flats |-> Cardinality(EstateFlats), let |-> Cardinality(LetFlats),
   vacant |-> Cardinality({f \in EstateFlats : tenure[f] # "SOLD" /\ f \notin LetFlats})]
\* A kind's tiles under one heading; a sold flat is neither let nor vacant.
Vacant(f) == tenure[f] # "SOLD" /\ f \notin LetFlats
KindDrill ==
  [let |-> Cardinality(LetFlats), vacant |-> Cardinality({f \in EstateFlats : Vacant(f)})]
\* The inventory's page of one building; here every flat is of one.
InventoryBuildingPage ==
  [let |-> Cardinality(LetFlats),
   vacant |-> Cardinality({f \in EstateFlats \ LetFlats : tenure[f] # "SOLD"})]
\* readUnitRecord.
RecordLetting(f) == ActiveTenancyOf(f)

-----------------------------------------------------------------------------
\* listActivationQueue, of the drafts that hold a paper.
QueueReady == {t \in EstateLettings : bound[t] # {} /\ CanActivate(t)}
QueueSoon ==
  {t \in EstateLettings :
     /\ bound[t] # {} /\ ~CanActivate(t)
     /\ ActivatableOn(t) # 0 /\ ActivatableOn(t) <= officeDay + QueueDays}

\* The controls of the page of one letting, for whoever may press them all.
HandoverForms(t) ==
  IF "handover_protocol" \notin Misses(t) THEN {}
  ELSE {"waiver"} \cup (IF Status(t) = "DRAFT" THEN {"protocol"} ELSE {})
EndForms(t) == IF Status(t) = "ACTIVE" THEN {"end"} ELSE {}
ActivateForms(t) == IF CanActivate(t) THEN {"activate"} ELSE {}
LettingForms(t) == ActivateForms(t) \cup EndForms(t) \cup HandoverForms(t)
\* The days the form of an early end is taken for.
MoveOutDays(t) ==
  {d \in 1..LastOfficeDay : First(t) <= d /\ d <= Final(t) /\ d <= officeDay}

\* checkWhy, missingItems and activateReasons: what the page says is left.
SaysNothingMissing(t) == Misses(t) \cap {"lease", "handover_protocol"} = {}
SaysOnlyTheDate(t) == SaysNothingMissing(t) /\ ActivatableOn(t) # 0
SaysStillMissing(t) ==
  IF CanActivate(t) \/ ActivatableOn(t) # 0 THEN {} ELSE Misses(t)

-----------------------------------------------------------------------------
AtDesktop(h, does) == atWork[h].does = does
Working(does) == {atWork[h].on : h \in {g \in Desktops : AtDesktop(g, does)}}
WorkRests == UNCHANGED <<atWork, crossed>>
TakesLook(h, does, on) ==
  /\ AtDesktop(h, "nothing")
  /\ atWork' = [atWork EXCEPT ![h] = [does |-> does, on |-> on]]
Answered(h) == atWork' = [atWork EXCEPT ![h] = IdleDesktop] /\ UNCHANGED crossed

\* tenancy_refuses_sold_flat, and one_active_tenancy_per_unit.
TriggerTakes(t, status) ==
  status \in {"DRAFT", "ACTIVE"} => tenure[FlatLet[t]] # "SOLD"
PeriodFree(t, status) ==
  status = "ACTIVE" =>
    /\ Blockers(t) = {}
    /\ \A s \in On(FlatLet[t]) \cap Working("activate") : ~Meets(s, t)

\* upsertTenancy, and upsertTenancyParty of those on it: the row of this flat
\* and first day takes the status, whatever it had, once no activation of it
\* is under way.
WritesLetting(t, status, roles, papers) ==
  /\ TriggerTakes(t, status) /\ PeriodFree(t, status) /\ t \notin Working("activate")
  /\ lets' = [lets EXCEPT ![t] = status]
  /\ household' = [household EXCEPT ![t] = @ \cup roles]
  /\ bound' = [bound EXCEPT ![t] = @ \cup papers]
  /\ crossed' = (crossed \/ (status = "ACTIVE" /\ FlatLet[t] \in Working("sell")))
  /\ UNCHANGED <<tenure, dated, excepted, officeDay, atWork>>

\* A lease opens a letting that is not there, with a tenant on it; a row of the
\* register writes one that is, too, with one person.
OpensLeaseDraft(t, roles) ==
  /\ ~Stands(t) /\ "PRIMARY_TENANT" \in roles
  /\ WritesLetting(t, "DRAFT", roles, {"lease"})
ImportsLetting(t, status, role) == WritesLetting(t, status, {role}, {})

\* A paper joins a letting; a protocol's date is confirmed, on a page of the
\* paper.
BindsPaper(t, kind) ==
  /\ Stands(t) /\ kind \notin bound[t]
  /\ bound' = [bound EXCEPT ![t] = @ \cup {kind}]
  /\ UNCHANGED <<tenure, lets, household, dated, excepted, officeDay>> /\ WorkRests
ConfirmsHandover(t) ==
  /\ "handover_protocol" \in bound[t]
  /\ dated' = dated \cup {t}
  /\ UNCHANGED <<tenure, lets, household, bound, excepted, officeDay>> /\ WorkRests

\* POST .../waiver and .../exception: the first one stays.
RecordsException(t, rule) ==
  /\ Stands(t)
  /\ excepted' = excepted \cup {<<t, rule>>}
  /\ UNCHANGED <<tenure, lets, household, bound, dated, officeDay>> /\ WorkRests

\* activateTenancy: the gate and the UPDATE, which waits for another one on
\* the flat; then its commit.
LooksToActivate(h, t) ==
  /\ CanActivate(t)
  /\ TriggerTakes(t, "ACTIVE") /\ PeriodFree(t, "ACTIVE")
  /\ TakesLook(h, "activate", t)
  /\ crossed' = (crossed \/ FlatLet[t] \in Working("sell"))
  /\ UNCHANGED <<tenure, lets, household, bound, dated, excepted, officeDay>>
Activates(h) ==
  LET t == atWork[h].on IN
  /\ AtDesktop(h, "activate")
  /\ lets' = [lets EXCEPT ![t] = "ACTIVE"]
  /\ Answered(h)
  /\ UNCHANGED <<tenure, household, bound, dated, excepted, officeDay>>

\* changeUnitTenure: between the letting and selling it is free; a sale is
\* confirmed, locks the flat, and looks for an active letting.
Redesignates(f, to) ==
  /\ tenure[f] # "SOLD" /\ f \notin Working("sell")
  /\ tenure' = [tenure EXCEPT ![f] = to]
  /\ UNCHANGED <<lets, household, bound, dated, excepted, officeDay>> /\ WorkRests
\* Mutant: a sale that asks for a letting somebody lives in today.
SoldIfUnoccupied(f) == OccupiedBy(f) = {}
MayBeSold(f) == \A t \in On(f) : Status(t) # "ACTIVE"
LooksToSell(h, f) ==
  /\ tenure[f] # "SOLD" /\ f \notin Working("sell")
  /\ MayBeSold(f)
  /\ TakesLook(h, "sell", f)
  /\ crossed' = (crossed \/ On(f) \cap Working("activate") # {})
  /\ UNCHANGED <<tenure, lets, household, bound, dated, excepted, officeDay>>
Sells(h) ==
  /\ AtDesktop(h, "sell")
  /\ tenure' = [tenure EXCEPT ![atWork[h].on] = "SOLD"]
  /\ Answered(h)
  /\ UNCHANGED <<lets, household, bound, dated, excepted, officeDay>>

\* POST .../end: the letter is filed on the letting before the end is asked,
\* and stays if the end is refused.  Notice on day 0 was not given.
EndsEarly(t, moveOut, notice, letter) ==
  /\ Stands(t)
  /\ bound' = IF letter THEN [bound EXCEPT ![t] = @ \cup {"termination_notice"}] ELSE bound
  /\ lets' = IF Status(t) = "ACTIVE" /\ moveOut \in MoveOutDays(t) /\ notice <= moveOut
             THEN [lets EXCEPT ![t] = "TERMINATED_EARLY"]
             ELSE lets
  /\ UNCHANGED <<tenure, household, dated, excepted, officeDay>> /\ WorkRests

\* GET /estate/units/:unitId ends what is past its term.
OpensUnitPage ==
  /\ lets' = [t \in EstateLettings |->
       IF Status(t) = "ACTIVE" /\ Final(t) < officeDay
       THEN "ENDED" ELSE lets[t]]
  /\ UNCHANGED <<tenure, household, bound, dated, excepted, officeDay>> /\ WorkRests

OfficeDayPasses ==
  /\ officeDay < LastOfficeDay /\ officeDay' = officeDay + 1
  /\ UNCHANGED <<tenure, lets, household, bound, dated, excepted>> /\ WorkRests

EstateNext ==
  \/ \E t \in EstateLettings :
       \/ \E roles \in SUBSET HeldRoles : OpensLeaseDraft(t, roles)
       \/ \E status \in {"DRAFT", "ACTIVE", "ENDED", "TERMINATED_EARLY"},
            role \in HeldRoles : ImportsLetting(t, status, role)
       \/ \E kind \in {"lease", "handover_protocol"} : BindsPaper(t, kind)
       \/ ConfirmsHandover(t)
       \/ \E rule \in ExceptedRules : RecordsException(t, rule)
       \/ \E moveOut \in 1..LastOfficeDay, notice \in NoticeDays, letter \in BOOLEAN :
            EndsEarly(t, moveOut, notice, letter)
  \/ \E f \in EstateFlats, to \in Designations : Redesignates(f, to)
  \/ \E h \in Desktops :
       \/ \E t \in EstateLettings : LooksToActivate(h, t)
       \/ \E f \in EstateFlats : LooksToSell(h, f)
       \/ Activates(h) \/ Sells(h)
  \/ OpensUnitPage \/ OfficeDayPasses

-----------------------------------------------------------------------------
\* The numbers of the pages are those of the tiles.  A page that counts let
\* flats asks who is on a letting and not for the tenure; the tile of a sold
\* flat is neither let nor vacant; and on each page of the inventory the flats
\* let, vacant and sold are all there are.
Tiled(word) == Cardinality({f \in EstateFlats : TileWord(f) = word})
CountsAreTiles ==
  /\ BuildingsPage.let = Tiled("let")
  /\ \A page \in {KindDrill, InventoryPage, InventoryBuildingPage} :
       /\ page.let = Tiled("let")
       /\ page.let + page.vacant + Tiled("sold") = Cardinality(EstateFlats)

\* The queue asks for a paper and classifies by the gate, the book asks for
\* neither and labels: still the queue's ready are the book's, and what arms
\* soon is the book's waiting that begin within the window.
QueueIsBook ==
  /\ QueueReady = Book("ready")
  /\ QueueSoon = {t \in Book("waiting") : First(t) <= officeDay + QueueDays}

\* The tile of a flat draws one draft only, the first whose term has not
\* passed: what it draws ready the queue offers, and a flat to let with a draft
\* the queue offers has a draft drawn.
QueueIsDrawn ==
  \A f \in EstateFlats :
    /\ \A t \in EstateLettings : <<t, "ready">> \in TileLines(f) => t \in QueueReady
    /\ tenure[f] # "SOLD" /\ On(f) \cap QueueReady # {} =>
         \E line \in TileLines(f) : line[2] # "active"

\* The record of a flat names at most one letting, and of exactly the flats that
\* are drawn let, though it reads the lettings and the tile those on them.
RecordIsDrawn ==
  \A f \in EstateFlats :
    /\ Cardinality(RecordLetting(f)) <= 1
    /\ OccupiedBy(f) = RecordLetting(f)
    /\ tenure[f] # "SOLD" => (TileWord(f) = "let" <=> RecordLetting(f) # {})

\* A draft on a flat still to let, whose term has not passed, is nowhere stuck:
\* what it misses has a control on its own page, or an end form on the page of
\* the letting in its way, which takes a day once that one has begun; and its
\* page calls it complete only if the clock or another letting holds it.
DraftHasAWay ==
  \A t \in EstateLettings :
    Status(t) = "DRAFT" /\ officeDay <= Final(t) =>
      /\ "handover_protocol" \in Misses(t) => {"waiver", "protocol"} \subseteq LettingForms(t)
      /\ \A s \in Blockers(t) :
           /\ "end" \in LettingForms(s)
           /\ First(s) <= officeDay => MoveOutDays(s) # {}
      /\ SaysNothingMissing(t) =>
           CanActivate(t) \/ SaysOnlyTheDate(t) \/ Blockers(t) # {}
      /\ Misses(t) # {} => SaysStillMissing(t) = Misses(t) \/ SaysOnlyTheDate(t)

\* The screens tell one story of a letting, though each asks for itself; the
\* counts, as long as no sale overlapped an activation.
EstateAgrees ==
  QueueIsBook /\ QueueIsDrawn /\ RecordIsDrawn /\ (~crossed => CountsAreTiles) /\ DraftHasAWay

\* SPEC-estate.md, "Tenure": no active letting sits on a sold flat, from either
\* side.  The two triggers read each other's table without a lock, so a sale and
\* an activation of the flat that overlap are the exception.
SoldFlatIsNotLet ==
  ~crossed =>
    \A f \in EstateFlats : tenure[f] = "SOLD" => \A t \in On(f) : Status(t) # "ACTIVE"

\* The same page promises more: no DRAFT or ACTIVE tenancy on a SOLD flat.
NoLettingOnASoldFlat ==
  \A f \in EstateFlats : tenure[f] = "SOLD" =>
    \A t \in On(f) : Status(t) \notin {"DRAFT", "ACTIVE"}
=============================================================================
