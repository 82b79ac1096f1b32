-------------------------------- MODULE Purge --------------------------------
(***************************************************************************)
(* The operator's purge of a flat or of a whole building, in one           *)
(* transaction beside the office's own writes (estate/internal/purge.ts,   *)
(* estate-purge.ts).                                                       *)
(*                                                                         *)
(* A table owner turns the user triggers off and the foreign keys stay on: *)
(* a row written between two statements of the purge refuses it whole.  A  *)
(* superuser turns both off.  A person goes when no letting names them     *)
(* any more, wherever it stands.                                           *)
(*                                                                         *)
(* Abstracted: assets, obligations, events, threads and bays go with their *)
(* flat; a link to a letting, to an asset or to a space counts as one to   *)
(* the flat, save that it spares no paper.                                 *)
(***************************************************************************)
EXTENDS Naturals, FiniteSets

CONSTANTS
  Homes,        \* flats of one building and of other streets
  HomesHere,    \* those of the building
  Signers,      \* people a letting may name
  LettingIds,    \* identifiers of lettings
  Sheets        \* identifiers of documents

NoLetting == "no letting"

ASSUME PurgeAssumption == HomesHere \subseteq Homes /\ NoLetting \notin LettingIds

VARIABLES
  homes,        \* flats that stand
  people,       \* party
  households,   \* tenancy and tenancy_party: letting |-> flat, people
  sheets,       \* document: sheet |-> the flats its links name
  complaints,   \* service_call: <<who asked, which letting or NoLetting>>
  purge,        \* the transaction, or NoPurge
  bypassed      \* history: a purge has run with the keys off

purgeVars ==
  <<homes, people, households, sheets, complaints, purge, bypassed>>

Bag ==
  [at: {"none", "papers", "guards", "lettings", "sheets", "homes", "orphans", "people"},
   keys: BOOLEAN, homes: SUBSET Homes, lettings: SUBSET LettingIds,
   sheets: SUBSET Sheets, people: SUBSET Signers, gone: SUBSET {"lettings", "sheets", "homes"}]
NoPurge ==
  [at |-> "none", keys |-> TRUE, homes |-> {}, lettings |-> {}, sheets |-> {},
   people |-> {}, gone |-> {}]

PurgeTypeOK ==
  /\ homes \subseteq Homes /\ people \subseteq Signers
  /\ DOMAIN households \subseteq LettingIds
  /\ \A l \in DOMAIN households :
       households[l] \in [home: Homes, people: SUBSET Signers]
  /\ DOMAIN sheets \subseteq Sheets
  /\ \A d \in DOMAIN sheets : sheets[d] \subseteq Homes
  /\ complaints \subseteq Signers \X (LettingIds \cup {NoLetting})
  /\ purge \in Bag /\ bypassed \in BOOLEAN

PurgeInit ==
  /\ homes = Homes /\ people = Signers
  /\ households = <<>> /\ sheets = <<>> /\ complaints = {}
  /\ purge = NoPurge /\ bypassed = FALSE

-----------------------------------------------------------------------------
Taken(what) == what \in purge.gone
\* What a writer beside the purge may name: a key waits for a row whose
\* deletion is not committed, and finds none once it is.
HomesToName == homes \ (IF Taken("homes") THEN purge.homes ELSE {})
LettingsToName == DOMAIN households \ (IF Taken("lettings") THEN purge.lettings ELSE {})
SheetsToName == Sheets \ (IF Taken("sheets") THEN purge.sheets ELSE {})

Let(l, u, P) ==
  /\ l \notin DOMAIN households
  /\ u \in HomesToName /\ P # {} /\ P \subseteq people
  /\ households' = [k \in DOMAIN households \cup {l} |->
       IF k = l THEN [home |-> u, people |-> P] ELSE households[k]]
  /\ UNCHANGED <<homes, people, sheets, complaints, purge, bypassed>>

\* No key holds the flat of a link.
LinkSheet(d, u) ==
  /\ d \in SheetsToName /\ u \in homes
  /\ sheets' = [k \in DOMAIN sheets \cup {d} |->
       IF k # d THEN sheets[k]
       ELSE IF d \in DOMAIN sheets THEN sheets[d] \cup {u} ELSE {u}]
  /\ UNCHANGED <<homes, people, households, complaints, purge, bypassed>>

Complain(p, l) ==
  /\ p \in people /\ l \in LettingsToName \cup {NoLetting}
  /\ complaints' = complaints \cup {<<p, l>>}
  /\ UNCHANGED <<homes, people, households, sheets, purge, bypassed>>

-----------------------------------------------------------------------------
Without(f, S) == [k \in DOMAIN f \ S |-> f[k]]

\* applyEstatePurge, collectIds: the flats, their lettings, their people.
CollectPlaces(H) ==
  /\ purge.at = "none" /\ H # {} /\ H \subseteq homes
  /\ LET lettings == {l \in DOMAIN households : households[l].home \in H}
     IN purge' = [NoPurge EXCEPT !.at = "papers", !.homes = H, !.lettings = lettings,
                                 !.people = UNION {households[l].people : l \in lettings}]
  /\ UNCHANGED <<homes, people, households, sheets, complaints, bypassed>>

\* documentIdsInBag: a link to another flat spares the paper.
CollectPapers ==
  /\ purge.at = "papers"
  /\ purge' = [purge EXCEPT !.at = "guards",
       !.sheets = {d \in DOMAIN sheets : sheets[d] # {} /\ sheets[d] \subseteq purge.homes}]
  /\ UNCHANGED <<homes, people, households, sheets, complaints, bypassed>>

BypassGuards(keys) ==
  /\ purge.at = "guards"
  /\ purge' = [purge EXCEPT !.at = "lettings", !.keys = keys]
  /\ bypassed' = (bypassed \/ ~keys)
  /\ UNCHANGED <<homes, people, households, sheets, complaints>>

\* A foreign key refuses the statement while a row of "held" names it.
KeysAreOff(held) == FALSE
KeysHold(held) == purge.keys /\ held # {}

RollBackPurge ==
  /\ purge' = NoPurge
  /\ UNCHANGED <<homes, people, households, sheets, complaints, bypassed>>

\* One statement of deleteBag: refused whole, or its rows are gone.
DeleteRows(at, what, held, next) ==
  /\ purge.at = at
  /\ \/ KeysHold(held) /\ RollBackPurge
     \/ /\ ~KeysHold(held)
        /\ purge' = [purge EXCEPT !.at = next, !.gone = @ \cup {what}]
        /\ UNCHANGED <<homes, people, households, sheets, complaints, bypassed>>

DeleteLettings ==
  DeleteRows("lettings", "lettings",
             {c \in complaints : c[2] \in purge.lettings}, "sheets")
DeleteSheets == DeleteRows("sheets", "sheets", {}, "homes")
DeleteHomes ==
  DeleteRows("homes", "homes",
             {l \in DOMAIN households \ purge.lettings : households[l].home \in purge.homes},
             "orphans")

\* deleteOrphanParties reads who no letting names, then deletes them.
NamedStill == UNION {households[l].people : l \in DOMAIN households \ purge.lettings}
ReadOrphans ==
  /\ purge.at = "orphans"
  /\ purge' = [purge EXCEPT !.at = "people", !.people = @ \ NamedStill]
  /\ UNCHANGED <<homes, people, households, sheets, complaints, bypassed>>

DeletePeople ==
  LET held == {c \in complaints : c[1] \in purge.people}
              \cup (purge.people \cap NamedStill)
  IN /\ purge.at = "people"
     /\ \/ KeysHold(held) /\ RollBackPurge
        \/ /\ ~KeysHold(held)
           /\ homes' = homes \ purge.homes
           /\ households' = Without(households, purge.lettings)
           /\ sheets' = Without(sheets, purge.sheets)
           /\ people' = people \ purge.people
           /\ purge' = NoPurge
           /\ UNCHANGED <<complaints, bypassed>>

\* The operator answers no, or the process stops.
AbandonPurge == purge.at # "none" /\ RollBackPurge

PurgeNext ==
  \/ \E l \in LettingIds, u \in Homes, P \in SUBSET Signers : Let(l, u, P)
  \/ \E d \in Sheets, u \in Homes : LinkSheet(d, u)
  \/ \E p \in Signers, l \in LettingIds \cup {NoLetting} : Complain(p, l)
  \/ \E H \in {{u} : u \in Homes} \cup {HomesHere} : CollectPlaces(H)
  \/ CollectPapers
  \/ \E keys \in BOOLEAN : BypassGuards(keys)
  \/ DeleteLettings \/ DeleteSheets \/ DeleteHomes
  \/ ReadOrphans \/ DeletePeople \/ AbandonPurge

PurgeSpec == PurgeInit /\ [][PurgeNext]_purgeVars

-----------------------------------------------------------------------------
\* A purge that ran with the foreign keys on strands nothing: every letting
\* that stands has its flat and its people, and every call that stands has
\* the person who asked and the letting it is about, whatever the office wrote
\* between two statements of the purge.
NothingIsStranded ==
  bypassed \/
    /\ \A l \in DOMAIN households :
         households[l].home \in homes /\ households[l].people \subseteq people
    /\ \A c \in complaints :
         c[1] \in people /\ c[2] \in DOMAIN households \cup {NoLetting}
=============================================================================
