-------------------------------- MODULE Spaces --------------------------------
(***************************************************************************)
(* The spaces of a building: minted and added from the inventory, a flat   *)
(* with its built bay, a bay taken off, a bay assigned to a household      *)
(* (estate/internal/routes.ts, importer.ts, inventory.ts, spaces.ts;       *)
(* tenancy/internal/commands.ts, reassignAssignedSpace).                   *)
(*                                                                         *)
(* The office reads what there is before the transaction that writes it.   *)
(* The importer's upsert then answers "already there" by writing over it,  *)
(* and a removal counts the holders one statement before it deletes: the   *)
(* foreign keys are what is left between.                                  *)
(*                                                                         *)
(* Abstracted: one building, whose identity is given; a store is a bay; a  *)
(* stair, a lift or a yard is a bay nobody assigns; areas, floors, papers. *)
(***************************************************************************)
EXTENDS Naturals, FiniteSets

CONSTANTS
  FlatNames,    \* names of UNIT spaces
  BayNames,     \* names of PARKING spaces
  Leases,       \* lettings of the building, each on a flat once it stands
  Hands,        \* requests under way at a time
  NoBay         \* no bay

ASSUME SpacesAssumption ==
  FlatNames \cap BayNames = {} /\ NoBay \notin FlatNames \cup BayNames /\ Leases # {}

VARIABLES
  spaces,     \* space
  built,      \* unit.parking_space_id, of the flats there are
  leases,     \* tenancy: <<unit_id, parking_space_id>>, of those there are
  fitted,     \* asset: the spaces one sits in
  hands,      \* requests between two statements
  mints,      \* audit_log: lines estate.inventory_mint
  named       \* audit_log: spaces a line names, in a mint or one by one

spacesVars == <<spaces, built, leases, fitted, hands, mints, named>>

SpaceNames == FlatNames \cup BayNames
Hand ==
  [at: {"idle", "mint", "add", "flat", "remove", "take", "assign"},
   spaces: SUBSET SpaceNames, lease: Leases, bay: BayNames \cup {NoBay}]
IdleHand ==
  [at |-> "idle", spaces |-> {}, lease |-> CHOOSE l \in Leases : TRUE, bay |-> NoBay]

SpacesTypeOK ==
  /\ spaces \subseteq SpaceNames /\ fitted \subseteq SpaceNames /\ named \subseteq SpaceNames
  /\ DOMAIN built \subseteq FlatNames
  /\ \A u \in DOMAIN built : built[u] \in BayNames \cup {NoBay}
  /\ DOMAIN leases \subseteq Leases
  /\ \A l \in DOMAIN leases : leases[l] \in FlatNames \X (BayNames \cup {NoBay})
  /\ hands \in [Hands -> Hand] /\ mints \in 0..2

SpacesInit ==
  /\ spaces = {} /\ built = <<>> /\ leases = <<>> /\ fitted = {}
  /\ hands = [h \in Hands |-> IdleHand]
  /\ mints = 0 /\ named = {}

-----------------------------------------------------------------------------
HandAt(h, step) == hands[h].at = step
HandFree(h) == hands' = [hands EXCEPT ![h] = IdleHand]
Asks(h, step, S, lease, bay) ==
  /\ HandAt(h, "idle")
  /\ hands' = [hands EXCEPT ![h] = [at |-> step, spaces |-> S, lease |-> lease, bay |-> bay]]
  /\ UNCHANGED <<spaces, built, leases, fitted, mints, named>>
AnyLease == CHOOSE l \in Leases : TRUE

\* upsertSpaces and upsertUnits: a flat that is there has its bay set over.
Upsert(S, bay) ==
  /\ spaces' = spaces \cup S
  /\ built' = [u \in DOMAIN built \cup (S \cap FlatNames) |->
                 IF u \in S THEN bay ELSE built[u]]

\* POST /estate/inventory leaves out what is already there when it reads.
AskMint(h, S) == S # {} /\ Asks(h, "mint", S \ spaces, AnyLease, NoBay)

\* importEstate holds the building's row from its first statement on, so the
\* second of two mints sees the first one's line.
MintedBefore == mints > 0
TellMint(S) ==
  /\ mints' = IF S = {} \/ MintedBefore THEN mints ELSE mints + 1
  /\ named' = named \cup S
MintInventory(h) ==
  /\ HandAt(h, "mint")
  /\ Upsert(hands[h].spaces, NoBay) /\ TellMint(hands[h].spaces)
  /\ HandFree(h) /\ UNCHANGED <<leases, fitted>>

\* The later add, and a shared space, refuse a name that is there.
AskAdd(h, S) == S # {} /\ S \cap spaces = {} /\ Asks(h, "add", S, AnyLease, NoBay)
AddSpaces(h) ==
  /\ HandAt(h, "add")
  /\ Upsert(hands[h].spaces, NoBay)
  /\ named' = named \cup hands[h].spaces
  /\ HandFree(h) /\ UNCHANGED <<leases, fitted, mints>>

\* POST /estate/buildings/:id/units, upsertUnitRow: a flat and its bay.
AddFlat(h, u, bay) ==
  /\ HandAt(h, "idle")
  /\ spaces' = spaces \cup {u} \cup ({bay} \ {NoBay})
  /\ built' = [v \in DOMAIN built \cup {u} |-> IF v = u THEN bay ELSE built[v]]
  /\ UNCHANGED <<leases, fitted, hands, mints, named>>

-----------------------------------------------------------------------------
\* Rows a foreign key of which names the space.
BuiltOn(s) == {u \in DOMAIN built : built[u] = s}
AssignedTo(s) == {l \in DOMAIN leases : leases[l][2] = s}
LetOnFlat(s) == {l \in DOMAIN leases : leases[l][1] = s}

\* removeSpace counts the holders, then detaches the flat and deletes.
CountHolders(h, bay) ==
  /\ bay \in spaces /\ bay \notin fitted
  /\ AssignedTo(bay) = {} /\ Cardinality(BuiltOn(bay)) <= 1
  /\ Asks(h, "remove", {bay}, AnyLease, bay)
NoKeyNames(s) == AssignedTo(s) = {} /\ s \notin fitted
DetachAndDelete(h) ==
  LET bay == hands[h].bay
  IN /\ HandAt(h, "remove") /\ NoKeyNames(bay)
     /\ built' = [u \in DOMAIN built |-> IF built[u] = bay THEN NoBay ELSE built[u]]
     /\ spaces' = spaces \ {bay}
     /\ HandFree(h) /\ UNCHANGED <<leases, fitted, mints, named>>

\* removeInventorySpace detaches nothing: every holder is a refusal.
CountUses(h, s) ==
  /\ s \in spaces /\ s \notin fitted
  /\ AssignedTo(s) = {} /\ LetOnFlat(s) = {} /\ BuiltOn(s) = {}
  /\ Asks(h, "take", {s}, AnyLease, NoBay)
TakeSpace(h) ==
  /\ HandAt(h, "take")
  /\ \A s \in hands[h].spaces :
       s \in spaces /\ NoKeyNames(s) /\ LetOnFlat(s) = {} /\ BuiltOn(s) = {}
  /\ spaces' = spaces \ hands[h].spaces
  /\ built' = [u \in DOMAIN built \ hands[h].spaces |-> built[u]]
  /\ named' = named \cup hands[h].spaces
  /\ HandFree(h) /\ UNCHANGED <<leases, fitted, mints>>

\* A key or the count refuses: the transaction is rolled back.
SpaceRefused(h) ==
  /\ ~HandAt(h, "idle") /\ HandFree(h)
  /\ UNCHANGED <<spaces, built, leases, fitted, mints, named>>

\* reassignAssignedSpace and applyPromotedField find the bay, then write it.
FindBay(h, l, bay) ==
  /\ l \in DOMAIN leases /\ bay \in spaces /\ leases[l][2] # bay
  /\ Asks(h, "assign", {}, l, bay)
BayStands(bay) == bay \in spaces
AssignBay(h) ==
  /\ HandAt(h, "assign") /\ BayStands(hands[h].bay)
  /\ leases' = [leases EXCEPT ![hands[h].lease][2] = hands[h].bay]
  /\ HandFree(h) /\ UNCHANGED <<spaces, built, fitted, mints, named>>

OpenLease(l, u) ==
  /\ l \notin DOMAIN leases /\ u \in DOMAIN built
  /\ leases' = [k \in DOMAIN leases \cup {l} |-> IF k = l THEN <<u, NoBay>> ELSE leases[k]]
  /\ UNCHANGED <<spaces, built, fitted, hands, mints, named>>

\* upsertAsset, from the importer and from a protocol's seed.
FitAsset(s) ==
  /\ s \in spaces \ fitted /\ fitted' = fitted \cup {s}
  /\ UNCHANGED <<spaces, built, leases, hands, mints, named>>

SpacesNext ==
  \/ \E h \in Hands, S \in SUBSET SpaceNames : AskMint(h, S) \/ AskAdd(h, S)
  \/ \E h \in Hands : MintInventory(h) \/ AddSpaces(h)
  \/ \E h \in Hands, u \in FlatNames, bay \in BayNames \cup {NoBay} : AddFlat(h, u, bay)
  \/ \E h \in Hands, bay \in BayNames : CountHolders(h, bay)
  \/ \E h \in Hands : DetachAndDelete(h) \/ TakeSpace(h) \/ SpaceRefused(h)
  \/ \E h \in Hands, s \in SpaceNames : CountUses(h, s)
  \/ \E h \in Hands, l \in Leases, bay \in BayNames : FindBay(h, l, bay)
  \/ \E h \in Hands : AssignBay(h)
  \/ \E l \in Leases, u \in FlatNames : OpenLease(l, u)
  \/ \E s \in SpaceNames : FitAsset(s)

SpacesSpec == SpacesInit /\ [][SpacesNext]_spacesVars

-----------------------------------------------------------------------------
\* Taking a space off never leaves a letting, a flat or an asset on a space
\* that is not there, whatever was assigned, let or fitted between the count
\* of its holders and its deletion.
HeldSpacesStand ==
  /\ \A l \in DOMAIN leases :
       leases[l][1] \in DOMAIN built /\ leases[l][2] \in spaces \cup {NoBay}
  /\ \A u \in DOMAIN built : u \in spaces /\ built[u] \in spaces \cup {NoBay}
  /\ fitted \subseteq spaces

\* A building is minted once in the audit, however many posts raced; what a
\* later one wrote is told space by space.
MintedOnce == mints <= 1

\* What the building's list says stands.
SpacesHold == HeldSpacesStand /\ MintedOnce
=============================================================================
