------------------------------ MODULE Catalogue ------------------------------
(***************************************************************************)
(* The declarations of a document type's fields: corrected and retired by  *)
(* administrators while the office works (evidence/internal/catalogue.ts,  *)
(* POST /documents/types/:typeKey/fields), stated again by the seed        *)
(* (evidence/internal/seed-catalogue.ts).                                  *)
(*                                                                         *)
(* A declaration is never edited by an administrator: its window closes on *)
(* the day before and a new one opens.  The day is the one the request     *)
(* came in on; midnight may pass before its transaction.                   *)
(*                                                                         *)
(* Abstracted: one document type; labels, value types and hints; the       *)
(* "supersedes" rule, which only the shipped types of two fields carry.    *)
(***************************************************************************)
EXTENDS Naturals, FiniteSets

CONSTANTS
  FieldKeys,    \* field_key
  SeededKeys,   \* those the seed declares, from the first day
  Editors,      \* requests under way at a time
  LastDeclDay   \* bound: the clock

ASSUME CatalogueAssumption ==
  SeededKeys \subseteq FieldKeys /\ FieldKeys # {} /\ LastDeclDay \in Nat \ {0}

VARIABLES
  declarations,   \* document_type_field: <<key, effective_from>> |-> effective_to
  edits,          \* requests between two statements
  declDay,        \* the day
  retired         \* history: keys whose last committed edit retired them

catalogueVars == <<declarations, edits, declDay, retired>>

DeclDays == 0..LastDeclDay
Forever == LastDeclDay + 1
Edit ==
  [at: {"idle", "asked", "locked", "fresh"}, key: FieldKeys, retire: BOOLEAN, on: DeclDays]
NoEdit == [at |-> "idle", key |-> CHOOSE k \in FieldKeys : TRUE,
           retire |-> FALSE, on |-> 0]

CatalogueTypeOK ==
  /\ DOMAIN declarations \subseteq FieldKeys \X DeclDays
  /\ \A d \in DOMAIN declarations : declarations[d] \in d[2]..Forever
  /\ edits \in [Editors -> Edit]
  /\ declDay \in DeclDays /\ retired \subseteq FieldKeys

CatalogueInit ==
  /\ declarations = [d \in SeededKeys \X {0} |-> Forever]
  /\ edits = [e \in Editors |-> NoEdit]
  /\ declDay = 1 /\ retired = {}

-----------------------------------------------------------------------------
Governs(d, on) == d[2] <= on /\ on <= declarations[d]
Live(key, on) == {d \in DOMAIN declarations : d[1] = key /\ Governs(d, on)}
NewestLive(D) == CHOOSE d \in D : \A other \in D : other[2] <= d[2]
\* Whoever comes second to a live row waits for the first, and reads again.
HoldsRows(e, key) == edits[e].at = "locked" /\ edits[e].key = key

AskEdit(e, key, retire) ==
  /\ edits[e].at = "idle"
  /\ edits' = [edits EXCEPT ![e] = [at |-> "asked", key |-> key, retire |-> retire, on |-> declDay]]
  /\ UNCHANGED <<declarations, declDay, retired>>

EditEnds(e) == edits' = [edits EXCEPT ![e] = NoEdit]

\* liveDeclaration, and what is refused on sight: a second declaration on one
\* day, and a retirement of nothing or of today's declaration.
LockLive(e) ==
  LET edit == edits[e]
      live == Live(edit.key, edit.on)
  IN /\ edit.at = "asked"
     /\ \A other \in Editors : ~HoldsRows(other, edit.key)
     /\ IF \/ live = {} /\ edit.retire
           \/ live # {} /\ NewestLive(live)[2] = edit.on
        THEN EditEnds(e)
        ELSE edits' = [edits EXCEPT ![e].at = IF live = {} THEN "fresh" ELSE "locked"]
     /\ UNCHANGED <<declarations, declDay, retired>>

\* closeLiveDeclarations: every live row, at the day before.
ClosedAt(key, on) ==
  [d \in DOMAIN declarations |->
     IF d \in Live(key, on) THEN on - 1 ELSE declarations[d]]
OpensAfter(on) == on + 1
OpensOn(on) == on
Opened(decls, key, from) ==
  [d \in DOMAIN decls \cup {<<key, from>>} |-> IF d = <<key, from>> THEN Forever ELSE decls[d]]

\* declareDocumentTypeField: one transaction, which closes only what it found;
\* the natural key refuses a row another request has opened on the same day.
Declare(e) ==
  LET edit == edits[e]
      from == OpensOn(edit.on)
      closed == IF edit.at = "locked" THEN ClosedAt(edit.key, edit.on) ELSE declarations
  IN /\ edit.at \in {"locked", "fresh"} /\ ~edit.retire
     /\ <<edit.key, from>> \notin DOMAIN declarations
     /\ declarations' = Opened(closed, edit.key, from)
     /\ retired' = retired \ {edit.key}
     /\ EditEnds(e) /\ UNCHANGED declDay

\* A window that would end before it begins is refused
\* (document_type_field_version_is_ordered): a declaration of the same day.
RetireField(e) ==
  LET edit == edits[e]
  IN /\ edit.at = "locked" /\ edit.retire
     /\ <<edit.key, edit.on>> \notin Live(edit.key, edit.on)
     /\ declarations' = ClosedAt(edit.key, edit.on)
     /\ retired' = retired \cup {edit.key}
     /\ EditEnds(e) /\ UNCHANGED declDay

\* The natural key or the order of a window refuses, or the process stops.
EditRolledBack(e) ==
  /\ edits[e].at # "idle" /\ EditEnds(e)
  /\ UNCHANGED <<declarations, declDay, retired>>

\* applyDocumentTypeCatalogue: the seed's rows say again what the seed says,
\* their end with it.
ApplySeed ==
  /\ \A e \in Editors : edits[e].at # "locked"
  /\ declarations' = [d \in DOMAIN declarations |->
       IF d \in SeededKeys \X {0} THEN Forever ELSE declarations[d]]
  /\ retired' = retired \ SeededKeys
  /\ UNCHANGED <<edits, declDay>>

Midnight ==
  /\ declDay < LastDeclDay /\ declDay' = declDay + 1
  /\ UNCHANGED <<declarations, edits, retired>>

CatalogueNext ==
  \/ \E e \in Editors, key \in FieldKeys, retire \in BOOLEAN : AskEdit(e, key, retire)
  \/ \E e \in Editors : LockLive(e) \/ Declare(e) \/ RetireField(e) \/ EditRolledBack(e)
  \/ ApplySeed \/ Midnight

CatalogueSpec == CatalogueInit /\ [][CatalogueNext]_catalogueVars

-----------------------------------------------------------------------------
\* A field that was declared governs every later day until somebody retires
\* it: no correction, no two of them in one day or across a midnight, and no
\* run of the seed leaves it declared by nothing.
DeclaredUntilRetired ==
  \A d \in DOMAIN declarations :
    d[1] \in retired \/ Live(d[1], declDay) # {}
=============================================================================
