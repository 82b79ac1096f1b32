---------------------------- MODULE MCServiceCall ----------------------------
(***************************************************************************)
(* ServiceCall on a small office with the page that shows its calls; the   *)
(* office's lists of calls; or the flats and the lettings its screens      *)
(* show.  These share no state, so a behaviour follows one of them and the *)
(* state spaces add.  Of ServiceCall itself a behaviour follows the people *)
(* (contacts and roles that come and go while calls are opened, identified *)
(* and closed: no flags and no replies, e-mail and phone) or the course of *)
(* the calls (flags, categories, replies and the portal: no contacts and   *)
(* no roles).  Who is who does not matter.                                 *)
(***************************************************************************)
EXTENDS CallPage, CallsDesk, EstateDesk, TLC

VARIABLE part

OfficeVars == <<vars, deskVars, estateVars, part>>

\* Two lettings of one flat that share a day.
EstateFlatLet == ("t1" :> "g1") @@ ("t2" :> "g1")
EstateTermLet == ("t1" :> <<1, 3>>) @@ ("t2" :> <<3, 4>>)

OfficeInit ==
  part \in {"people", "course", "lists", "estate"} /\ Init /\ DeskInit /\ EstateInit

NoneOn(channel) == \A c \in Calls : call'[c].channel # channel
NoneFlagged == \A c \in Calls : call'[c].emergencyBy = Nobody

OfficeNext ==
  \/ /\ part = "people" /\ Next /\ NoneOn("PORTAL") /\ NoneFlagged
     /\ UNCHANGED <<sending, deskVars, estateVars, part>>
  \/ /\ part = "course" /\ Next /\ NoneOn("PHONE")
     /\ UNCHANGED <<guarantor, holder, filed, deskVars, estateVars, part>>
  \/ part = "lists" /\ DeskNext /\ UNCHANGED <<vars, estateVars, part>>
  \/ part = "estate" /\ EstateNext /\ UNCHANGED <<vars, deskVars, part>>

OfficeSpec == OfficeInit /\ [][OfficeNext]_OfficeVars

Symmetry ==
  Permutations(Parties) \cup Permutations(Categories) \cup Permutations(Calls)
=============================================================================
