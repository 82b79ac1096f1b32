---------------------------- MODULE MCIntakeDoor ----------------------------
(***************************************************************************)
(* IntakeDoor on one conversation, within one of two bounds: in "hands"    *)
(* every call is the conversation's own and the office uses every command; *)
(* in "merges" calls are opened elsewhere too, and the office closes,      *)
(* merges and rescues but neither returns nor touches a flag, no reply is  *)
(* refused and no delivery repeated.  Which identifier a call gets does    *)
(* not matter.                                                             *)
(***************************************************************************)
EXTENDS IntakeDoor, TLC

VARIABLE regime

InHands == \A c \in Calls : calls'[c].state # "none" => opener'[c] # Null
InMerges ==
  /\ refusals' = 0 /\ extra' = 0
  /\ \A c \in Calls :
       /\ ~calls'[c].returned /\ calls'[c].flag # "STAFF"
       /\ calls[c].flag # Null => calls'[c].flag # Null

DoorRunInit == DoorInit /\ regime \in {"hands", "merges"}
DoorRunNext ==
  /\ DoorNext
  /\ IF regime = "hands" THEN InHands ELSE InMerges
  /\ UNCHANGED regime

DoorRunSpec == DoorRunInit /\ [][DoorRunNext]_<<doorVars, regime>>

Symmetry == Permutations(Calls)
=============================================================================
