----------------------------- MODULE MCEstateDesk -----------------------------
(* One flat and two lettings of it that share a day.                       *)
EXTENDS EstateDesk, TLC

DraftedFlatLet == ("t1" :> "g1") @@ ("t2" :> "g1")
DraftedTermLet == ("t1" :> <<1, 3>>) @@ ("t2" :> <<3, 4>>)

EstateSpec == EstateInit /\ [][EstateNext]_estateVars
=============================================================================
