---------------------------- MODULE MCAuxLedger ----------------------------
(* AuxLedger for TLC: two siblings at height one.                            *)
EXTENDS AuxLedger

CONSTANTS a1, a2

HeightsHere == a1 :> 1 @@ a2 :> 1
TwoFinders  == a1 :> "m1" @@ a2 :> "m2"
OneFinder   == a1 :> "m1" @@ a2 :> "m1"
=============================================================================
