--------------------------- MODULE MCBlockLedger ---------------------------
(* BlockLedger for TLC: the heights and owners of the blocks found.          *)
EXTENDS BlockLedger

CONSTANTS a1, a2, t1

\* Two siblings at height one, paid to one address, and a TIDES block.
HeightsHere == a1 :> 1 @@ a2 :> 1 @@ t1 :> 3
OwnersHere  == a1 :> "ours" @@ a2 :> "ours" @@ t1 :> "split"
=============================================================================
