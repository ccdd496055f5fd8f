---------------------------- MODULE MCMigration ----------------------------
(* Migration for TLC: two blocks, the second found after the first; the     *)
(* two programs do the same, and so do the two heights.                     *)
EXTENDS Migration, TLC

CONSTANTS api, stratum, h1, h2, x, y

FoundAtHere == x :> 1 @@ y :> 2
Symmetry    == Permutations(Services) \cup Permutations(Heights)
=============================================================================
