----------------------------- MODULE MCJobLoop -----------------------------
(* JobLoop for TLC: the blocks and their heights.                           *)
EXTENDS JobLoop

CONSTANTS b1, c1, b2

\* Two rival blocks, and the block that decides between them.
ForkHeight == [b \in {b1, c1, b2} |-> IF b = b2 THEN 2 ELSE 1]

\* The tip stands still.
OneHeight == [b \in {b1} |-> 1]

=============================================================================
