---------------------------- MODULE MCDifficulty ----------------------------
(* Difficulty for TLC: every constant is a number or a set of numbers, given  *)
(* in the configurations.                                                    *)
EXTENDS Difficulty
=============================================================================
