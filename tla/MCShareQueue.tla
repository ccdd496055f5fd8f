---------------------------- MODULE MCShareQueue ----------------------------
(* ShareQueue for TLC: every CONSTANT gets its value in the cfg.             *)
EXTENDS ShareQueue
=============================================================================
