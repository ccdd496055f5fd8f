---------------------------- MODULE MCAuxPoller ----------------------------
(* AuxPoller for TLC: every CONSTANT gets its value in the cfg.             *)
EXTENDS AuxPoller
=============================================================================
