----------------------------- MODULE MCLauncher -----------------------------
(* Launcher for TLC.                                                        *)
EXTENDS Launcher
=============================================================================
