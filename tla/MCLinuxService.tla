--------------------------- MODULE MCLinuxService ---------------------------
(* LinuxService for TLC.                                                    *)
EXTENDS LinuxService
=============================================================================
