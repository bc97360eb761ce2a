----------------------------- MODULE MCConsole ------------------------------
(* Console on small instances, for TLC.                                    *)
EXTENDS Console, TLC
=============================================================================
