------------------------------- MODULE MCSync -------------------------------
(***************************************************************************)
(* Sync for TLC.  The constants are given in the .cfg files; this module   *)
(* adds what a .cfg cannot say.                                            *)
(***************************************************************************)
EXTENDS Sync

=============================================================================
