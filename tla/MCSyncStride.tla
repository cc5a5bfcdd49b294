---------------------------- MODULE MCSyncStride ----------------------------
(***************************************************************************)
(* SyncStride for model checking; the constants are given in the           *)
(* configuration files.                                                    *)
(***************************************************************************)
EXTENDS SyncStride

=============================================================================
