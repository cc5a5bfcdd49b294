------------------------------ MODULE MCStride ------------------------------
(***************************************************************************)
(* Stride and its history variables for model checking; the constants are  *)
(* given in the configuration files.                                       *)
(***************************************************************************)
EXTENDS StrideHistory

=============================================================================
