-------------------------------- MODULE MCFd --------------------------------
(***************************************************************************)
(* Fd for TLC: the flag words of the .cfg files.                           *)
(***************************************************************************)
EXTENDS Fd

\* RDONLY, WRONLY, RDWR, CREATE | WRONLY, TRUNC, and CREATE alone
ValidFlags == {{}, {WRONLY}, {RDWR}, {CREATE, WRONLY}, {TRUNC}, {CREATE}}

\* the same and a word with bit 2, which is no flag
AnyFlags == ValidFlags \cup {{2}}

\* The names are alike: no call tells one from another.
Names == Permutations(Name)

=============================================================================
