------------------------------- MODULE MCProc -------------------------------
(***************************************************************************)
(* Proc for TLC: the arguments of sys_mmap of the .cfg files.              *)
(***************************************************************************)
EXTENDS Proc

\* with PageSize = 2 and a usize below 8: an area that fits, a start off
\* the page, no permission, a bit that is none, an end past the usize
SomeMmapArgs ==
    {[start |-> 2, len |-> 2, port |-> 3], [start |-> 1, len |-> 2, port |-> 1],
     [start |-> 0, len |-> 2, port |-> 0], [start |-> 0, len |-> 2, port |-> 8],
     [start |-> 6, len |-> 2, port |-> 7]}

=============================================================================
