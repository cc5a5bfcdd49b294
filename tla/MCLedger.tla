------------------------------ MODULE MCLedger ------------------------------
(***************************************************************************)
(* The safety scan of sys_mutex_lock / sys_semaphore_down on every ledger  *)
(* of a given size, reachable or not, against the Banker's algorithm: the  *)
(* states of this module are the inputs of the scan.                       *)
(***************************************************************************)
EXTENDS Ledger

CONSTANTS
    NResources,    \* columns of the ledger
    MaxFree,       \* bound: available[r]
    MaxHeld        \* bound: allocation[t][r] and need[t][r]

VARIABLE ledger

Column == 1..NResources

Ledgers ==
    [available  : [Column -> 0..MaxFree],
     allocation : [Tid -> [Column -> 0..MaxHeld]],
     need       : [Tid -> [Column -> 0..MaxHeld]]]

InputInit == ledger \in Ledgers

\* One entry changes.
InputNext ==
    \E r \in Column :
        \/ \E n \in 0..MaxFree : ledger' = [ledger EXCEPT !.available[r] = n]
        \/ \E t \in Tid, n \in 0..MaxHeld :
              \/ ledger' = [ledger EXCEPT !.allocation[t][r] = n]
              \/ ledger' = [ledger EXCEPT !.need[t][r] = n]

InputSpec == InputInit /\ [][InputNext]_ledger

\* Run over all the threads, the nested loops of the code (repeat passes
\* over 0..tnum until one pass finishes nobody, then look for a false in
\* finish) decide what the Banker's algorithm defines: the request is let
\* through exactly when the threads can all finish in some order.
ScanDecidesSafety == ScanSafe(ledger, NThreads) <=> BankerSafe(ledger)

=============================================================================
