-------------------------------- MODULE Sched --------------------------------
(***************************************************************************)
(* What the scheduler and the dispatch loop promise to the rest of the     *)
(* kernel, with no word on which Ready task is chosen: one core, at most   *)
(* one Running task, and a task runs only after it was made Ready.         *)
(*                                                                         *)
(* Module Stride implements this with the stride policy of                 *)
(* os/src/task/manager.rs; module Sync uses nothing else of the scheduler. *)
(***************************************************************************)
CONSTANT Task

VARIABLE status        \* per task; "Absent" is a task not created yet

Status == {"Absent", "Ready", "Running", "Blocked", "Zombie"}

TypeOK == status \in [Task -> Status]

Idle == \A t \in Task : status[t] # "Running"

Init ==
    /\ status \in [Task -> {"Absent", "Ready", "Running"}]
    /\ \A t, u \in Task : status[t] = "Running" /\ status[u] = "Running" => t = u

\* The idle loop hands the core to some Ready task.
Dispatch(t) ==
    /\ Idle
    /\ status[t] = "Ready"
    /\ status' = [status EXCEPT ![t] = "Running"]

\* The kernel, entered by the Running task t, makes the tasks of W Ready (a
\* release hands over to a waiter, a fork creates a task) and t goes on or
\* gives the core back: it yields, blocks or exits.
Kernel(t, to, W) ==
    /\ status[t] = "Running"
    /\ to \in {"Running", "Ready", "Blocked", "Zombie"}
    /\ \A w \in W : status[w] \in {"Blocked", "Absent"}
    /\ status' = [u \in Task |-> IF u = t THEN to
                                 ELSE IF u \in W THEN "Ready" ELSE status[u]]

\* The timer queue makes the tasks of W Ready.
Wake(W) ==
    /\ \A w \in W : status[w] = "Blocked"
    /\ status' = [u \in Task |-> IF u \in W THEN "Ready" ELSE status[u]]

Next ==
    \/ \E t \in Task : Dispatch(t)
    \/ \E t \in Task, to \in Status, W \in SUBSET Task : Kernel(t, to, W)
    \/ \E W \in SUBSET Task : Wake(W)

Spec == Init /\ [][Next]_status

\* At most one task is Running.
OneRunning ==
    \A t, u \in Task : status[t] = "Running" /\ status[u] = "Running" => t = u

=============================================================================
