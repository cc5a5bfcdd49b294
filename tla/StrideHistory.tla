---------------------------- MODULE StrideHistory ----------------------------
(***************************************************************************)
(* Module Stride with a history variable that remembers what the kernel    *)
(* forgets when task_stride wraps: the stride a task has accumulated.      *)
(***************************************************************************)
EXTENDS Stride

VARIABLE accumulated  \* per task: the sum of the passes added to its stride

hvars == <<vars, accumulated>>

Dispatched == current = NoTask /\ current' # NoTask

HInit == Init /\ accumulated = [t \in Task |-> 0]

HNext ==
    /\ Next
    /\ accumulated' =
          IF Dispatched THEN [accumulated EXCEPT ![current'] = @ + Pass(current')]
          ELSE accumulated

HSpec == HInit /\ [][HNext]_hvars

\* fetch returns the Ready task that has accumulated the least stride, the
\* earliest queued of several (specification, section 4.1): the comparison
\* of the wrapping counters in the loop of fetch must come out as the
\* comparison of what the tasks have really run.
FetchesLeastStrideFirst ==
    [][Dispatched =>
          current' = ready_queue[LeastFirst(ready_queue, accumulated)]]_hvars

=============================================================================
