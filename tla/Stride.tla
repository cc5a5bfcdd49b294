------------------------------- MODULE Stride -------------------------------
(***************************************************************************)
(* The ready queue of os/src/task/manager.rs and the dispatch loop of      *)
(* os/src/task/processor.rs, with the syscalls of                          *)
(* os/src/syscall/process.rs that drive them.                              *)
(*                                                                         *)
(* One core, no preemption in kernel mode: a turn of run_tasks and a       *)
(* syscall are single steps.  The idle loop has the core when `current`    *)
(* is None.                                                                *)
(*                                                                         *)
(* task_stride is a usize that wraps; it is kept modulo StrideModulus      *)
(* (2^64 in the kernel) so that a small modulus brings the wrap within     *)
(* reach.  update_stride, TaskControlBlock::fork/spawn, the suspend, block *)
(* and exit paths and wakeup_task are in os/src/task, outside the files at *)
(* hand: they follow the specification (sections 4.1, 4.2).                *)
(***************************************************************************)
EXTENDS Integers, Sequences, FiniteSets, SequencesExt

CONSTANTS
    Task,             \* the tasks there can be
    NoTask,           \* Processor.current = None
    InitProc,         \* the task add_initproc queues at boot
    Stayers,          \* the tasks that never block or exit (user/initproc)
    BigStride,        \* BIG_STRIDE
    StrideModulus,    \* 2^w, w the width of task_stride
    DefaultPriority,  \* task_priority of a new task
    Priorities,       \* the arguments sys_set_priority is called with
    Clock,            \* the stamps run_tasks computes from get_time_us()
    OverflowChecks    \* the build traps on arithmetic overflow (debug profile)

ASSUME /\ InitProc \in Task /\ NoTask \notin Task /\ Stayers \subseteq Task
       /\ BigStride \in Nat /\ StrideModulus \in Nat \ {0}
       /\ DefaultPriority \in Nat \ {0}
       /\ Priorities \subseteq Int
       /\ Clock \subseteq Nat
       /\ OverflowChecks \in BOOLEAN

VARIABLES
    ready_queue,      \* TaskManager.ready_queue
    current,          \* Processor.current
    task_status,      \* per task: "Absent" (not created), "Ready", "Running",
                      \* "Blocked", "Zombie"
    task_stride,
    task_priority,
    task_begin_time,
    panicked          \* the kernel has panicked

tcbs == <<task_stride, task_priority, task_begin_time>>
vars == <<ready_queue, current, task_status, tcbs, panicked>>

-----------------------------------------------------------------------------
(* TaskManager *)

\* One iteration of the loop of fetch: `if stride < min_stride`.
\* acc = [res, min_stride], res 1-based.
FetchStep(queue, acc, idx) ==
    IF task_stride[queue[idx]] < acc.min_stride
    THEN [res |-> idx, min_stride |-> task_stride[queue[idx]]]
    ELSE acc

\* (faulty) `<=` for `<`: the last of equal strides wins
FetchScanLast(queue) ==
    FoldLeft(LAMBDA acc, idx :
                 IF task_stride[queue[idx]] <= acc.min_stride
                 THEN [res |-> idx, min_stride |-> task_stride[queue[idx]]]
                 ELSE acc,
             [res |-> 1, min_stride |-> StrideModulus - 1],
             [idx \in DOMAIN queue |-> idx])

\* (faulty) min_stride starts at 0: no stride is below it and res stays 0
FetchScanFirst(queue) == [res |-> 1, min_stride |-> 0]

\* The loop of fetch, from res = 0 and min_stride = usize::MAX.
FetchScan(queue) ==
    FoldLeft(LAMBDA acc, idx : FetchStep(queue, acc, idx),
             [res |-> 1, min_stride |-> StrideModulus - 1],
             [idx \in DOMAIN queue |-> idx])

\* pass = BIG_STRIDE / priority
Pass(t) == BigStride \div task_priority[t]

\* update_stride: stride += pass
update_stride(t) ==
    [task_stride EXCEPT ![t] = (@ + Pass(t)) % StrideModulus]

\* (faulty) the task is not queued
add_nothing(queue, t) == queue

\* TaskManager::add
add(queue, t) == Append(queue, t)

\* A Rust panic; nothing runs after it.
Fatal(why) ==
    /\ why
    /\ panicked' = TRUE
    /\ UNCHANGED <<ready_queue, current, task_status, tcbs>>

-----------------------------------------------------------------------------
(* Processor *)

\* (faulty) the task fetched stays in the queue
remove_nothing(queue, res) == queue

\* `ready_queue.remove(res)`, the last line of fetch
remove(queue, res) == RemoveAt(queue, res)

\* (faulty) every dispatch stamps
StampAlways(begin_time, us) == us

\* `if task_begin_time == 0 { task_begin_time = <now> }`
Stamp(begin_time, us) == IF begin_time = 0 THEN us ELSE begin_time

\* One turn of the loop of run_tasks: fetch_task (the scan, update_stride,
\* remove), then the task is made Running, stamped with us if its begin
\* time is 0, made current and switched to.  fetch indexes ready_queue[res]
\* whatever the length of the queue.
run_tasks(us) ==
    LET res  == FetchScan(ready_queue).res
        task == ready_queue[res]
    IN  /\ ~panicked
        /\ current = NoTask
        /\ \/ Fatal(\/ ready_queue = << >>
                    \/ /\ OverflowChecks /\ ready_queue # << >>
                       /\ task_stride[task] + Pass(task) >= StrideModulus)
           \/ /\ ready_queue # << >>
              /\ ~OverflowChecks \/ task_stride[task] + Pass(task) < StrideModulus
              /\ task_stride' = update_stride(task)
              /\ ready_queue' = remove(ready_queue, res)
              /\ task_status' = [task_status EXCEPT ![task] = "Running"]
              /\ task_begin_time' = [task_begin_time EXCEPT ![task] = Stamp(@, us)]
              /\ current' = task
              /\ UNCHANGED <<task_priority, panicked>>

\* t is the current task, in user mode.
InUser(t) == ~panicked /\ current = t

\* (faulty) the task leaves the core with the status it had
LeaveCoreRunning(t, status) == current' = NoTask /\ UNCHANGED task_status

\* take_current_task, the new status, then schedule: back to the idle loop.
LeaveCore(t, status) ==
    /\ current' = NoTask
    /\ task_status' = [task_status EXCEPT ![t] = status]

-----------------------------------------------------------------------------
(* Syscalls and wakeups *)

\* sys_yield: suspend_current_and_run_next puts the task back in the queue.
sys_yield(t) ==
    /\ InUser(t)
    /\ LeaveCore(t, "Ready")
    /\ ready_queue' = add(ready_queue, t)
    /\ UNCHANGED <<tcbs, panicked>>

\* (faulty) no lower bound
AnyPriority(prio) == TRUE

\* `if 2 <= _prio`
ValidPriority(prio) == 2 <= prio

\* set_current_priority
set_current_priority(t, prio) == [task_priority EXCEPT ![t] = prio]

\* sys_set_priority: a priority below 2 is refused and changes nothing.
sys_set_priority(t, prio) ==
    /\ InUser(t)
    /\ task_priority' = IF ValidPriority(prio) THEN set_current_priority(t, prio)
                        ELSE task_priority
    /\ UNCHANGED <<ready_queue, current, task_status, task_stride,
                   task_begin_time, panicked>>

\* What sys_fork and sys_spawn do once they have the new task: add_task.
\* The child starts as TaskControlBlock::new leaves it.
Born(child) ==
    /\ task_status[child] = "Absent"
    /\ task_status' = [task_status EXCEPT ![child] = "Ready"]
    /\ task_stride' = [task_stride EXCEPT ![child] = 0]
    /\ task_priority' = [task_priority EXCEPT ![child] = DefaultPriority]
    /\ task_begin_time' = [task_begin_time EXCEPT ![child] = 0]
    /\ ready_queue' = add(ready_queue, child)
    /\ UNCHANGED <<current, panicked>>

sys_fork(t, child) == InUser(t) /\ Born(child)

\* sys_spawn: -1 and no task if open_file finds nothing.
sys_spawn(t, child, found) ==
    /\ InUser(t)
    /\ \/ found /\ Born(child)
       \/ ~found /\ UNCHANGED vars

\* block_current_and_run_next, from sys_sleep or a primitive.
Block(t) ==
    /\ InUser(t)
    /\ LeaveCore(t, "Blocked")
    /\ UNCHANGED <<ready_queue, tcbs, panicked>>

\* (faulty) the task that exits is queued as one that yields
sys_exit_queued(t) ==
    /\ InUser(t)
    /\ LeaveCore(t, "Zombie")
    /\ ready_queue' = add(ready_queue, t)
    /\ UNCHANGED <<tcbs, panicked>>

\* sys_exit: exit_current_and_run_next.
sys_exit(t) ==
    /\ InUser(t)
    /\ LeaveCore(t, "Zombie")
    /\ UNCHANGED <<ready_queue, tcbs, panicked>>

\* wakeup_task, by the timer queue or by the release of a primitive.
Wakeup(t) ==
    /\ ~panicked
    /\ task_status[t] = "Blocked"
    /\ task_status' = [task_status EXCEPT ![t] = "Ready"]
    /\ ready_queue' = add(ready_queue, t)
    /\ UNCHANGED <<current, tcbs, panicked>>

-----------------------------------------------------------------------------
(* The specification *)

\* Boot: add_initproc has queued InitProc, run_tasks is about to start.
Init ==
    /\ ready_queue = <<InitProc>>
    /\ current = NoTask
    /\ task_status = [t \in Task |-> IF t = InitProc THEN "Ready" ELSE "Absent"]
    /\ task_stride = [t \in Task |-> 0]
    /\ task_priority = [t \in Task |-> DefaultPriority]
    /\ task_begin_time = [t \in Task |-> 0]
    /\ panicked = FALSE

Next ==
    \/ \E us \in Clock : run_tasks(us)
    \/ \E t \in Task :
        \/ sys_yield(t)
        \/ \E prio \in Priorities : sys_set_priority(t, prio)
        \/ \E child \in Task : sys_fork(t, child)
        \/ \E child \in Task, found \in BOOLEAN : sys_spawn(t, child, found)
        \/ Wakeup(t)
    \/ \E t \in Task \ Stayers : Block(t) \/ sys_exit(t)

Spec == Init /\ [][Next]_vars

\* The idle loop never stops fetching, and the timer interrupt takes the
\* core from a task that does not give it up (the trap handler calls
\* suspend_current_and_run_next, the step sys_yield makes).
Fairness ==
    /\ WF_vars(\E us \in Clock : run_tasks(us))
    /\ \A t \in Task : WF_vars(sys_yield(t))

FairSpec == Spec /\ Fairness

-----------------------------------------------------------------------------
(* Properties *)

Status == {"Absent", "Ready", "Running", "Blocked", "Zombie"}

TypeOK ==
    /\ ready_queue \in Seq(Task)
    /\ current \in Task \cup {NoTask}
    /\ task_status \in [Task -> Status]
    /\ task_stride \in [Task -> 0..(StrideModulus - 1)]
    /\ task_priority \in [Task -> Nat \ {0, 1}]
    /\ task_begin_time \in [Task -> Nat]
    /\ panicked \in BOOLEAN

\* The ready queue, the statuses and `current` tell one story: the queue
\* holds each Ready task once and no other, and `current` is the one Running
\* task.  fetch must remove what it returns, and every path back to the idle
\* loop (suspend, block, exit) must take `current` and set the status before
\* add_task or schedule.
QueueHoldsTheReady ==
    /\ IsInjective(ready_queue)
    /\ ToSet(ready_queue) = {t \in Task : task_status[t] = "Ready"}
    /\ \A t \in Task : task_status[t] = "Running" <=> current = t

\* The index fetch has to return: the first of the tasks of least stride.
LeastFirst(queue, stride) ==
    CHOOSE i \in DOMAIN queue :
        \A j \in DOMAIN queue :
            \/ stride[queue[j]] > stride[queue[i]]
            \/ stride[queue[j]] = stride[queue[i]] /\ i <= j

\* The dispatch loop is an implementation of the abstract scheduler: every
\* step of run_tasks, of a syscall or of a wakeup is a step of Sched or
\* changes no status.
Abstract == INSTANCE Sched WITH status <- task_status

ImplementsSched == Abstract!Spec

\* No starvation: with the timer interrupt taking the core from a running
\* task, a task in the ready queue is dispatched sooner or later (run_tasks
\* fetches the least stride, and every dispatch raises the stride fetched).
EveryReadyTaskRuns ==
    \A t \in Task : (task_status[t] = "Ready") ~> (task_status[t] = "Running")

\* The idle loop always finds a task.  fetch indexes ready_queue[res] without
\* a look at the length of the queue (the specification, section 4.1, has it
\* return empty), so run_tasks panics on an empty queue: every task that
\* leaves the core without blocking or exiting must be back in the queue
\* before the next turn of the loop, and InitProc, which does neither, is
\* then always there to be fetched.
KernelNeverPanics == ~panicked

=============================================================================
