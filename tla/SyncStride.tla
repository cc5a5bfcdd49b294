----------------------------- MODULE SyncStride -----------------------------
(***************************************************************************)
(* The synchronisation syscalls of module Sync on the ready queue and the  *)
(* dispatch loop of module Stride: the threads of one process are the      *)
(* tasks of the scheduler, task_status is the status both modules speak    *)
(* of, and every step of Sync is joined with what it does to ready_queue   *)
(* and to `current`.                                                       *)
(*                                                                         *)
(* Every thread has the default priority.  The tasks of other processes    *)
(* (initproc, the shell) are left out: they take turns of their own and    *)
(* never touch what is modelled here, and run_tasks, which would find      *)
(* them in the queue, waits while the queue of this process is empty.      *)
(***************************************************************************)
EXTENDS Sync

CONSTANTS
    NoTask,           \* Processor.current = None
    BigStride,        \* BIG_STRIDE
    StrideModulus,    \* 2^w, w the width of task_stride
    DefaultPriority,  \* task_priority of a new task
    Clock             \* the stamps run_tasks computes from get_time_us()

VARIABLES ready_queue, current, task_stride, task_priority, task_begin_time

Q == INSTANCE Stride WITH Task <- Tid, InitProc <- 1, Stayers <- {},
                          Priorities <- {}

tcbs  == <<task_stride, task_priority, task_begin_time>>
svars == <<vars, ready_queue, current, tcbs>>

\* What Sync keeps beside the statuses.
rest == <<prims, ledgers, spinning, timers, history,
          is_enable_deadlock_detect, ret>>

-----------------------------------------------------------------------------
(* The steps *)

\* One turn of the loop of run_tasks.
Run(us) == ready_queue # << >> /\ Q!run_tasks(us) /\ UNCHANGED rest

\* The way of a syscall of t through the scheduler: wakeup_task(w) for the
\* thread w that a release or a signal takes from a wait queue, then, when
\* the call gives up the core, take_current_task and, for a caller that
\* stays Ready, add_task; schedule.
Through(t, w) ==
    LET woken == IF w = NoThread THEN ready_queue ELSE Q!add(ready_queue, w)
    IN  /\ ready_queue' = IF panicked' THEN ready_queue
                          ELSE IF task_status'[t] = "Ready" THEN Q!add(woken, t)
                          ELSE woken
        /\ current' = IF task_status'[t] = "Running" THEN current ELSE NoTask
        /\ UNCHANGED tcbs

Alone(t) == Through(t, NoThread)

\* check_timer, from the timer interrupt: wakeup_task(w).
Expire(w) ==
    /\ TimerExpire(w)
    /\ ready_queue' = Q!add(ready_queue, w)
    /\ UNCHANGED <<current, tcbs>>

\* The timer interrupt in user mode: suspend_current_and_run_next.
Preempt(t) == sys_yield(t) /\ Alone(t)

Spin(t) == SpinRetry(t) /\ Alone(t)

Unlock(t, m) ==
    CallMutexUnlock(t, m) /\ Through(t, WakingTid(mutex_list, m))

Syscall(t) ==
    \/ sys_sleep(t) /\ Alone(t)
    \/ \E b \in MutexKinds : sys_mutex_create(t, b) /\ Alone(t)
    \/ \E n \in SemCounts : sys_semaphore_create(t, n) /\ Alone(t)
    \/ sys_condvar_create(t) /\ Alone(t)
    \/ \E m \in MutexIds : CallMutexLock(t, m) /\ Alone(t)
    \/ \E m \in MutexIds : Unlock(t, m)
    \/ \E s \in SemIds : CallSemaphoreDown(t, s) /\ Alone(t)
    \/ \E s \in SemIds :
          CallSemaphoreUp(t, s) /\ Through(t, WakingTid(semaphore_list, s))
    \/ \E c \in CondvarIds :
          CallCondvarSignal(t, c) /\ Through(t, WakingTid(condvar_list, c))
    \/ \E c \in CondvarIds, m \in MutexIds :
          CallCondvarWait(t, c, m) /\ Through(t, WakingTid(mutex_list, m))
    \/ \E e \in 0..2 : CallEnableDeadlockDetect(t, e) /\ Alone(t)

-----------------------------------------------------------------------------
(* The specification *)

\* The main thread has been dispatched once and has created the others.
SInit ==
    /\ Init
    /\ ready_queue = [i \in 1..(NThreads - 1) |-> i + 1]
    /\ current = 1
    /\ task_priority = [t \in Tid |-> DefaultPriority]
    /\ task_stride = [t \in Tid |-> IF t = 1 THEN BigStride \div DefaultPriority
                                    ELSE 0]
    /\ task_begin_time = [t \in Tid |-> 0]

SNext ==
    \/ \E us \in Clock : Run(us)
    \/ \E t \in Tid : Preempt(t) \/ Spin(t) \/ Expire(t) \/ Syscall(t)

SSpec == SInit /\ [][SNext]_svars

\* The idle loop never stops fetching; the timer interrupt takes the core
\* from a thread in user mode and wakes the sleepers whose time has come; a
\* thread in the loop of MutexSpin::lock polls when it has the core.
KernelFairness ==
    /\ WF_svars(\E us \in Clock : Run(us))
    /\ \A t \in Tid : WF_svars(Preempt(t)) /\ WF_svars(Spin(t)) /\ WF_svars(Expire(t))

\* What is assumed of the program: a thread that holds a mutex, and has the
\* core again and again, unlocks it in the end.
ProgramsRelease == \A t \in Tid, m \in MutexIds : SF_svars(Unlock(t, m))

LiveSpec == SSpec /\ KernelFairness /\ ProgramsRelease

-----------------------------------------------------------------------------
(* Properties *)

\* A thread that a release, a signal or the timer wakes is queued once, and
\* a thread that blocks is in no queue: through every syscall of sync.rs the
\* ready queue holds the Ready threads, each once, and `current` is the
\* Running one.  wakeup_task must come once for every thread taken from a
\* wait queue, and the caller that blocks must not be added.
QueueHoldsTheReady == Q!QueueHoldsTheReady

\* Every step of a synchronisation syscall on the stride scheduler is a step
\* of the abstract scheduler of module Sched: only the running thread makes
\* others Ready, and only Blocked ones.
ImplementsSched == Q!ImplementsSched

WaitsFor(t, m) == m \in DOMAIN mutex_list /\ Waits(t, mutex_list[m]) > 0

RunsAsOwner(t, m) ==
    /\ m \in DOMAIN mutex_list
    /\ task_status[t] = "Running" /\ mutex_owner[m] = t

\* Deadlock avoidance (specification, section 8): with the detector on, no
\* thread blocks permanently.  A thread in the wait queue of a mutex comes
\* to run as its owner: sys_mutex_lock has refused every request that would
\* have closed a cycle, sys_mutex_unlock hands the mutex to the head of the
\* queue, wakeup_task queues that thread, and fetch comes to it.
NoLockerBlocksForEver ==
    \A t \in Tid, m \in MutexIds :
        (is_enable_deadlock_detect /\ WaitsFor(t, m))
            ~> RunsAsOwner(t, m)

\* t is Blocked in sys_sleep: it sits in no wait queue of a primitive.
Sleeps(t) ==
    /\ task_status[t] = "Blocked"
    /\ \A q \in DOMAIN WaitQueues : Waits(t, [wait_queue |-> WaitQueues[q]]) = 0

\* A thread that sleeps runs again: sys_sleep has handed the thread to the
\* timer before it blocked, check_timer passes it to wakeup_task, and fetch
\* comes to it, whatever the other thread locks, holds or waits for in the
\* meantime.
EverySleeperRuns ==
    \A t \in Tid : Sleeps(t) ~> (task_status[t] = "Running")

=============================================================================
