-------------------------------- MODULE Sync --------------------------------
(***************************************************************************)
(* The synchronisation syscalls of os/src/syscall/sync.rs for the threads  *)
(* of one process: the ledgers they keep, the primitives they drive and    *)
(* the thread states that result.                                          *)
(*                                                                         *)
(* The kernel runs on one core and is not preempted in kernel mode, so a   *)
(* syscall is one step up to the point where it gives up the CPU           *)
(* (block_current_and_run_next, suspend_current_and_run_next).  Which      *)
(* Ready thread runs next is left open here (Dispatch); module Stride      *)
(* models the choice.                                                      *)
(*                                                                         *)
(* Mutex, Semaphore and Condvar live in os/src/sync, the timer in          *)
(* os/src/timer.rs: they are modelled from the specification (section      *)
(* 4.3), the syscalls from the source.                                     *)
(***************************************************************************)
EXTENDS Ledger

CONSTANTS
    MutexKinds,      \* the values of `blocking` sys_mutex_create is given
    SemCounts,       \* the values of `res_count` sys_semaphore_create is given
    MaxMutex,        \* bound: mutexes created
    MaxSem,          \* bound: semaphores created
    MaxCondvar,      \* bound: condvars created
    MaxUnits,        \* bound: units a program piles up by releasing unpaired
    OverflowChecks,  \* the build traps on arithmetic overflow (debug profile)
    None,            \* Option::None, an empty slot of a list
    Discipline       \* the rules the user program keeps, see Rule

ASSUME /\ MutexKinds \subseteq BOOLEAN
       /\ SemCounts \subseteq Nat
       /\ {MaxMutex, MaxSem, MaxCondvar, MaxUnits} \subseteq Nat
       /\ OverflowChecks \in BOOLEAN
       /\ Discipline \subseteq {"valid_ids", "paired", "create_first", "quiet_toggle"}

NoThread      == 0          \* get_waking_tid() = -1
WouldDeadlock == -57005     \* -0xdead

VARIABLES
    mutex_list,        \* per mutex: [blocking, locked, wait_queue]
    semaphore_list,    \* per semaphore: [count, wait_queue, total]
    condvar_list,      \* per condvar: [wait_queue]
    mutex_ledger,      \* mutex_available, mutex_allocation, mutex_need
    semaphore_ledger,  \* semaphore_available, semaphore_allocation, semaphore_need
    is_enable_deadlock_detect,
    task_status,       \* per thread: "Ready", "Running", "Blocked"
    spinning,          \* per thread: the mutex whose MutexSpin::lock loop it is in, or 0
    timers,            \* the threads in the timer queue
    ret,               \* per thread: what its last syscall returns
    panicked,          \* the kernel has panicked
    mutex_owner,       \* history: per mutex, the thread lock() last let through
    semaphore_held     \* history: per thread and semaphore, units down() gave it

prims   == <<mutex_list, semaphore_list, condvar_list>>
ledgers == <<mutex_ledger, semaphore_ledger>>
tasks   == <<task_status, spinning, timers>>
history == <<mutex_owner, semaphore_held>>
vars    == <<prims, ledgers, tasks, history, is_enable_deadlock_detect, ret, panicked>>

-----------------------------------------------------------------------------
(* Threads *)

\* t is the current task and is in user mode, about to trap into a syscall.
InUser(t) == ~panicked /\ task_status[t] = "Running" /\ spinning[t] = 0

\* add_task(w), where w may be nobody
Woken(status, w) ==
    IF w = NoThread THEN status ELSE [status EXCEPT ![w] = "Ready"]

Returns(t, v) == ret' = [ret EXCEPT ![t] = v]

\* A Rust panic: out-of-range index, or overflow in a build that checks it.
\* The kernel stops; what it was writing is never looked at again.
Fatal(why) ==
    /\ why
    /\ panicked' = TRUE
    /\ UNCHANGED <<prims, ledgers, tasks, history, is_enable_deadlock_detect, ret>>

\* (faulty) the idle loop is handed a thread that is still blocked
DispatchBlocked(t) ==
    /\ ~panicked
    /\ \A u \in Tid : task_status[u] # "Running"
    /\ task_status[t] \in {"Ready", "Blocked"}
    /\ task_status' = [task_status EXCEPT ![t] = "Running"]
    /\ UNCHANGED <<prims, ledgers, spinning, timers, history,
                   is_enable_deadlock_detect, ret, panicked>>

\* run_tasks: the idle loop hands the CPU to a Ready thread.
Dispatch(t) ==
    /\ ~panicked
    /\ \A u \in Tid : task_status[u] # "Running"
    /\ task_status[t] = "Ready"
    /\ task_status' = [task_status EXCEPT ![t] = "Running"]
    /\ UNCHANGED <<prims, ledgers, spinning, timers, history,
                   is_enable_deadlock_detect, ret, panicked>>

\* suspend_current_and_run_next: back to the ready queue.  A timer interrupt
\* in user mode is the same step but for the return value.
sys_yield(t) ==
    /\ InUser(t)
    /\ task_status' = [task_status EXCEPT ![t] = "Ready"]
    /\ Returns(t, 0)
    /\ UNCHANGED <<prims, ledgers, spinning, timers, history,
                   is_enable_deadlock_detect, panicked>>

-----------------------------------------------------------------------------
(* The primitives *)

\* The thread a release will wake: the head of the wait queue.
get_waking_tid(p) ==
    IF p.wait_queue = << >> THEN NoThread ELSE Head(p.wait_queue)

\* get_waking_tid() of the primitive a handle names, if it names one.
WakingTid(list, id) ==
    IF id \in DOMAIN list THEN get_waking_tid(list[id]) ELSE NoThread

\* Mutex::lock.  Blocking: take the flag, or queue up and block.  Spin: take
\* the flag, or yield and poll again when next dispatched.
MutexLock(t, m) ==
    LET mutex == mutex_list[m] IN
    \/ /\ ~mutex.locked
       /\ mutex_list' = [mutex_list EXCEPT ![m].locked = TRUE]
       /\ mutex_owner' = [mutex_owner EXCEPT ![m] = t]
       /\ spinning' = [spinning EXCEPT ![t] = 0]
       /\ UNCHANGED task_status
    \/ /\ mutex.locked /\ mutex.blocking
       /\ mutex_list' = [mutex_list EXCEPT ![m].wait_queue = Append(@, t)]
       /\ task_status' = [task_status EXCEPT ![t] = "Blocked"]
       /\ UNCHANGED <<mutex_owner, spinning>>
    \/ /\ mutex.locked /\ ~mutex.blocking
       /\ spinning' = [spinning EXCEPT ![t] = m]
       /\ task_status' = [task_status EXCEPT ![t] = "Ready"]
       /\ UNCHANGED <<mutex_list, mutex_owner>>

\* Mutex::unlock: hand the flag to the first waiter, or clear it.
MutexUnlock(m) ==
    LET w == get_waking_tid(mutex_list[m]) IN
    /\ mutex_list' = [mutex_list EXCEPT ![m] =
            IF w = NoThread THEN [@ EXCEPT !.locked = FALSE]
                            ELSE [@ EXCEPT !.wait_queue = Tail(@)]]
    /\ mutex_owner' = [mutex_owner EXCEPT ![m] = w]

\* A thread in MutexSpin::lock is dispatched and polls the flag again.
SpinRetry(t) ==
    /\ ~panicked
    /\ task_status[t] = "Running"
    /\ spinning[t] # 0
    /\ MutexLock(t, spinning[t])
    /\ UNCHANGED <<semaphore_list, condvar_list, ledgers, timers, semaphore_held,
                   is_enable_deadlock_detect, ret, panicked>>

\* Semaphore::down: count -= 1; a negative count queues the caller.
SemDown(t, s) ==
    LET taken == semaphore_list[s].count > 0 IN
    /\ semaphore_list' = [semaphore_list EXCEPT
            ![s].count = @ - 1,
            ![s].wait_queue = IF taken THEN @ ELSE Append(@, t)]
    /\ task_status' = IF taken THEN task_status
                      ELSE [task_status EXCEPT ![t] = "Blocked"]
    /\ semaphore_held' = IF taken THEN [semaphore_held EXCEPT ![t][s] = @ + 1]
                         ELSE semaphore_held

\* Semaphore::up: count += 1; the first waiter, if any, is woken with the unit.
SemUp(t, s) ==
    LET w    == get_waking_tid(semaphore_list[s])
        back == [semaphore_held EXCEPT ![t][s] = IF @ > 0 THEN @ - 1 ELSE 0]
    IN  /\ semaphore_list' = [semaphore_list EXCEPT
                ![s].count = @ + 1,
                ![s].wait_queue = IF w = NoThread THEN @ ELSE Tail(@)]
        /\ task_status' = Woken(task_status, w)
        /\ semaphore_held' = IF w = NoThread THEN back
                             ELSE [back EXCEPT ![w][s] = @ + 1]

-----------------------------------------------------------------------------
(* The syscalls *)

\* `.iter().enumerate().find(|(_, item)| item.is_none())`: the slot a
\* create call takes, the first that is empty or else a new one at the end.
\* No call of sync.rs empties a slot.
Slot(list) == Min({i \in DOMAIN list : list[i] = None} \cup {Len(list) + 1})

\* `list[id] = item` for a slot there is, `list.push(item)` for a new one
Put(list, id, item) ==
    IF id \in DOMAIN list THEN [list EXCEPT ![id] = item] ELSE Append(list, item)

\* The column of the new resource: `insert(id, ..)` when the list had an
\* empty slot, `push(..)` when it grew.
Column(L, list, units) ==
    IF Slot(list) \in DOMAIN list THEN Insert(L, Slot(list), units)
    ELSE Extend(L, units)

sys_mutex_create(t, blocking) ==
    LET id == Slot(mutex_list) IN
    /\ InUser(t)
    /\ id <= MaxMutex
    /\ mutex_list' = Put(mutex_list, id,
            [blocking |-> blocking, locked |-> FALSE, wait_queue |-> << >>])
    /\ mutex_ledger' = Column(mutex_ledger, mutex_list, 1)
    /\ mutex_owner' = Put(mutex_owner, id, NoThread)
    /\ Returns(t, id - 1)
    /\ UNCHANGED <<semaphore_list, condvar_list, semaphore_ledger, tasks,
                   semaphore_held, is_enable_deadlock_detect, panicked>>

sys_semaphore_create(t, res_count) ==
    LET id == Slot(semaphore_list) IN
    /\ InUser(t)
    /\ id <= MaxSem
    /\ semaphore_list' = Put(semaphore_list, id,
            [count |-> res_count, wait_queue |-> << >>, total |-> res_count])
    /\ semaphore_ledger' = Column(semaphore_ledger, semaphore_list, res_count)
    /\ semaphore_held' = [u \in Tid |-> Put(semaphore_held[u], id, 0)]
    /\ Returns(t, id - 1)
    /\ UNCHANGED <<mutex_list, condvar_list, mutex_ledger, tasks, mutex_owner,
                   is_enable_deadlock_detect, panicked>>

sys_condvar_create(t) ==
    LET id == Slot(condvar_list) IN
    /\ InUser(t)
    /\ id <= MaxCondvar
    /\ condvar_list' = Put(condvar_list, id, [wait_queue |-> << >>])
    /\ Returns(t, id - 1)
    /\ UNCHANGED <<mutex_list, semaphore_list, ledgers, tasks, history,
                   is_enable_deadlock_detect, panicked>>

\* What lock/down do to the ledger before they call the primitive.  tnum is
\* what the code takes for the number of threads: the length of the list of
\* resources.
Acquire(L, t, r, tnum) ==
    LET contended == L.available[r] = 0
        asked     == Request(L, t, r)
        checked   == contended /\ is_enable_deadlock_detect
        after     == IF contended THEN asked ELSE Grant(L, t, r)
    IN  IF r \notin Resources(L) THEN [fatal |-> TRUE] ELSE
        [fatal   |-> \/ checked /\ ScanOutOfBounds(tnum)
                     \/ OverflowChecks /\ Wrapped(L, after)
                     \/ OverflowChecks /\ checked /\ ~ScanOutOfBounds(tnum)
                            /\ Scan(asked, tnum).ovf,
         refused |-> checked /\ ~ScanOutOfBounds(tnum) /\ ~ScanSafe(asked, tnum),
         rolled  |-> Withdraw(asked, t, r),
         ledger  |-> after]

\* What unlock/up do to the ledger before they call the primitive, w being
\* the primitive's get_waking_tid().
Relinquish(L, t, r, w) ==
    LET released == Release(L, t, r)
        after    == IF w = NoThread THEN released ELSE Transfer(released, w, r)
    IN  IF r \notin Resources(L) THEN [fatal |-> TRUE] ELSE
        [fatal  |-> OverflowChecks /\ (Wrapped(L, released) \/ Wrapped(released, after)),
         ledger |-> after]

sys_mutex_lock(t, m) ==
    LET out == Acquire(mutex_ledger, t, m, Len(mutex_list)) IN
    /\ InUser(t)
    /\ \/ Fatal(out.fatal)
       \/ /\ ~out.fatal /\ out.refused
          /\ mutex_ledger' = out.rolled
          /\ Returns(t, WouldDeadlock)
          /\ UNCHANGED <<prims, semaphore_ledger, tasks, history,
                         is_enable_deadlock_detect, panicked>>
       \/ /\ ~out.fatal /\ ~out.refused
          /\ mutex_ledger' = out.ledger
          /\ MutexLock(t, m)
          /\ Returns(t, 0)
          /\ UNCHANGED <<semaphore_list, condvar_list, semaphore_ledger, timers,
                         semaphore_held, is_enable_deadlock_detect, panicked>>

sys_mutex_unlock(t, m) ==
    LET out == Relinquish(mutex_ledger, t, m, WakingTid(mutex_list, m)) IN
    /\ InUser(t)
    /\ \/ Fatal(out.fatal)
       \/ /\ ~out.fatal
          /\ mutex_ledger' = out.ledger
          /\ MutexUnlock(m)
          /\ task_status' = Woken(task_status, get_waking_tid(mutex_list[m]))
          /\ Returns(t, 0)
          /\ UNCHANGED <<semaphore_list, condvar_list, semaphore_ledger, spinning,
                         timers, semaphore_held, is_enable_deadlock_detect, panicked>>

sys_semaphore_down(t, s) ==
    LET out == Acquire(semaphore_ledger, t, s, Len(semaphore_list)) IN
    /\ InUser(t)
    /\ \/ Fatal(out.fatal)
       \/ /\ ~out.fatal /\ out.refused
          /\ semaphore_ledger' = out.rolled
          /\ Returns(t, WouldDeadlock)
          /\ UNCHANGED <<prims, mutex_ledger, tasks, history,
                         is_enable_deadlock_detect, panicked>>
       \/ /\ ~out.fatal /\ ~out.refused
          /\ semaphore_ledger' = out.ledger
          /\ SemDown(t, s)
          /\ Returns(t, 0)
          /\ UNCHANGED <<mutex_list, condvar_list, mutex_ledger, spinning, timers,
                         mutex_owner, is_enable_deadlock_detect, panicked>>

sys_semaphore_up(t, s) ==
    LET out == Relinquish(semaphore_ledger, t, s, WakingTid(semaphore_list, s)) IN
    /\ InUser(t)
    /\ \/ Fatal(out.fatal)
       \/ /\ ~out.fatal
          /\ semaphore_ledger' = out.ledger
          /\ SemUp(t, s)
          /\ Returns(t, 0)
          /\ UNCHANGED <<mutex_list, condvar_list, mutex_ledger, spinning, timers,
                         mutex_owner, is_enable_deadlock_detect, panicked>>

\* Condvar::signal wakes the first waiter, if any.
sys_condvar_signal(t, c) ==
    /\ InUser(t)
    /\ \/ Fatal(c \notin DOMAIN condvar_list)
       \/ /\ c \in DOMAIN condvar_list
          /\ condvar_list' = [condvar_list EXCEPT ![c].wait_queue =
                                  IF @ = << >> THEN @ ELSE Tail(@)]
          /\ task_status' = Woken(task_status, get_waking_tid(condvar_list[c]))
          /\ Returns(t, 0)
          /\ UNCHANGED <<mutex_list, semaphore_list, ledgers, spinning, timers,
                         history, is_enable_deadlock_detect, panicked>>

\* Condvar::wait unlocks the mutex itself, not through sys_mutex_unlock, then
\* queues the caller on the condvar and blocks it.
sys_condvar_wait(t, c, m) ==
    /\ InUser(t)
    /\ \/ Fatal(c \notin DOMAIN condvar_list \/ m \notin DOMAIN mutex_list)
       \/ /\ c \in DOMAIN condvar_list /\ m \in DOMAIN mutex_list
          /\ MutexUnlock(m)
          /\ condvar_list' = [condvar_list EXCEPT ![c].wait_queue = Append(@, t)]
          /\ task_status' = [Woken(task_status, get_waking_tid(mutex_list[m]))
                                EXCEPT ![t] = "Blocked"]
          /\ Returns(t, 0)
          /\ UNCHANGED <<semaphore_list, ledgers, spinning, timers, semaphore_held,
                         is_enable_deadlock_detect, panicked>>

sys_enable_deadlock_detect(t, enabled) ==
    /\ InUser(t)
    /\ is_enable_deadlock_detect' =
            IF enabled \in {0, 1} THEN enabled = 1 ELSE is_enable_deadlock_detect
    /\ Returns(t, IF enabled \in {0, 1} THEN 0 ELSE -1)
    /\ UNCHANGED <<prims, ledgers, tasks, history, panicked>>

\* (faulty) sys_sleep without its add_timer
sys_sleep_untimed(t) ==
    /\ InUser(t)
    /\ task_status' = [task_status EXCEPT ![t] = "Blocked"]
    /\ Returns(t, 0)
    /\ UNCHANGED <<prims, ledgers, spinning, timers, history,
                   is_enable_deadlock_detect, panicked>>

\* (faulty) sys_sleep returns without block_current_and_run_next
sys_sleep_awake(t) ==
    /\ InUser(t)
    /\ timers' = timers \cup {t}
    /\ Returns(t, 0)
    /\ UNCHANGED <<prims, ledgers, task_status, spinning, history,
                   is_enable_deadlock_detect, panicked>>

\* add_timer, then block; the deadline is some time ahead.
sys_sleep(t) ==
    /\ InUser(t)
    /\ timers' = timers \cup {t}
    /\ task_status' = [task_status EXCEPT ![t] = "Blocked"]
    /\ Returns(t, 0)
    /\ UNCHANGED <<prims, ledgers, spinning, history,
                   is_enable_deadlock_detect, panicked>>

\* The timer queue finds w's deadline passed and makes it Ready.
TimerExpire(w) ==
    /\ ~panicked
    /\ w \in timers
    /\ timers' = timers \ {w}
    /\ task_status' = Woken(task_status, w)
    /\ UNCHANGED <<prims, ledgers, spinning, history,
                   is_enable_deadlock_detect, ret, panicked>>

-----------------------------------------------------------------------------
(* The user program *)

\* The syscalls are open to any thread with any argument.  What a program
\* does with them is a choice of rules:
\*   valid_ids     it passes only ids that a create returned;
\*   paired        it releases only what it holds, and waits on a condvar
\*                 only with a mutex it holds;
\*   create_first  it creates all its mutexes (semaphores) before it uses one;
\*   quiet_toggle  it switches the detector only while nothing is held or
\*                 waited for.
Rule(r) == r \in Discipline

Known(list, id) == Rule("valid_ids") => id \in DOMAIN list

AllCreated(list, max) == Rule("create_first") => Len(list) = max

\* The bound MaxUnits on the counters of column r.
InBounds(L, r) ==
    r \in Resources(L) =>
        /\ L.available[r] < MaxUnits
        /\ \A u \in Tid : /\ L.allocation[u][r] \in (1 - MaxUnits)..(MaxUnits - 1)
                          /\ L.need[u][r] \in (1 - MaxUnits)..(MaxUnits - 1)

Quiescent ==
    /\ \A m \in DOMAIN mutex_list : ~mutex_list[m].locked
    /\ \A s \in DOMAIN semaphore_list :
            semaphore_list[s].count = semaphore_list[s].total
    /\ \A t \in Tid : spinning[t] = 0

UsesMutex(t, m) ==
    /\ Known(mutex_list, m)
    /\ AllCreated(mutex_list, MaxMutex)
    /\ InBounds(mutex_ledger, m)

UsesSemaphore(t, s) ==
    /\ Known(semaphore_list, s)
    /\ AllCreated(semaphore_list, MaxSem)
    /\ InBounds(semaphore_ledger, s)
    /\ s \in DOMAIN semaphore_list => semaphore_list[s].count < MaxUnits

HoldsMutex(t, m) ==
    Rule("paired") => m \in DOMAIN mutex_list /\ mutex_owner[m] = t

HoldsSemaphore(t, s) ==
    Rule("paired") => s \in DOMAIN semaphore_list /\ semaphore_held[t][s] > 0

-----------------------------------------------------------------------------
(* The specification *)

\* A process whose threads exist and that has created nothing; the main
\* thread is running.
Init ==
    /\ mutex_list = << >> /\ semaphore_list = << >> /\ condvar_list = << >>
    /\ mutex_ledger = EmptyLedger /\ semaphore_ledger = EmptyLedger
    /\ is_enable_deadlock_detect = FALSE
    /\ task_status = [t \in Tid |-> IF t = 1 THEN "Running" ELSE "Ready"]
    /\ spinning = [t \in Tid |-> 0]
    /\ timers = {}
    /\ ret = [t \in Tid |-> 0]
    /\ panicked = FALSE
    /\ mutex_owner = << >>
    /\ semaphore_held = [t \in Tid |-> << >>]

\* The calls a program of the chosen discipline makes.
CallMutexLock(t, m) == UsesMutex(t, m) /\ sys_mutex_lock(t, m)

CallMutexUnlock(t, m) ==
    UsesMutex(t, m) /\ HoldsMutex(t, m) /\ sys_mutex_unlock(t, m)

CallSemaphoreDown(t, s) == UsesSemaphore(t, s) /\ sys_semaphore_down(t, s)

CallSemaphoreUp(t, s) ==
    UsesSemaphore(t, s) /\ HoldsSemaphore(t, s) /\ sys_semaphore_up(t, s)

CallCondvarSignal(t, c) ==
    MaxCondvar > 0 /\ Known(condvar_list, c) /\ sys_condvar_signal(t, c)

CallCondvarWait(t, c, m) ==
    /\ MaxCondvar > 0 /\ Known(condvar_list, c)
    /\ UsesMutex(t, m) /\ HoldsMutex(t, m)
    /\ sys_condvar_wait(t, c, m)

CallEnableDeadlockDetect(t, e) ==
    /\ Rule("quiet_toggle") => Quiescent
    /\ Rule("valid_ids") => e \in {0, 1}
    /\ sys_enable_deadlock_detect(t, e)

\* Ids range one past what can exist: the least invalid handle.
MutexIds   == 1..(MaxMutex + 1)
SemIds     == 1..(MaxSem + 1)
CondvarIds == 1..(MaxCondvar + 1)

Next ==
    \E t \in Tid :
        \/ Dispatch(t)
        \/ sys_yield(t)
        \/ SpinRetry(t)
        \/ TimerExpire(t)
        \/ sys_sleep(t)
        \/ \E b \in MutexKinds : sys_mutex_create(t, b)
        \/ \E n \in SemCounts : sys_semaphore_create(t, n)
        \/ sys_condvar_create(t)
        \/ \E m \in MutexIds : CallMutexLock(t, m)
        \/ \E m \in MutexIds : CallMutexUnlock(t, m)
        \/ \E s \in SemIds : CallSemaphoreDown(t, s)
        \/ \E s \in SemIds : CallSemaphoreUp(t, s)
        \/ \E c \in CondvarIds : CallCondvarSignal(t, c)
        \/ \E c \in CondvarIds, m \in MutexIds : CallCondvarWait(t, c, m)
        \/ \E e \in 0..2 : CallEnableDeadlockDetect(t, e)

Spec == Init /\ [][Next]_vars

-----------------------------------------------------------------------------
(* What the primitives say is held and waited for *)

Waits(t, p) == Cardinality({i \in DOMAIN p.wait_queue : p.wait_queue[i] = t})

MutexTruth ==
    LET M == DOMAIN mutex_list IN
    [available  |-> [m \in M |-> IF mutex_owner[m] = NoThread THEN 1 ELSE 0],
     allocation |-> [t \in Tid |-> [m \in M |-> IF mutex_owner[m] = t THEN 1 ELSE 0]],
     need       |-> [t \in Tid |-> [m \in M |->
                        Waits(t, mutex_list[m]) + IF spinning[t] = m THEN 1 ELSE 0]]]

SemaphoreTruth ==
    LET S == DOMAIN semaphore_list IN
    [available  |-> [s \in S |-> IF semaphore_list[s].count > 0
                                 THEN semaphore_list[s].count ELSE 0],
     allocation |-> [t \in Tid |-> [s \in S |-> semaphore_held[t][s]]],
     need       |-> [t \in Tid |-> [s \in S |-> Waits(t, semaphore_list[s])]]]

\* Both classes side by side: a thread may hold one kind and wait for the other.
Truth ==
    [available  |-> MutexTruth.available \o SemaphoreTruth.available,
     allocation |-> [t \in Tid |-> MutexTruth.allocation[t] \o SemaphoreTruth.allocation[t]],
     need       |-> [t \in Tid |-> MutexTruth.need[t] \o SemaphoreTruth.need[t]]]

ColumnSum(L, r) == L.available[r] + SumFunction([t \in Tid |-> L.allocation[t][r]])

-----------------------------------------------------------------------------
(* Properties *)

Status == {"Ready", "Running", "Blocked"}

LedgerType(L, n) ==
    /\ L.available \in [1..n -> Int]
    /\ L.allocation \in [Tid -> [1..n -> Int]]
    /\ L.need \in [Tid -> [1..n -> Int]]

\* The type invariant.  Its ledger clauses are the specification's "matrices
\* kept rectangular at all times": every create extends every row.
TypeOK ==
    /\ Len(mutex_list) <= MaxMutex
    /\ \A m \in DOMAIN mutex_list :
            /\ mutex_list[m].blocking \in BOOLEAN
            /\ mutex_list[m].locked \in BOOLEAN
            /\ mutex_list[m].wait_queue \in Seq(Tid)
    /\ Len(semaphore_list) <= MaxSem
    /\ \A s \in DOMAIN semaphore_list :
            /\ semaphore_list[s].count \in Int
            /\ semaphore_list[s].wait_queue \in Seq(Tid)
    /\ Len(condvar_list) <= MaxCondvar
    /\ \A c \in DOMAIN condvar_list : condvar_list[c].wait_queue \in Seq(Tid)
    /\ LedgerType(mutex_ledger, Len(mutex_list))
    /\ LedgerType(semaphore_ledger, Len(semaphore_list))
    /\ is_enable_deadlock_detect \in BOOLEAN
    /\ task_status \in [Tid -> Status]
    /\ spinning \in [Tid -> 0..MaxMutex]
    /\ timers \subseteq Tid
    /\ ret \in [Tid -> Int]
    /\ panicked \in BOOLEAN
    /\ mutex_owner \in [DOMAIN mutex_list -> Tid \cup {NoThread}]
    /\ semaphore_held \in [Tid -> [DOMAIN semaphore_list -> Nat]]

\* The ledgers say what the primitives did.  sys_mutex_lock and
\* sys_semaphore_down decide from available[id] whether the caller will wait,
\* then Mutex::lock / Semaphore::down decide again from their own state;
\* unlock/up move a unit to get_waking_tid() before the primitive wakes
\* anybody.  available must be the units the primitive has free, allocation
\* who it let through, need who sits in its wait queue.
LedgerAgreesWithPrimitives ==
    /\ mutex_ledger = MutexTruth
    /\ semaphore_ledger = SemaphoreTruth

\* Matrix invariant of the specification: for every resource,
\* available[r] + the allocation[t][r] of all threads is the number of its
\* units (1 for a mutex, res_count for a semaphore), none of the usize
\* counters having wrapped below zero.
MatrixInvariant ==
    /\ \A m \in DOMAIN mutex_list :
            /\ ColumnSum(mutex_ledger, m) = 1
            /\ \A t \in Tid : mutex_ledger.allocation[t][m] >= 0
    /\ \A s \in DOMAIN semaphore_list :
            /\ ColumnSum(semaphore_ledger, s) = semaphore_list[s].total
            /\ \A t \in Tid : semaphore_ledger.allocation[t][s] >= 0

\* Whatever the program does, every assignment to available[r] in
\* lock/unlock/down/up comes with the opposite one to an allocation[t][r]:
\* modulo 2^64 the column still adds up to the units of the resource.
ColumnsBalance ==
    /\ \A m \in DOMAIN mutex_list : ColumnSum(mutex_ledger, m) = 1
    /\ \A s \in DOMAIN semaphore_list :
            ColumnSum(semaphore_ledger, s) = semaphore_list[s].total

WaitQueues ==
    [m \in DOMAIN mutex_list |-> mutex_list[m].wait_queue]
        \o [s \in DOMAIN semaphore_list |-> semaphore_list[s].wait_queue]
        \o [c \in DOMAIN condvar_list |-> condvar_list[c].wait_queue]

\* No thread is lost and none is woken twice: a thread is Blocked exactly
\* when it sits once in one wait queue or in the timer queue.  Every
\* block_current_and_run_next in lock/down/wait/sleep is preceded by a
\* push, every pop in unlock/up/signal is followed by add_task.
BlockedIffQueued ==
    \A t \in Tid :
        LET places == SumFunction([q \in DOMAIN WaitQueues |-> Waits(t, [wait_queue |-> WaitQueues[q]])])
                        + IF t \in timers THEN 1 ELSE 0
        IN  places = IF task_status[t] = "Blocked" THEN 1 ELSE 0

\* Deadlock avoidance: while the detector is enabled no thread waits for a
\* unit that can never come back, i.e. the threads can still all finish in
\* some order (sys_mutex_lock and sys_semaphore_down return -0xdead instead
\* of letting the caller block into such a state).
NoDeadlock == is_enable_deadlock_detect => BankerSafe(Truth)

\* What the detector can promise with a ledger per class: among the
\* mutexes, and among the semaphores, the threads can still all finish in
\* some order.  The scan of sys_mutex_lock reads the mutex matrices only,
\* that of sys_semaphore_down the semaphore matrices only.
NoDeadlockWithinClass ==
    is_enable_deadlock_detect => BankerSafe(MutexTruth) /\ BankerSafe(SemaphoreTruth)

\* A request is refused only if letting the caller wait would deadlock:
\* when lock/down return -0xdead there is a resource such that the caller
\* waiting for it could never be served.
RefusedOnlyIfDeadlock ==
    [][\A t \in Tid :
          (ret'[t] = WouldDeadlock /\ ret[t] # WouldDeadlock) =>
              \E r \in Resources(Truth) : ~BankerSafe(Request(Truth, t, r))]_vars

\* A refusal is fully rolled back: the step at which a call comes to return
\* -0xdead leaves the ledgers, the primitives and the threads as they were
\* (the `need[tid][id] -= 1` before `return -0xdead` undoes the `+= 1`).
RefusalChangesNothing ==
    [][(\E t \in Tid : ret'[t] = WouldDeadlock /\ ret[t] # WouldDeadlock) =>
          UNCHANGED <<prims, ledgers, tasks, history>>]_vars

\* Unrecoverable conditions are not reachable by a program's syscalls:
\* section 7 of the specification makes every error local to the caller.
KernelNeverPanics == ~panicked

=============================================================================
