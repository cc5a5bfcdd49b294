# Rcore: a TLA+ model of the scheduler, the process tree, the file syscalls and the synchronisation syscalls

Rcore is a teaching kernel in Rust for one RISC-V core. The source files at
hand are the syscall layer and what it drives directly:

| file | lines | what it is |
|---|---|---|
| `os/src/syscall/sync.rs` | 293 | sleep, mutex, semaphore and condvar syscalls, the resource ledger and the deadlock detector |
| `os/src/task/manager.rs` | 60 | the ready queue with stride selection |
| `os/src/task/processor.rs` | 153 | the `current` slot, the dispatch loop `run_tasks`, accessors of the current task |
| `os/src/syscall/process.rs` | 188 | exit, yield, fork, exec, waitpid, spawn, set_priority, task_info, get_time, mmap, munmap |
| `os/src/syscall/fs.rs` | 123 | read, write, open, close, fstat, linkat, unlinkat |
| `os/src/fs/inode.rs` | 215 | `OSInode`, `OpenFlags`, `open_file`, link and unlink |
| `os/src/fs/stdio.rs` | 60 | `Stdin`, `Stdout` |
| `os/src/fs/mod.rs` | 49 | the `File` trait, `Stat`, `StatMode` |

The primitives themselves (`os/src/sync`), the task control block and the
suspend/block/exit paths (`os/src/task/{task,process,mod}.rs`), the timer, the
address spaces, the trap handler and easy-fs are outside these files. Where a
model needs them it follows `spec.md`, and the definition is marked
`spec_modelled` in `PROJECT.json`.

## 1. Inventory

### Components, their state and their operations

**Resource ledger and deadlock detector** (`sync.rs`). Per process and per
resource class (mutexes, semaphores): `available[r]`, `allocation[t][r]`,
`need[t][r]`, all `usize`, and the flag `is_enable_deadlock_detect`. The ledger
has no interface of its own: the syscalls assign to the matrices in place.
`sys_mutex_lock` and `sys_semaphore_down` increment `need` when nothing is
available and, if the flag is set, run the safety scan (`work`, `finish`, the
`while cnt != tnum` loop); on a `false` in `finish` they take the increment back
and return `-0xdead`. `sys_mutex_unlock` and `sys_semaphore_up` give the unit
back and, if the primitive reports a waking thread, move it to that thread.
The create calls take the first empty slot of the list and insert a column
there, or append to both.

**Synchronisation syscalls** (`sync.rs`). `sys_sleep`, `sys_mutex_create`,
`sys_mutex_lock`, `sys_mutex_unlock`, `sys_semaphore_create`, `sys_semaphore_up`,
`sys_semaphore_down`, `sys_condvar_create`, `sys_condvar_signal`,
`sys_condvar_wait`, `sys_enable_deadlock_detect`. State: `mutex_list`,
`semaphore_list`, `condvar_list` (vectors of optional primitives).

**Primitives** (outside the files; `spec.md` 4.3). Spin mutex (flag, polls with
yields, never reports a waking thread), blocking mutex (flag and wait queue),
semaphore (count and wait queue), condvar (wait queue; `wait` unlocks the mutex
it is given, `signal` wakes one waiter).

**Ready queue** (`manager.rs`). `ready_queue`; `add` pushes, `fetch` scans for
the least `task_stride` with `<` from `usize::MAX`, calls `update_stride` on
`ready_queue[res]` and removes it.

**Processor** (`processor.rs`). `current`; `run_tasks` loops: fetch, status
`Running`, stamp `task_begin_time` if it is 0, `current = Some(task)`, switch.
`take_current_task`, `current_task`, `schedule`, and accessors of the current
task (`set_current_priority`, `update_current_syscall_times`, begin time,
syscall times, memory-set insert/remove).

**Process syscalls** (`process.rs`). `sys_exit`, `sys_yield`, `sys_getpid`,
`sys_fork`, `sys_exec`, `sys_waitpid`, `sys_get_time`, `sys_task_info`,
`sys_set_priority`, `sys_mmap`, `sys_munmap`, `sys_spawn`. State: the
`children` list of each task, the statuses, `task_begin_time`, and the clock
the kernel derives from `get_time_us()`: `((us / 10^6) & 0xffff) * 1000 +
(us % 10^6) / 1000`, milliseconds that return to 0 every 65536 s.
`sys_waitpid` looks for a child that matches, answers -1 without one and -2
without a zombie among them, and otherwise removes the first zombie from the
list after `assert_eq!(Arc::strong_count(&child), 1)`.

**File syscalls** (`fs.rs`). `sys_write`, `sys_read`, `sys_open`, `sys_close`,
`sys_fstat`, `sys_linkat`, `sys_unlinkat`. State: `fd_table` of each task, a
vector of optional `Arc<dyn File>`; a fork copies the table, so that parent and
child share the objects behind it.

**Files** (`inode.rs`, `stdio.rs`, `mod.rs`). `OSInode`: `readable`,
`writable`, an `offset` that `read` and `write` advance, and the inode.
`OpenFlags` with `from_bits` and `read_write`; `open_file`, which creates with
CREATE, and clears an existing file with CREATE or TRUNC; `link_file`,
`unlink_file`. `Stdin::read` asserts a buffer of one byte and polls the console,
giving up the core between polls; `Stdin::write` and `Stdout::read` panic;
`Stdout::write` unwraps `from_utf8`. The `File` trait is what a descriptor
table holds: beside `read` and `write` it asks every file for its inode
number, its mode, and the place of its inode on the disk, from which
`get_nlink` counts the names; `sys_fstat` writes them to the program as a
`Stat`.

### How they interact

A syscall runs in kernel mode on the one core with interrupts off: it is atomic
up to the point where it gives the core away (`suspend_current_and_run_next`,
`block_current_and_run_next`, `exit_current_and_run_next`). Each of these takes
`current`, sets the status, possibly re-queues the task, and calls `schedule`,
which returns to the idle loop in `run_tasks`. Wakeups (`wakeup_task` from a
primitive's release or from the timer) call `add_task`. The sync syscalls update
the ledger *around* the call into the primitive: before it for lock/down, and
for unlock/up before it too, from what `get_waking_tid` predicts the primitive
will do.

The process syscalls work on the same queue and the same `current`: fork and
spawn `add_task` the child and push it to `children` of the caller; exit takes
the caller from the core as a Zombie and hands its children to `initproc`;
waitpid of the parent drops the last reference. `run_tasks` stamps what
`sys_task_info` later subtracts from the clock. The file syscalls meet the
process syscalls in fork (the table is copied), exit (it is dropped), exec and
spawn (`open_file`), and the scheduler in `Stdin::read`, the one file operation
that gives the core away in the middle: other tasks run between two polls of
the same read.

### What is hard

* The ledger is a second copy of what the primitives know; the two are updated
  by different code and must agree after every interleaving of lockers and
  releasers.
* The detector decides from the ledger: whatever makes the ledger wrong
  (spin mutexes, condvars, unpaired releases) makes its decisions wrong.
* The scan takes its thread count from the length of the resource list.
* All counters are `usize`: `-= 1` below zero panics or wraps, depending on the
  build.
* Strides wrap, and fetch compares them naively.
* `current`, the statuses and the ready queue are kept consistent by
  convention across six functions.
* `fetch` indexes the queue without a look at its length: that the idle loop
  survives rests on what `initproc` never does.
* A task is reference-counted, and `sys_waitpid` asserts the count: queue,
  processor and children lists must all have let go of a zombie, whatever the
  order of the forks, yields and exits of parent and child.
* The clock is 16 bits of seconds wide, 0 is both a time and "not stamped yet",
  and the elapsed time is an unchecked `usize` subtraction.
* An `OSInode` is shared by every descriptor a fork copied, and the file under
  it by every `OSInode` on it: an open with CREATE or TRUNC clears the file
  under offsets that other descriptors keep.
* A descriptor outlives the name it was opened by: the name is unlinked, and
  created again as another file, while `sys_fstat` and the offsets still speak
  of the old one.
* A syscall borrows the control block of its task, and the borrow must be
  given back before anything gives up the core: `Stdin::read` does so in the
  middle of `sys_read`.
* The kernel unwraps and asserts on what programs pass: flag words, buffer
  lengths, bytes, buffers across a page.

### What must hold

From `spec.md` section 8 and the comments of the code: the matrix invariant
(columns add up, nothing negative), mutual exclusion and FIFO wake-up, wake and
ledger move together, no deadlock while the detector is on and no refusal
without cause, a refusal changes nothing, fetch takes the least stride and the
earliest of equals, every Ready task runs in the end, no syscall argument is
fatal to the kernel, a zombie is referred to by its parent alone, the children
lists are a tree, the time `sys_task_info` reports is the time since the first
dispatch, an offset stays within its file.

## 2. Modules

| module | models | state | actions |
|---|---|---|---|
| `Ledger` | the matrices and the scan of `sync.rs`, as operators on a ledger value | none (operators) | `Extend`, `Request`, `Withdraw`, `Grant`, `Release`, `Transfer`; `Scan`, `ScanSafe`; `BankerSafe` as the reference |
| `Sync` | the eleven sync syscalls over the threads of one process | the three lists, the two ledgers, the flag, thread statuses, the timer set, return values, `panicked`; history: `mutex_owner`, `semaphore_held` | one per syscall, plus `Dispatch`, `sys_yield`, `SpinRetry`, `TimerExpire` |
| `Sched` | what a scheduler for one core promises | `status` | `Dispatch`, `Kernel`, `Wake` |
| `Stride` | `manager.rs`, the dispatch loop and `set_current_priority` of `processor.rs`, the process syscalls that touch them | `ready_queue`, `current`, per task status, stride, priority, begin time; `panicked` | `run_tasks`, `sys_yield`, `sys_set_priority`, `sys_fork`, `sys_spawn`, `sys_exit`, `Block`, `Wakeup` |
| `StrideHistory` | `Stride` with the stride each task has accumulated, unwrapped | + `accumulated` | `HNext` |
| `Proc` | `Stride` with the process tree and the clock: the remaining syscalls of `process.rs` | + `children`, `uptime`, `info_time`, `ret` | `Tick`, `Dispatch`, `Schedule`, `sys_getpid`, `sys_get_time`, `sys_task_info`, `sys_mmap`, `sys_munmap`, `Create`, `Exit`, `sys_waitpid` |
| `Fd` | `fs.rs`, `inode.rs`, `stdio.rs`, `sys_exec` | `fd_table`, `files`, `dir`, `size`, `reading`, `ret`, `st`, `panicked` | one per syscall, plus `StdinRetry`, `Fork`, `Exit` |
| `SyncStride` | `Sync` on the ready queue and the dispatch loop of `Stride`: the threads of one process as the tasks of the scheduler | the variables of `Sync` and `ready_queue`, `current`, per thread stride, priority, begin time | `Run`, `Preempt`, `Spin`, `Expire`, `Syscall` (one disjunct per syscall of `sync.rs`) |
| `MCSync`, `MCStride`, `MCLedger`, `MCProc`, `MCFd`, `MCSyncStride` | the instances TLC checks: sets of arguments too long for a `.cfg` | | |

### Correspondence with the code

`Ledger`. A ledger is a record `[available, allocation, need]`; rows are indexed
by thread `1..NThreads` (tid + 1), columns by resource id + 1. Each operator is
the group of assignments at the lines the map names. A `usize` is represented
by the integer of least magnitude congruent to it modulo 2^64, so a counter
that went below zero is a negative number: `ULt` is the unsigned comparison, and
`Wrapped` says that a step took a counter across zero, which is where a build
with overflow checks panics (`OverflowChecks = TRUE`) and another build carries
on with 2^64 - 1. `Scan` is the scan as written: `ScanThread` is the body of
`for i in 0..tnum`, `ScanPass` one turn of the `while`, `ScanFrom` the `while`.
`tnum` is a parameter because the code passes the wrong number.

`Sync`. A syscall is one action; lock, down, wait and sleep end in the thread
being `Blocked` or still `Running`, as the primitive decides. `Acquire` and
`Relinquish` are the ledger halves of lock/down and unlock/up, returning what
the handler needs: whether the call panics, whether it is refused, the ledger
after it. `Fatal` is a Rust panic: `panicked` becomes true and nothing is
enabled any more. A spinning thread is `Ready` with `spinning[t] = m`, and
`SpinRetry` is one poll. Which Ready thread gets the core is left open
(`Dispatch`): the properties hold under every scheduler, stride included.
The create calls are written with both branches of the code: `Slot` is the
first empty slot of the list or one past its end, `Put` the assignment or the
push, `Column` the `insert` or the `push` on the ledger. No call of `sync.rs`
empties a slot, so the first branch is never taken (section 3, further
observations).

What user programs do is a parameter. `Discipline` is a set of rules a program
keeps; each is a guard in the `Call...` wrappers of `Next`, never in the
handlers:

* `valid_ids`: only ids a create returned;
* `paired`: unlock only a mutex it owns, up only after its own down, wait with
  a mutex it owns;
* `create_first`: all creates before the first use;
* `quiet_toggle`: the detector is switched only while nothing is held.

`Stride`. `task_stride` is kept modulo `StrideModulus` (2^64 in the kernel) so
that a small modulus brings the wrap within reach; `BigStride` and
`DefaultPriority` scale with it. `FetchScan` is the loop of `fetch` as a fold
over the queue, `run_tasks(us)` one turn of the loop of `run_tasks` including
the fetch; `us` is the stamp the clock formula yields. `Stayers` are the tasks
that never block or exit: the stock `initproc` only forks, waits and yields.
`Init` is the kernel after `add_initproc`.

`Proc` extends `Stride` and conjoins to each of its actions what the call does
to the tree: `Create` is `sys_spawn` with the push to `children`, `Exit` is
`sys_exit` with the hand-over to `InitProc`, `Dispatch` is `run_tasks` with the
stamp taken from the clock, `Schedule` the steps that leave the tree alone. A
pid is the task. `uptime` is `get_time_us()` in milliseconds and `Tick` one
millisecond; `Millis` is the clock formula, which keeps the time modulo
`ClockModulus` (65,536,000 in the kernel); a `usize` is a number below
`StrideModulus`. `Holders(c)` counts what `Arc::strong_count` counts: the
occurrences of `c` in the ready queue, in the children lists and in `current`.
`sys_waitpid(t, pids)` takes the set of pids that match (`Task` for -1): its
four disjuncts are the two early returns, the failed assertion and the reaping.
`split` in `sys_get_time` and `sys_task_info` says that the user buffer crosses
a page, which is when `copy_from_slice` panics; `ok` in `sys_mmap` and
`sys_munmap` is what the memory set answers. `info_time` keeps the last
`TaskInfo.time` written for each task so that a property can compare two
calls.

`Fd`. A descriptor table is a sequence indexed from 1 (descriptor 0 of the
kernel is index 1) of `Stdin`, `Stdout`, `None` or a handle; `files[h]` is the
`OSInode` behind handle `h`, or `None` when the last `Arc` to it is gone
(`Drop`, what Rust does when a table slot is cleared or a table goes). A file
is its size: `dir` maps a name to an inode number, `size` is indexed by inode
number. `OpenFlags` is the set of bits that are set, `from_bits` whether
`OpenFlags::from_bits` is `Some`, `read_write` the three-way test of the code.
`open_file` returns the inode and the disk it leaves, or no inode where
`ROOT_INODE.create` finds none left (`MaxInode`); `sys_open` is the unwrap,
`open_file`, `alloc_fd` and the store. `link_file` and `unlink_file` are the
code, `RootLink` and `RootUnlink` what is assumed of easy-fs behind them: a
link under a name there is, and an unlink of a name there is not, are
refused. `InodeRead` and `InodeWrite` are the
loops of `OSInode::read` and `write` with `read_at`/`write_at` taken by their
contract. A task inside `Stdin::read` is in `reading` and makes no other call;
`StdinRetry` is its next poll. `drop_inner` is the `drop(inner)` of `sys_read`:
what is still borrowed of the control block when `File::read` runs, which
must be nothing, because `suspend_current_and_run_next` borrows it again
(`StdinPoll` panics otherwise). `Fork` and `Exit` stand for what
`TaskControlBlock::fork` and the exit path do to the table.

`File(entry)` is the trait object behind an entry of a table, a record of what
the getters of the trait answer: `StdinFile` and `StdoutFile` answer 0 and
`NULL` throughout, `InodeFile(h)` the inode of `files[h]`, the mode that
`get_mode` makes of the word easy-fs keeps (`FileMode`), and for
`get_block_id` and `get_block_offset` the place easy-fs gives the inode
(`Place`: `InodesPerBlock` inodes to a block, from block `InodeAreaStart` on).
`get_nlink(block_id, block_offset)` counts the names whose inode is at that
place (`NamesAt`); no file is at block 0, which the standard streams answer.
`sys_fstat` builds the `Stat` from them and leaves it in `st`; `ret` and `st`
are what a call hands back, and every other call resets `st` to `None`
(`Gives`). `dev` and `pad` of the `Stat` are constants and left out.

What programs pass is a parameter here too. With `Careful = TRUE` the
disjuncts of `Next` carry the rules a well-behaved program keeps (`Rule`): it
reads what is readable and writes what is writable, writes text to stdout,
reads stdin one byte at a time, passes flag words made of the four flags, and a
`Stat` within a page. With `Careful = FALSE` it passes anything.

`SyncStride` extends `Sync` and instantiates `Stride` with `Task <- Tid` on
the same `task_status` and `panicked`. `Dispatch` of `Sync`, which hands the
core to any Ready thread, gives way to `Run`, the turn of `run_tasks` that
fetches by stride. Every other step of `Sync` is conjoined with its way
through the scheduler (`Through`): the thread that `get_waking_tid` names, for
unlock, up, signal and the unlock inside wait, is added to the ready queue
(`wakeup_task`), then the caller is added if the call left it Ready (a yield,
or a poll of a spin mutex that failed), and `current` is emptied if the caller
left the core. A step that panics changes nothing. `Expire` is `check_timer`
with its `wakeup_task`, `Preempt` the timer interrupt in user mode. The other
tasks of the kernel are left out: they share the queue but nothing else with
the process, and `Run` waits while no thread of the process is queued, where
the kernel would be running `initproc` or the shell. `SInit` is the process
after its main thread has been dispatched once and has created the others.

`Sched` is the abstract machine: one task at most is `Running`; an idle core
may dispatch a Ready task; the running task may stay, leave as Ready, Blocked or
Zombie, and in the same step create or wake others; blocked tasks may be woken
while the core is idle. `Stride` implements it under the mapping
`status <- task_status` (`ImplementsSched`), and so does `SyncStride`.

## 3. Runs

Every run finishes within three minutes on two workers (`fd_files` is the
longest); there are twelve, ten that pass and two that show a disagreement
between the code and what is said of it.

### Passing

| run | spec and constants | properties | distinct states |
|---|---|---|---|
| `sync_paired` | 3 threads, 2 blocking mutexes, 1 semaphore of 1 or 2 units; rules `valid_ids`, `paired`; overflow checks on | `LedgerAgreesWithPrimitives`, `MatrixInvariant`, `BlockedIffQueued`, `KernelNeverPanics` | 105,444 |
| `sync_detect` | 2 threads, 2 blocking mutexes, 2 semaphores of 1 or 2 units; all four rules | `NoDeadlockWithinClass`, `RefusedOnlyIfDeadlock`, `RefusalChangesNothing` | 47,454 |
| `sync_any` | 2 threads, 1 spin mutex, 1 semaphore of 0, 1 condvar; no rule; overflow checks off | `TypeOK`, `ColumnsBalance`, `BlockedIffQueued` | 268,784 |
| `sync_stride` | `SSpec`; 2 threads, 1 mutex of either kind, 1 semaphore of 1, 1 condvar; all four rules; modulus 4 | `QueueHoldsTheReady`, `ImplementsSched` | 232,584 |
| `sync_live` | `LiveSpec`; 2 threads, 2 blocking mutexes; all four rules; modulus 8 | `NoLockerBlocksForEver`, `EverySleeperRuns` | 26,093 |
| `ledger_inputs` | every ledger of 3 threads and 2 resources, `available` up to 2, `allocation` and `need` up to 1 | `ScanDecidesSafety` | 36,864 |
| `stride_debug` | `HSpec`; 3 tasks, priorities 1, 2, 4 asked for, clock stamps 0 and 1, modulus 8; overflow checks on | `TypeOK`, `QueueHoldsTheReady`, `ImplementsSched`, `FetchesLeastStrideFirst` | 492,671 |
| `stride_live` | `FairSpec`; 3 tasks at the default priority, modulus 8; overflow checks off | `KernelNeverPanics`, `EveryReadyTaskRuns` | 18,977 |
| `proc_tree` | `PSpec`; 3 tasks at one priority, clock from 1 to 3 ms with a wrap at 4, five `sys_mmap` arguments; overflow checks on | `ProcTypeOK`, `ZombieIsHeldByItsParentOnly`, `EveryTaskHasOneParent`, `ReportedTimeIsElapsed` | 161,952 |
| `fd_files` | 2 tasks, 2 names (symmetric), 2 files of at most 1 byte, 2 `OSInode`s, tables of 4; `Careful` | `TypeOK`, `KernelNeverPanics`, `OffsetMovesWithinFile` | 224,592 |

What they show:

* `sync_paired`. For programs that release what they hold, on blocking mutexes
  and semaphores, the ledger is exactly what the primitives granted and queued:
  every hand-off in unlock/up moves the unit to the thread the primitive then
  wakes. No counter overflows, so the debug build does not panic.
* `sync_detect`. With as many resources of each class as threads (so that the
  scan's thread count happens to be right), the detector does what it says
  within a class, refuses only requests that would really deadlock, and a
  refusal leaves ledgers, primitives and threads untouched.
* `sync_any`. Whatever a program does, the matrices keep their shape and every
  column sums to its units modulo 2^64; no thread is lost or woken twice,
  through sleeps, condvars and spinning included. Invalid handles are passed
  here: the panics they cause are reached and are absorbing.
* `sync_stride`. The syscalls of `sync.rs` keep the scheduler's books: through
  every hand-off of a mutex or a semaphore, every signal, every expiry of a
  timer and every failed poll of a spin mutex, the ready queue holds the Ready
  threads of the process, each once, a Blocked thread is in no queue, and
  `current` is the Running one; and each step is a step of `Sched`, so that
  only Blocked threads are woken. A `sys_sleep` that armed the timer without
  blocking would have the expiry wake a thread that runs.
* `sync_live`. Deadlock avoidance as `spec.md` section 8 has it, "neither
  thread blocks permanently": with the detector on, a thread that waits in the
  queue of a blocking mutex comes to run as its owner. It takes the detector
  (which has refused every lock that would close a cycle, the second lock of
  one's own mutex included), the hand-off of `sys_mutex_unlock` to the head of
  the queue, `wakeup_task`, and a scheduler that comes to every queued thread
  through the wrap of the strides. There are as many mutexes as threads, so
  that the thread count of the scan is right. A thread that sleeps runs
  again, whatever the other thread holds or waits for: the timer was armed
  before the thread blocked, and the expiry queues it. This needs nothing of
  the program.
* `ledger_inputs`. The nested loops of the scan, given the right thread count,
  compute the Banker's safety predicate, on every ledger of the given size and
  not only on reachable ones.
* `stride_debug`. The queue holds each Ready task once, `current` is the one
  Running task, every step is a step of `Sched`, and the task dispatched is
  the earliest queued of those that have accumulated the least stride. In a
  build with overflow checks the kernel stops at the first stride overflow,
  which bounds the run.
* `stride_live`. With equal passes the naive comparison survives the wrap: the
  task whose stride wrapped runs until it has caught up, then the tie-break by
  queue position gives the others their turn. The `<=` variant of the
  comparison starves a task here. With an `initproc` that never blocks or
  exits, `fetch` never meets an empty queue, so the unchecked
  `ready_queue[res]` of `manager.rs:42` is not reached.
* `proc_tree`. Through every order of fork, spawn, yield, block, wake-up and
  exit of parents and children, a zombie is referred to by one children list
  and by nothing else, so the assertion of `sys_waitpid` (`process.rs:98`)
  holds whenever it is evaluated; every task there is has one parent, also after
  its parent exited, and none once it is reaped. Between two `sys_task_info` of
  a running task the time reported does not go back and never exceeds the
  uptime, as long as the clock has not wrapped and the stamp was not 0. The
  panics a program causes with a buffer across a page or an area whose end
  overflows are reached in this run and end the behaviour.
* `fd_files`. For programs that keep to the rules, no call panics; tables stay
  within `MaxFd` with `alloc_fd` reusing the first free slot; and no read or
  write takes an offset outside its file, also when the file was cleared by
  another open while a descriptor (of this task or, after a fork, shared with
  another) stood past the new end, and when a task is suspended in
  `Stdin::read` while the others go on. A read of stdin that finds no key
  gives up the core without a panic, `sys_read` having given back the borrow
  of the control block before. The run reaches a file whose last name is
  unlinked while a descriptor is open on it, the same name created again as a
  second file, and a third create refused by a full disk; no property is
  stated of the `Stat` that `sys_fstat` writes, the count of the names being
  easy-fs.

### Violations

| run | property | what the counter-example shows |
|---|---|---|
| `sync_tnum` | `NoDeadlock` | two threads, one mutex: the scan covers `mutex_list.len()` = 1 thread; the second thread locks the mutex it already holds, is never visited by the scan, and blocks on itself (`sync.rs:62`) |
| `sync_condvar` | `LedgerAgreesWithPrimitives` | `Condvar::wait` unlocks the mutex behind the ledger's back (`sync.rs:268`) |

Each is recorded as a finding in `PROJECT.json`.

### Further observations

The models reach these as well; each is one change of constants away from a
run above.

* `fs.rs:25`: `sys_write` and `sys_read` never ask `writable()` or
  `readable()`, so a write to descriptor 0 reaches `Stdin::write` and a read
  from descriptor 1 `Stdout::read`, which panic: with `Careful = FALSE` the
  first call of `fd_files` stops the kernel (`KernelNeverPanics` fails after
  one step). `spec.md` section 7 wants an error.
* `process.rs:136`: `_now - current_begin_time()` on a clock that returns to 0
  every 65536 s. A task dispatched at 2 ms that calls `sys_task_info` after
  the wrap is told `0 - 2` as a `usize` (`ReportedTimeIsElapsed` fails in
  `proc_tree` with `OverflowChecks = FALSE` and `MaxUptime = 5`, the wrap
  being at 4); a build with overflow checks panics there.
* `sync.rs:105`: with a spin mutex the detector does not keep a thread from
  waiting for ever. The ledger is stale after the first contended lock (see
  `sync.rs:116` below), a unit the owner holds counts as free, and the owner's
  second lock of it is let through and spins (in `sync_live` with
  `MutexKinds = {FALSE}`, `spinning[t] = m` does not lead to `RunsAsOwner(t, m)`).
* `sync.rs:186`, again: in `sync_live` with one semaphore of 0 added
  (`MaxSem = 1`), `NoLockerBlocksForEver` fails: thread 2 takes a mutex and
  blocks in `down`, outside the one row the scan looks at, and thread 1 waits
  for the mutex for ever.
* `sync.rs:268`: with a condvar added to `sync_live` (`MaxCondvar = 1`),
  `NoLockerBlocksForEver` fails as well: a thread that waits on a condvar
  nobody signals keeps its other mutex, and neither ledger knows of condvars.
* `inode.rs:208`: a write that the disk has no room for panics
  (`KernelNeverPanics` fails in `fd_files` without the rule `Fits`, after
  two writes of one byte).
* `sync.rs:77`, with a third thread: in `sync_live` with `NThreads = 3`,
  `MaxMutex = 2`, `BigStride = 0` and `MaxUnits = 4`, `NoLockerBlocksForEver`
  fails (5,881 states). Thread 3 locks a mutex it holds already and is queued
  behind itself: the scan covers `mutex_list.len()` = 2 threads and never sees
  its row. The cause is that of run `sync_tnum`.
* `sync.rs:186`: with fewer semaphores than threads a `down` that would be
  served is refused (`RefusedOnlyIfDeadlock` fails in `sync_detect` with
  `NThreads = 2`, `MaxSem = 1`, `MaxMutex = 0`).
* `sync.rs:77`: with more mutexes than threads the scan indexes a row that does
  not exist (`KernelNeverPanics` fails with `NThreads = 1`, `MaxMutex = 2`).
* `sync.rs:116`: a spin mutex never reports a waking thread, so the unit of a
  spinning thread never moves from `need` to `allocation`
  (`LedgerAgreesWithPrimitives` fails in `sync_paired` with
  `MutexKinds = {FALSE}`).
* `sync.rs:60`: an id no create returned panics (`KernelNeverPanics` fails
  without `valid_ids`); `spec.md` section 7 wants an error.
* `sync.rs:168`: `semaphore_allocation[tid][id] -= 1` in `sys_semaphore_up`
  goes below zero for a thread that signals without having done `down`
  (without `paired`, `KernelNeverPanics` fails in `sync_paired`, and
  `MatrixInvariant` with `OverflowChecks = FALSE`).
* `sync.rs:67`: the two ledgers are scanned apart, so a cycle through one
  mutex and one semaphore is safe in each (`NoDeadlock` fails in `sync_detect`
  where `NoDeadlockWithinClass` holds).
* `manager.rs:37`: once the stride of one task has wrapped, `<` on the raw
  counters prefers it, and with unequal passes another task stays Ready for
  ever (`EveryReadyTaskRuns` fails in `stride_live` with `Priorities = {2}`).
* `process.rs:147`: a priority above `BIG_STRIDE` gives pass 0, and the task
  keeps the least stride and the core (`EveryReadyTaskRuns` fails in
  `stride_live` with `Priorities = {8}`).
* `manager.rs:42`: `fetch` on an empty queue indexes `ready_queue[0]`
  (`KernelNeverPanics` fails in `stride_live` with `Stayers = {}`).
* `processor.rs:63`: a task first dispatched when the clock formula yields 0
  is stamped again at its next dispatch, and the time `sys_task_info` reports
  goes back (`ReportedTimeIsElapsed` fails in `proc_tree` with `BootTime = 0`).
* `fs.rs:25`: a descriptor opened RDONLY is written through, `sys_write` not
  consulting `writable()` (reached in `fd_files` with `Careful = FALSE`, where `Next` has no
  rule; no panic, the file grows).
* `fs.rs:58`, `stdio.rs:21`, `stdio.rs:55`, `fs.rs:102`, `process.rs:121`,
  `process.rs:139`, `process.rs:159`: an unknown flag bit, a read of stdin
  with a length other than 1, bytes that are no UTF-8, a `Stat`, `TimeVal` or
  `TaskInfo` buffer across a page, and an area whose end does not fit a
  `usize` (with overflow checks) each panic the kernel.
* `sync.rs:26-41`: the slot-reuse branch of the create calls is dead code, since
  nothing in the source sets a slot to `None`. It would overwrite a slot of the
  list and `insert` a column into each vector of the ledger: the ledger would
  grow where the list does not, and the counters of every later resource would
  move one column to the right of the resource they belong to.

## 4. Bounds

| constant | value | why it is enough |
|---|---|---|
| `NThreads` | 2 or 3 | a deadlock cycle needs 2; 3 gives a waiter queue of 2 and a scan of several passes |
| `MaxMutex`, `MaxSem` | 1 to 2 | equal to, less than and more than `NThreads` are the three cases of the thread-count mistake |
| `SemCounts` | {0}, {1, 2} | 0 is the signalling semaphore, 1 the binary one, 2 the first with two holders |
| `MaxUnits` | 2 or 3 | caps what unpaired releases pile up; a wrap below zero needs one step |
| `StrideModulus`, `BigStride` | 8, 4 | passes 4, 2, 1 (and 0); a wrap after two to eight dispatches |
| `StrideModulus` of `sync_stride` | 4 | one pass is 1: a thread's stride wraps at its fourth dispatch, which every thread reaches |
| `MaxMutex` of `sync_live` | 2 | as many as threads, so that the scan visits both; the two mutexes are what a cycle of two threads needs |
| `Clock` | {0, 1} | the sentinel and one other stamp |
| `MaxFree`, `MaxHeld` | 2, 1 | `need <= work` is decided for 0, 1 and 2 free units |
| `Task` of `Proc` | 3 | a parent, a child and a grandchild, or two siblings: re-parenting to `initproc` and a choice among zombies both happen |
| `BigStride` of `proc_tree` | 0 | at one priority stride selection is first-in first-out (`stride_live`); with pass 0 the strides stay 0 and the queue order decides, which is the same schedule in fewer states |
| `Priorities` of `proc_tree` | {1} | the refused call; the accepted ones are in `stride_debug` |
| `ClockModulus`, `StrideModulus` | 4, 8 | the clock wraps well before a `usize` does, as 65,536,000 before 2^64, so that a wrapped difference is told from a true one |
| `BootTime`, `MaxUptime` | 1, 3 | before the wrap the stamp is neither 0 nor ahead of the clock |
| `PageSize`, `MmapArgs` | 2, five records | one argument for each way through the checks of `sys_mmap`: accepted, start off the page, no permission bit, an unknown bit, an end past the `usize` |
| `Task` of `Fd` | 2 | a parent and the child that shares its `OSInode`s |
| `Name`, `MaxInode` | 2, 2 | a file created under either name, linked under the other and unlinked; a second file, created under a name the first has lost while a descriptor is open on the first, or beside it under the other name. Inode numbers are not given out again, and the disk has two: a third create finds none left and `sys_open` answers -1 |
| `MaxOpen` | 2 | two `OSInode`s on one file: the one that clears and the one whose offset is left past the end |
| `MaxSize`, `Lens` | 1, {0, 1} | an offset before, at and, after a clear, past the end; the empty buffer and one byte. `MaxSize` is the room the disk has: a write past it panics, and the programs of `fd_files` make none (rule `Fits`), so that a write through an offset past the end is an empty one here. With `MaxSize = 2`, where such a write has one byte and leaves a hole, the three properties hold as well (933,252 states, too long a run to keep) |
| `MaxFd`, `Closable` | 4, {4} | the three standard streams and one more slot in each of two tables; programs close what they opened, so that a slot is freed, reused by `alloc_fd`, and the table grows and stops at `MaxFd` (guard of `sys_open`). The second `OSInode` on a file is the one a child opens after it has closed the descriptor the fork gave it |
| `FileMode` | 2 | what easy-fs keeps for a regular file; `get_mode` makes `FILE` of it |
| `InodeAreaStart`, `InodesPerBlock` | 2, 2 | the two files are in different blocks, at offsets 1 and 0: a place is told by block and offset together, and neither is block 0 |
| `Flags` | six flag words | read-only, write-only, read-write, CREATE with and without WRONLY, TRUNC |

Threads and tasks are not declared symmetric: thread 1 starts running, and the
scan and the queue visit them in order. The names of `fd_files` are
(`SYMMETRY Names`): no call tells one name from another, `Init` has both
unused, and the run checks invariants and a property of single steps only.

## 5. Fairness

`stride_live` and `sync_live` use fairness. In `stride_live`:

* `WF_vars(\E us \in Clock : run_tasks(us))`: the idle loop is a `loop` with
  nothing else in it; whenever the core is idle and a task is queued the next
  turn dispatches.
* `WF_vars(sys_yield(t))` for every task: a running task gives up the core in
  the end. The trap handler (outside the files) calls
  `suspend_current_and_run_next` on every timer interrupt, which is the step
  `sys_yield` makes.

`sync_live` assumes the same of the kernel (`KernelFairness`): weak fairness
of `Run` and of `Preempt(t)` for the same reasons, of `Expire(t)` because the
timer interrupt runs `check_timer` and a deadline passes, and of `Spin(t)`
because a thread in the loop of `MutexSpin::lock` polls as soon as it has the
core. Of the program it assumes `ProgramsRelease`: strong fairness of
`Unlock(t, m)`, a thread that holds a mutex and has the core again and again
unlocks it in the end. It has to be strong: between two turns of the holder
the step is not enabled. Without it a thread may hold a mutex for ever and
`NoLockerBlocksForEver` fails, as it should. No fairness is assumed of lock,
sleep or the toggle of the detector. The wait queues of the primitives are
first-in first-out, so no fairness among waiters is needed.

In `Stride`, nothing is assumed of `Block`, `Wakeup`, `sys_exit` or the creation of tasks,
and nothing of what programs call: `Proc` and `Fd` have safety properties only.
That a zombie is reaped or that a read of stdin returns depends on a parent
that waits and on a key that is pressed, which no code here promises.

Deadlock of the model is checked where the system cannot stop: `stride_live`,
`ledger_inputs` and `fd_files` (the first task can always make a call). The
runs of `Sync` and of `SyncStride`, `stride_debug` and `proc_tree` say `CHECK_DEADLOCK FALSE`: a
process whose threads all wait, or a kernel that has panicked, has really
stopped.

## 6. Not modelled

* Page tables, `translated_byte_buffer`, `mem::transmute` of results to user
  memory, context switching, trap frames: machine state with no decisions.
  What is kept of a user buffer is whether it crosses a page.
* The contents of files, easy-fs blocks, `dev` and `pad` of `Stat`, and the
  fields of `TimeVal` and `TaskInfo` other than `time`. `list_apps` only
  prints.
* What easy-fs does with the inode of a file that has lost its last name
  (whether its blocks are freed under an open descriptor, whether its number
  is given out again): `Fd` keeps the file and never reuses a number.
* Exit codes: `sys_waitpid` copies the exit code of the child it reaps to the
  caller (`process.rs:103`); which code a task left decides nothing.
* Console I/O beyond whether a key is there.
* Expiry times of timers: a sleeping thread wakes at any later step.
* `update_current_syscall_times` and `current_syscall_times`
  (`processor.rs:112-123`): the dispatcher that passes the index
  (`os/src/syscall/mod.rs`) is not among the files, and the counters decide
  nothing.
* The memory set behind `sys_mmap` and `sys_munmap` (`os/src/mm`): the answer
  of `insert_framed_area` and `remove_framed_area` is left open.
* What `exec` and `spawn` do with the bytes of the file (`from_elf`).
* In `SyncStride`, the tasks of other processes and priorities other than the
  default: they change when a thread of the process is dispatched, which
  `Preempt` and the wrap of the strides already vary, and nothing else that
  the synchronisation syscalls read or write.
* Semaphores and condvars under fairness: with them `NoLockerBlocksForEver`
  depends on a thread count of the scan that is wrong for every number of
  semaphores but one, and on signals nobody has to send (section 3, further
  observations).

## 7. Plan

Done: `Ledger`, `Sync`, `Sched`, `Stride`, `StrideHistory`, `Proc`, `Fd`,
`SyncStride` and the runs above. Every operation of the eight files that
changes state and whose meaning the files themselves fix is an action of a
module.

What is left, and why it is left:

1. `SyncStride` under fairness with three threads and three mutexes, for a
   wait queue of two with the detector deciding rightly: the safety part is
   within reach, the liveness check is not (over twenty minutes). With two
   mutexes it fails for the reason of `sync_tnum` (section 3, further
   observations).
2. `Fd` over `Proc`, so that a descriptor table lives as long as its task:
   what `fork`, `exec` and the exit path do to the table is in
   `os/src/task/task.rs`, and the composition would check what `spec.md` says
   of it against itself.
3. The syscall counters, the memory set and `from_elf` (section 6): their
   code is outside the files.

Runs are kept few. As modules are added, a violation run that is one constant
away from a passing run gives its place to a run of the new module and moves to
the observations of section 3.
