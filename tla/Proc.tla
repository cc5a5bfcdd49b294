-------------------------------- MODULE Proc --------------------------------
(***************************************************************************)
(* The process tree and the clock over the scheduler of module Stride:     *)
(* sys_waitpid, sys_getpid, sys_get_time, sys_task_info, sys_mmap and      *)
(* sys_munmap of os/src/syscall/process.rs, with the functions of          *)
(* os/src/task/processor.rs they call.                                     *)
(*                                                                         *)
(* A pid is the task it names.  Time is counted in milliseconds since      *)
(* power-on; the kernel keeps of it what `(s & 0xffff) * 1000 + ms` keeps, *)
(* the time modulo ClockModulus.  A usize is a number below StrideModulus. *)
(* TaskControlBlock::fork and spawn, exit_current_and_run_next and the     *)
(* memory set are in files outside the ones at hand: the children lists    *)
(* follow the specification (section 3), insert_framed_area and            *)
(* remove_framed_area answer as they please.                               *)
(***************************************************************************)
EXTENDS Stride

CONSTANTS
    ClockModulus,   \* 65536 s in ms: where the clock of the kernel wraps
    BootTime,       \* the time at which run_tasks starts
    MaxUptime,      \* bound: the time at which the model stops the clock
    PageSize,       \* PAGE_SIZE
    MmapArgs        \* the [start, len, port] programs pass to sys_mmap

ASSUME /\ ClockModulus \in 1..(StrideModulus - 1) /\ BootTime \in 0..MaxUptime
       /\ PageSize \in Nat \ {0}
       /\ MmapArgs \subseteq [start : Nat, len : Nat, port : Nat]

VARIABLES
    children,       \* per task: ProcessControlBlockInner.children
    uptime,         \* get_time_us(), in ms
    info_time,      \* per task: TaskInfo.time of its last sys_task_info
    ret             \* what the last call returned

tree  == <<children, uptime, info_time, ret>>
pvars == <<vars, tree>>

-----------------------------------------------------------------------------
(* The clock *)

\* `((us / 1_000_000) & 0xffff) * 1000 + ((us % 1_000_000) / 1000)`
Millis(ms) == ms % ClockModulus

Tick ==
    /\ ~panicked /\ uptime < MaxUptime
    /\ uptime' = uptime + 1
    /\ UNCHANGED <<vars, children, info_time, ret>>

\* run_tasks, stamping with the clock.
Dispatch == run_tasks(Millis(uptime)) /\ UNCHANGED tree

\* The call returns v and changes nothing else.
Return(v) == ret' = v /\ UNCHANGED <<vars, children, uptime, info_time>>

\* sys_getpid
sys_getpid(t) == InUser(t) /\ Return(t)

\* sys_get_time: the TimeVal goes to each piece of the user buffer with
\* copy_from_slice, which panics on a piece shorter than the TimeVal: split
\* says that the buffer crosses a page.
sys_get_time(t, split) ==
    /\ InUser(t)
    /\ \/ Fatal(split) /\ UNCHANGED tree
       \/ ~split /\ Return(0)

\* sys_task_info: `time: _now - current_begin_time()` in usize, then the
\* copy as in sys_get_time.
sys_task_info(t, split) ==
    LET elapsed  == Millis(uptime) - task_begin_time[t]
        overflow == OverflowChecks /\ elapsed < 0
    IN  /\ InUser(t)
        /\ \/ Fatal(overflow \/ split) /\ UNCHANGED tree
           \/ /\ ~overflow /\ ~split
              /\ info_time' = [info_time EXCEPT ![t] = elapsed % StrideModulus]
              /\ ret' = 0
              /\ UNCHANGED <<vars, children, uptime>>

-----------------------------------------------------------------------------
(* sys_mmap and sys_munmap *)

\* `va.page_offset() == 0 && _port & !0x7 == 0 && _port & 0x7 != 0`
MmapAccepts(arg) == arg.start % PageSize = 0 /\ arg.port \in 1..7

\* `_start + _len` does not fit a usize
EndOverflows(arg) == arg.start + arg.len >= StrideModulus

\* sys_mmap: the checks, the end of the area, insert_current_memory_set
\* (ok: it returned 0).
sys_mmap(t, arg, ok) ==
    LET overflow == OverflowChecks /\ MmapAccepts(arg) /\ EndOverflows(arg)
    IN  /\ InUser(t)
        /\ \/ Fatal(overflow) /\ UNCHANGED tree
           \/ ~overflow /\ Return(IF MmapAccepts(arg) /\ ok THEN 0 ELSE -1)

\* sys_munmap: no check; what remove_current_memory_set says.
sys_munmap(t, arg, ok) ==
    LET overflow == OverflowChecks /\ EndOverflows(arg)
    IN  /\ InUser(t)
        /\ \/ Fatal(overflow) /\ UNCHANGED tree
           \/ ~overflow /\ Return(IF ok THEN 0 ELSE -1)

-----------------------------------------------------------------------------
(* The process tree *)

\* The Arcs to task c: the children lists, the ready queue, the processor.
Holders(c) ==
    Len(SelectSeq(ready_queue, LAMBDA t : t = c))
    + FoldLeft(LAMBDA n, p : n + Len(SelectSeq(children[p], LAMBDA t : t = c)),
               0, SetToSeq(Task))
    + (IF current = c THEN 1 ELSE 0)

\* sys_fork and sys_spawn: the new task is pushed to the children of its
\* parent and its pid returned; -1 if spawn finds no file.
Create(t, child, found) ==
    /\ sys_spawn(t, child, found)
    /\ children' = IF found THEN [children EXCEPT ![t] = Append(@, child)]
                   ELSE children
    /\ info_time' = IF found THEN [info_time EXCEPT ![child] = 0] ELSE info_time
    /\ ret' = IF found THEN child ELSE -1
    /\ UNCHANGED uptime

\* sys_exit: exit_current_and_run_next gives the children to InitProc.
Exit(t) ==
    /\ sys_exit(t)
    /\ children' = [children EXCEPT ![InitProc] = @ \o children[t], ![t] = << >>]
    /\ UNCHANGED <<uptime, info_time, ret>>

\* (faulty) the child reaped stays in the list
KeepChild(list, idx) == list

\* `inner.children.remove(idx)`
RemoveChild(list, idx) == RemoveAt(list, idx)

\* sys_waitpid.  pids: the pids that match, every one for -1.  The exit
\* code it copies to the caller is data and left out.
sys_waitpid(t, pids) ==
    LET matching == {i \in DOMAIN children[t] : children[t][i] \in pids}
        zombies  == {i \in matching : task_status[children[t][i]] = "Zombie"}
        idx      == Min(zombies)
        child    == children[t][idx]
    IN  /\ InUser(t)
        /\ \/ matching = {} /\ Return(-1)
           \/ matching # {} /\ zombies = {} /\ Return(-2)
           \/ zombies # {} /\ Fatal(Holders(child) # 1) /\ UNCHANGED tree
           \/ /\ zombies # {} /\ Holders(child) = 1
              /\ children' = [children EXCEPT ![t] = RemoveChild(@, idx)]
              /\ task_status' = [task_status EXCEPT ![child] = "Absent"]
              /\ ret' = child
              /\ UNCHANGED <<ready_queue, current, tcbs, panicked,
                             uptime, info_time>>

-----------------------------------------------------------------------------
(* The specification *)

PInit ==
    /\ Init
    /\ children = [t \in Task |-> << >>]
    /\ uptime = BootTime
    /\ info_time = [t \in Task |-> 0]
    /\ ret = 0

\* The steps of Stride that leave the tree alone.
Schedule ==
    /\ \E t \in Task : \/ sys_yield(t)
                       \/ \E prio \in Priorities : sys_set_priority(t, prio)
                       \/ Wakeup(t)
                       \/ t \notin Stayers /\ Block(t)
    /\ UNCHANGED tree

PNext ==
    \/ Tick
    \/ Dispatch
    \/ Schedule
    \/ \E t \in Task :
        \/ sys_getpid(t)
        \/ \E split \in BOOLEAN : sys_get_time(t, split)
        \/ \E split \in BOOLEAN : sys_task_info(t, split)
        \/ \E arg \in MmapArgs, ok \in BOOLEAN : sys_mmap(t, arg, ok)
        \/ \E arg \in MmapArgs, ok \in BOOLEAN : sys_munmap(t, arg, ok)
        \/ \E child \in Task, found \in BOOLEAN : Create(t, child, found)
        \/ \E pids \in {Task} \cup {{p} : p \in Task} : sys_waitpid(t, pids)
    \/ \E t \in Task \ Stayers : Exit(t)

PSpec == PInit /\ [][PNext]_pvars

-----------------------------------------------------------------------------
(* Properties *)

ProcTypeOK ==
    /\ TypeOK
    /\ children \in [Task -> Seq(Task)]
    /\ uptime \in BootTime..MaxUptime
    /\ info_time \in [Task -> 0..(StrideModulus - 1)]
    /\ ret \in Task \cup {-2, -1, 0}

\* `assert_eq!(Arc::strong_count(&child), 1)` in sys_waitpid: when a child
\* is a zombie its parent holds the only reference to it.  Every path to
\* Zombie must have taken the task from the processor and left it out of
\* the ready queue, and exit must hand the children on without keeping them.
ZombieIsHeldByItsParentOnly ==
    \A t \in Task : task_status[t] = "Zombie" => Holders(t) = 1

\* The children lists are a tree over the tasks there are: a task other
\* than InitProc is the child of one task as long as it exists, and of none
\* once sys_waitpid has reaped it.  sys_waitpid must remove the child it
\* reaps and no other.
EveryTaskHasOneParent ==
    \A c \in Task \ {InitProc} :
        Cardinality({<<p, i>> \in Task \X (1..Cardinality(Task)) :
                        i \in DOMAIN children[p] /\ children[p][i] = c})
            = IF task_status[c] = "Absent" THEN 0 ELSE 1

\* TaskInfo.time is the time the task has been there since its first
\* dispatch (specification, section 3: "a dispatch timestamp (first-run
\* time)"): from one sys_task_info of a running task to its next the time
\* reported does not go back, and it is never more than the kernel has been
\* up.  run_tasks must stamp once, and `_now - begin` must not wrap.
ReportedTimeIsElapsed ==
    [][\A t \in Task :
          task_status[t] = "Running" /\ task_status'[t] = "Running" =>
              info_time[t] <= info_time'[t] /\ info_time'[t] <= uptime']_pvars

=============================================================================
