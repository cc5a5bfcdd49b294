------------------------------- MODULE Ledger -------------------------------
(***************************************************************************)
(* The resource ledger and the deadlock detector of os/src/syscall/sync.rs *)
(* as operators on one ledger value.                                       *)
(*                                                                         *)
(* The kernel keeps two ledgers per process, one for mutexes               *)
(* (mutex_available, mutex_allocation, mutex_need) and one for semaphores  *)
(* (semaphore_available, ...).  The code for the two is the same text,     *)
(* twice, so one record [available, allocation, need] stands for either.   *)
(*                                                                         *)
(* Indices.  Rust vectors are 0-based, TLA+ sequences 1-based: thread      *)
(* index i here is tid i-1 there, resource index r is id r-1.  The loop    *)
(* `for i in 0..tnum` is therefore 1..tnum.                                *)
(*                                                                         *)
(* usize.  Every entry is a 64-bit unsigned counter.  A usize value v is   *)
(* represented by the integer of least magnitude congruent to v modulo     *)
(* 2^64: 0-1 is -1 (that is 2^64-1).  +, - are then the integer ones and   *)
(* the unsigned order is ULt.  A step that crosses between -1 and 0 is     *)
(* exactly a wrapping one.                                                 *)
(***************************************************************************)
EXTENDS Integers, Sequences, FiniteSets, SequencesExt

CONSTANT NThreads       \* threads of the process; their rows always exist

ASSUME NThreads \in Nat \ {0}

Tid == 1..NThreads

-----------------------------------------------------------------------------
(* usize arithmetic *)

\* a < b on usize
ULt(a, b) == IF (a < 0) = (b < 0) THEN a < b ELSE b < 0

\* a + b leaves the range of usize
AddOverflows(a, b) ==
    \/ a < 0 /\ b < 0
    \/ (a < 0) # (b < 0) /\ a + b >= 0

-----------------------------------------------------------------------------
(* Faulty variants of the ledger operations below: what each becomes when   *)
(* one of its assignments is left out.  Each is what a property of module  *)
(* Sync rules out.                                                          *)

\* the `for thread_need in &mut need` loop of create is missing
ExtendAllocationOnly(L, units) ==
    [L EXCEPT !.available = Append(@, units),
              !.allocation = [t \in DOMAIN @ |-> Append(@[t], 0)]]

\* the rollback before `return -0xdead` is missing
WithdrawNothing(L, t, r) == L

\* `available[id] -= 1` of the else branch is missing
GrantKeepsAvailable(L, t, r) == [L EXCEPT !.allocation[t][r] = @ + 1]

\* `allocation[tid][id] -= 1` of unlock/up is missing
ReleaseKeepsAllocation(L, t, r) == [L EXCEPT !.available[r] = @ + 1]

\* `need[waking_tid][id] -= 1` is missing
TransferKeepsNeed(L, w, r) ==
    [L EXCEPT !.available[r] = @ - 1, !.allocation[w][r] = @ + 1]

\* `allocation[waking_tid][id] += 1` is missing
TransferForgetsHolder(L, w, r) ==
    [L EXCEPT !.available[r] = @ - 1, !.need[w][r] = @ - 1]

-----------------------------------------------------------------------------
(* The matrices *)

\* A process that has its threads and no resource of this class yet.
EmptyLedger ==
    [available  |-> << >>,
     allocation |-> [t \in Tid |-> << >>],
     need       |-> [t \in Tid |-> << >>]]

Resources(L) == DOMAIN L.available

\* The push branch of sys_mutex_create / sys_semaphore_create: a new column.
Extend(L, units) ==
    [available  |-> Append(L.available, units),
     allocation |-> [t \in Tid |-> Append(L.allocation[t], 0)],
     need       |-> [t \in Tid |-> Append(L.need[t], 0)]]

\* The branch of the create calls that has found an empty slot r in the
\* list: `insert(id, ..)` puts a column before the one that is there.
Insert(L, r, units) ==
    [available  |-> InsertAt(L.available, r, units),
     allocation |-> [t \in Tid |-> InsertAt(L.allocation[t], r, 0)],
     need       |-> [t \in Tid |-> InsertAt(L.need[t], r, 0)]]

\* need[tid][id] += 1 : the caller is about to wait.
Request(L, t, r) == [L EXCEPT !.need[t][r] = @ + 1]

\* need[tid][id] -= 1 : the refused request is taken back.
Withdraw(L, t, r) == [L EXCEPT !.need[t][r] = @ - 1]

\* The else branch of lock/down: the unit is free and goes to the caller.
Grant(L, t, r) ==
    [L EXCEPT !.available[r] = @ - 1, !.allocation[t][r] = @ + 1]

\* The first two assignments of unlock/up.
Release(L, t, r) ==
    [L EXCEPT !.available[r] = @ + 1, !.allocation[t][r] = @ - 1]

\* The `waking_tid != -1` block of unlock/up: the unit goes on to w.
Transfer(L, w, r) ==
    [L EXCEPT !.available[r] = @ - 1,
              !.allocation[w][r] = @ + 1,
              !.need[w][r] = @ - 1]

\* Some counter went through the usize boundary between A and B, one being
\* the other after a run of +1/-1 assignments to distinct counters.
Wrapped(A, B) ==
    \E r \in Resources(A) :
        \/ (A.available[r] < 0) # (B.available[r] < 0)
        \/ \E t \in Tid : \/ (A.allocation[t][r] < 0) # (B.allocation[t][r] < 0)
                          \/ (A.need[t][r] < 0) # (B.need[t][r] < 0)

-----------------------------------------------------------------------------
(* The safety scan, as the code runs it *)

\* (faulty) `<=` for `<`: a need equal to what is free is not served
ExecutableStrict(L, work, i) ==
    \A j \in Resources(L) : ULt(L.need[i][j], work[j])

\* `is_executable`: no j with work[j] < need[i][j].
Executable(L, work, i) ==
    \A j \in Resources(L) : ~ULt(work[j], L.need[i][j])

\* (faulty) `work[j] += allocation[i][j]` is missing
ScanThreadKeepsWork(L, st, i) ==
    IF ~st.finish[i] /\ Executable(L, st.work, i)
    THEN [st EXCEPT !.finish[i] = TRUE]
    ELSE [st EXCEPT !.cnt = @ + 1]

\* One iteration of `for i in 0..tnum`.  st = [work, finish, cnt, ovf];
\* ovf records that a `work[j] += ...` wrapped.
ScanThread(L, st, i) ==
    IF ~st.finish[i] /\ Executable(L, st.work, i)
    THEN [work   |-> [j \in Resources(L) |-> st.work[j] + L.allocation[i][j]],
          finish |-> [st.finish EXCEPT ![i] = TRUE],
          cnt    |-> st.cnt,
          ovf    |-> st.ovf \/ \E j \in Resources(L) :
                                  AddOverflows(st.work[j], L.allocation[i][j])]
    ELSE [st EXCEPT !.cnt = @ + 1]

\* One pass of the while loop: cnt = 0, then every i in order.
ScanPass(L, st, tnum) ==
    FoldLeft(LAMBDA acc, i : ScanThread(L, acc, i),
             [st EXCEPT !.cnt = 0],
             [i \in 1..tnum |-> i])

\* `while cnt != tnum`, from work = available, finish = [false; tnum].
RECURSIVE ScanFrom(_, _, _)
ScanFrom(L, st, tnum) ==
    IF st.cnt = tnum THEN st ELSE ScanFrom(L, ScanPass(L, st, tnum), tnum)

Scan(L, tnum) ==
    ScanFrom(L, [work   |-> L.available,
                 finish |-> [i \in 1..tnum |-> FALSE],
                 cnt    |-> 0,
                 ovf    |-> FALSE], tnum)

\* The scan indexes need[i] for every i < tnum; a row exists for threads only.
ScanOutOfBounds(tnum) == tnum > NThreads

\* (faulty) refuses only when no thread at all can finish
ScanSafeAny(L, tnum) == \E i \in 1..tnum : Scan(L, tnum).finish[i]

\* `for f in finish`: no entry is false.
ScanSafe(L, tnum) == \A i \in 1..tnum : Scan(L, tnum).finish[i]

-----------------------------------------------------------------------------
(* The Banker's safety algorithm, as a reference *)

\* What is free once every thread of F has finished and given back its units.
WorkAfter(L, F) ==
    [j \in Resources(L) |->
        L.available[j] + SumFunctionOnSet([t \in Tid |-> L.allocation[t][j]], F)]

\* The threads that can finish in some order: the least set closed under
\* "its need is covered by what the finished ones leave free".
RECURSIVE FinishableFrom(_, _)
FinishableFrom(L, F) ==
    LET more == {t \in Tid \ F :
                    \A j \in Resources(L) : L.need[t][j] <= WorkAfter(L, F)[j]}
    IN  IF more = {} THEN F ELSE FinishableFrom(L, F \cup more)

Finishable(L) == FinishableFrom(L, {})

BankerSafe(L) == Finishable(L) = Tid

=============================================================================
