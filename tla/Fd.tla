--------------------------------- MODULE Fd ---------------------------------
(***************************************************************************)
(* The file syscalls of os/src/syscall/fs.rs over the files of             *)
(* os/src/fs: the descriptor table of each task, the OSInode objects the   *)
(* tables share, Stdin and Stdout, and the directory of ROOT_INODE.        *)
(*                                                                         *)
(* A file is its size: what the bytes are is left out.  Of the Stat that   *)
(* sys_fstat writes, the inode number, the mode and the link count are     *)
(* kept (dev and pad are 0).  A descriptor is an index from 1 (descriptor  *)
(* 0 of the kernel is 1 here); sys_open returns it that way.  OpenFlags    *)
(* is the set of the bits that are set.  easy-fs (find, create, clear,     *)
(* link, unlink, read_at, write_at), alloc_fd, translated_byte_buffer and  *)
(* the fork and exit of a task are outside the files at hand and follow    *)
(* their usual contract; link and unlink are taken to add and remove one   *)
(* name of the directory.                                                  *)
(***************************************************************************)
EXTENDS Integers, Sequences, FiniteSets, FiniteSetsExt, Functions, TLC

CONSTANTS
    Task,       \* the tasks there can be
    InitProc,   \* the task that exists at boot
    Name,       \* the paths programs use
    None,       \* Option::None, in a descriptor table and for a free OSInode
    Stdin, Stdout,
    MaxFd,      \* bound: the longest descriptor table
    Closable,   \* the descriptors programs pass to sys_close
    MaxOpen,    \* bound: the OSInodes alive at once
    MaxInode,   \* bound: the inodes ever created
    MaxSize,    \* bound: the largest file the disk has room for
    Lens,       \* the buffer lengths programs pass
    Flags,      \* the flag words programs pass to sys_open
    FileMode,   \* what Inode::get_mode of easy-fs answers for a file
    InodeAreaStart, InodesPerBlock,  \* easy-fs: where the inodes are
    Careful     \* programs keep to the rules of Next

WRONLY == 0
RDWR   == 1
CREATE == 9
TRUNC  == 10
KnownBits == {WRONLY, RDWR, CREATE, TRUNC}

Handle == 1..MaxOpen

ASSUME /\ InitProc \in Task /\ MaxFd >= 3 /\ Lens \subseteq Nat
       /\ Closable \subseteq 1..MaxFd
       /\ Flags \subseteq SUBSET (0..31) /\ Careful \in BOOLEAN
       /\ FileMode \in Nat
       /\ InodeAreaStart \in Nat \ {0} /\ InodesPerBlock \in Nat \ {0}

VARIABLES
    fd_table,   \* per live task: its descriptor table
    files,      \* per handle: the OSInode behind it, or None
    dir,        \* per name: the inode number ROOT_INODE.find gives, 0 for none
    size,       \* per inode created: the size of the file
    reading,    \* the tasks suspended inside Stdin::read
    ret,        \* what the last call returned
    st,         \* the Stat the last call wrote for the program, or None
    panicked    \* the kernel has panicked

disk == <<dir, size>>
out  == <<ret, st>>
vars == <<fd_table, files, disk, reading, out, panicked>>

-----------------------------------------------------------------------------
(* OpenFlags and open_file *)

\* OpenFlags::from_bits is Some: no bit outside the five flags
from_bits(flags) == flags \subseteq KnownBits

\* OpenFlags::read_write: <<readable, writable>>
read_write(flags) ==
    IF flags = {} THEN <<TRUE, FALSE>>
    ELSE IF WRONLY \in flags THEN <<FALSE, TRUE>>
    ELSE <<TRUE, TRUE>>

\* open_file: the inode found or created (0 for None) and the disk it
\* leaves.  CREATE clears a file that exists, TRUNC one that is found;
\* ROOT_INODE.create gives None on a disk with no inode left.
open_file(name, flags) ==
    IF dir[name] # 0
    THEN [inode |-> dir[name], dir |-> dir,
          size  |-> IF flags \cap {CREATE, TRUNC} # {}
                    THEN [size EXCEPT ![dir[name]] = 0] ELSE size]
    ELSE IF CREATE \in flags /\ Len(size) < MaxInode
    THEN [inode |-> Len(size) + 1, size |-> Append(size, 0),
          dir   |-> [dir EXCEPT ![name] = Len(size) + 1]]
    ELSE [inode |-> 0, dir |-> dir, size |-> size]

\* OSInode::new
OSInode(rw, inode) ==
    [readable |-> rw[1], writable |-> rw[2], offset |-> 0, inode |-> inode]

-----------------------------------------------------------------------------
(* Descriptor tables *)

\* `fd < fd_table.len()` and the slot is Some
IsOpen(t, fd) ==
    t \in DOMAIN fd_table /\ fd \in DOMAIN fd_table[t] /\ fd_table[t][fd] # None

\* alloc_fd: the first empty slot, or a new one at the end
alloc_fd(table) ==
    Min({fd \in DOMAIN table : table[fd] = None} \cup {Len(table) + 1})

\* (faulty) the file is pushed whatever alloc_fd gave
InstallAtEnd(table, fd, file) == Append(table, file)

\* `fd_table[fd] = Some(file)`
Install(table, fd, file) ==
    IF fd > Len(table) THEN Append(table, file) ELSE [table EXCEPT ![fd] = file]

\* What is left of `files` when the tables are `tables`: an OSInode is
\* dropped with the last Arc to it.
Drop(tables) ==
    [h \in Handle |->
        IF \E t \in DOMAIN tables : h \in Range(tables[t]) THEN files[h] ELSE None]

\* The three kinds of file answer the questions of the File trait: whether
\* they are readable and writable, their inode number, their mode, and the
\* place of the inode on the disk.  Stdin and Stdout have no inode and
\* answer 0 throughout.
StatMode == {"NULL", "DIR", "FILE"}

\* easy-fs: inode ino is the (ino % InodesPerBlock)-th of its block.
Place(ino) ==
    [block_id     |-> InodeAreaStart + ino \div InodesPerBlock,
     block_offset |-> ino % InodesPerBlock]

StdinFile  == [readable |-> TRUE, writable |-> FALSE, ino |-> 0,
               mode |-> "NULL", block_id |-> 0, block_offset |-> 0]

StdoutFile == [readable |-> FALSE, writable |-> TRUE, ino |-> 0,
               mode |-> "NULL", block_id |-> 0, block_offset |-> 0]

\* OSInode::get_mode, from the word Inode::get_mode gives
get_mode(word) == IF word = 0 THEN "NULL" ELSE IF word = 1 THEN "DIR" ELSE "FILE"

\* impl File for OSInode
InodeFile(h) ==
    [readable |-> files[h].readable, writable |-> files[h].writable,
     ino |-> files[h].inode, mode |-> get_mode(FileMode)] @@ Place(files[h].inode)

\* dyn File: the object behind an entry of a descriptor table
File(entry) ==
    IF entry = Stdin THEN StdinFile
    ELSE IF entry = Stdout THEN StdoutFile ELSE InodeFile(entry)

\* easy-fs, Inode::get_nlink of the root: the names whose inode is there.
NamesAt(block_id, block_offset) ==
    {n \in Name :
        dir[n] # 0 /\ Place(dir[n]) = [block_id |-> block_id,
                                       block_offset |-> block_offset]}

\* get_nlink: what ROOT_INODE says
get_nlink(block_id, block_offset) == Cardinality(NamesAt(block_id, block_offset))

Stat == [ino : 0..MaxInode, mode : StatMode, nlink : 0..Cardinality(Name)]

\* t is in user mode and makes a call.
Calls(t) == ~panicked /\ t \in DOMAIN fd_table /\ t \notin reading

\* A Rust panic; nothing runs after it.
Panic == panicked' = TRUE /\ UNCHANGED <<fd_table, files, disk, reading, out>>

\* The call returns v; it writes no Stat.
Gives(v) == ret' = v /\ st' = None

\* The call returns v and has changed nothing.
Return(v) == Gives(v) /\ UNCHANGED <<fd_table, files, disk, reading, panicked>>

-----------------------------------------------------------------------------
(* File::read and File::write *)

\* (faulty) the loop takes every slice for read in full
InodeReadAll(h, len) ==
    /\ files' = [files EXCEPT ![h].offset = @ + len]
    /\ Gives(len)
    /\ UNCHANGED <<fd_table, disk, reading, panicked>>

\* OSInode::read: read_at gives what the file holds from the offset on,
\* nothing when the offset is at or past the end.
InodeRead(h, len) ==
    LET n == Min({len, Max({0, size[files[h].inode] - files[h].offset})})
    IN  /\ files' = [files EXCEPT ![h].offset = @ + n]
        /\ Gives(n)
        /\ UNCHANGED <<fd_table, disk, reading, panicked>>

\* OSInode::write: write_at grows the file to hold the slice; no slice,
\* no write_at.  On a disk with no room for the slice write_at writes less,
\* and `assert_eq!(write_size, slice.len())` panics.
InodeWrite(h, len) ==
    LET end == files[h].offset + len
    IN  \/ end > MaxSize /\ Panic
        \/ /\ end <= MaxSize
           /\ files' = [files EXCEPT ![h].offset = end]
           /\ size' = IF len = 0 THEN size
                      ELSE [size EXCEPT ![files[h].inode] = Max({@, end})]
           /\ Gives(len)
           /\ UNCHANGED <<fd_table, dir, reading, panicked>>

\* (faulty) the TCB stays borrowed while File::read runs
keep_inner(inner) == inner

\* `drop(inner)`: the borrow of the TCB, taken at the top of the call, is
\* given back before File::read runs.
drop_inner(inner) == {}

\* The loop of Stdin::read: with no key the task gives up the core and
\* asks again when it has it back.  suspend_current_and_run_next borrows
\* the TCB of the task, and a cell that is borrowed panics (held: the tasks
\* whose TCB the call has not given back).
StdinPoll(t, key, held) ==
    IF ~key /\ t \in held THEN Panic
    ELSE /\ reading' = IF key THEN reading \ {t} ELSE reading \cup {t}
         /\ IF key THEN Gives(1) ELSE UNCHANGED out
         /\ UNCHANGED <<fd_table, files, disk, panicked>>

\* Stdin::read: `assert_eq!(user_buf.len(), 1)`, then the loop
StdinRead(t, len, key, held) ==
    IF len = 1 THEN StdinPoll(t, key, held) ELSE Panic

\* Stdout::write: print!(from_utf8(piece).unwrap()) for each piece of the
\* buffer (utf8: each is UTF-8).
StdoutWrite(len, utf8) == IF utf8 THEN Return(len) ELSE Panic

\* Stdin::write and Stdout::read
StdinWrite == Panic
StdoutRead == Panic

StdinRetry(t, key) == ~panicked /\ t \in reading /\ StdinPoll(t, key, {})

-----------------------------------------------------------------------------
(* The syscalls *)

\* sys_write: no look at writable(); Stdin::write panics.
sys_write(t, fd, len, utf8) ==
    LET file == fd_table[t][fd]
    IN  /\ Calls(t)
        /\ \/ ~IsOpen(t, fd) /\ Return(-1)
           \/ IsOpen(t, fd) /\ file = Stdin /\ StdinWrite
           \/ IsOpen(t, fd) /\ file = Stdout /\ StdoutWrite(len, utf8)
           \/ IsOpen(t, fd) /\ file \in Handle /\ InodeWrite(file, len)

\* sys_read: no look at readable(); Stdout::read panics.
sys_read(t, fd, len, key) ==
    LET file == fd_table[t][fd]
        held == drop_inner({t})
    IN  /\ Calls(t)
        /\ \/ ~IsOpen(t, fd) /\ Return(-1)
           \/ IsOpen(t, fd) /\ file = Stdout /\ StdoutRead
           \/ IsOpen(t, fd) /\ file = Stdin /\ StdinRead(t, len, key, held)
           \/ IsOpen(t, fd) /\ file \in Handle /\ InodeRead(file, len)

\* sys_open: from_bits(flags).unwrap(), open_file, alloc_fd.
sys_open(t, name, flags) ==
    LET found == open_file(name, flags)
        fd    == alloc_fd(fd_table[t])
        free  == {h \in Handle : files[h] = None}
    IN  /\ Calls(t)
        /\ \/ ~from_bits(flags) /\ Panic
           \/ from_bits(flags) /\ found.inode = 0 /\ Return(-1)
           \/ /\ from_bits(flags) /\ found.inode # 0
              /\ fd <= MaxFd /\ free # {}
              /\ files' = [files EXCEPT
                              ![Min(free)] = OSInode(read_write(flags), found.inode)]
              /\ fd_table' = [fd_table EXCEPT ![t] = Install(@, fd, Min(free))]
              /\ dir' = found.dir /\ size' = found.size
              /\ Gives(fd)
              /\ UNCHANGED <<reading, panicked>>

\* sys_close
sys_close(t, fd) ==
    /\ Calls(t)
    /\ \/ ~IsOpen(t, fd) /\ Return(-1)
       \/ /\ IsOpen(t, fd)
          /\ fd_table' = [fd_table EXCEPT ![t][fd] = None]
          /\ files' = Drop(fd_table')
          /\ Gives(0)
          /\ UNCHANGED <<disk, reading, panicked>>

\* sys_fstat: the Stat goes to each piece of the user buffer with
\* copy_from_slice, which panics on a piece shorter than the Stat: split
\* says that the buffer crosses a page.
sys_fstat(t, fd, split) ==
    LET file == File(fd_table[t][fd])
    IN  /\ Calls(t)
        /\ \/ ~IsOpen(t, fd) /\ Return(-1)
           \/ IsOpen(t, fd) /\ split /\ Panic
           \/ /\ IsOpen(t, fd) /\ ~split
              /\ ret' = 0
              /\ st' = [ino |-> file.ino, mode |-> file.mode,
                        nlink |-> get_nlink(file.block_id, file.block_offset)]
              /\ UNCHANGED <<fd_table, files, disk, reading, panicked>>

\* easy-fs, Inode::link and Inode::unlink of the root: one name more for
\* the inode, refused for a name there is; one name less, refused for a
\* name there is not.  Each gives the directory it leaves and its answer.
RootLink(ino, new_name) ==
    IF dir[new_name] # 0 THEN <<dir, -1>>
    ELSE <<[dir EXCEPT ![new_name] = ino], 0>>

RootUnlink(name) ==
    IF dir[name] = 0 THEN <<dir, -1>> ELSE <<[dir EXCEPT ![name] = 0], 0>>

\* link_file: -1 without the old name, else what ROOT_INODE.link says
link_file(old_name, new_name) ==
    IF dir[old_name] = 0 THEN <<dir, -1>> ELSE RootLink(dir[old_name], new_name)

\* unlink_file: what ROOT_INODE.unlink says
unlink_file(name) == RootUnlink(name)

\* sys_linkat and sys_unlinkat
Relink(t, done) ==
    /\ Calls(t)
    /\ dir' = done[1] /\ Gives(done[2])
    /\ UNCHANGED <<fd_table, files, size, reading, panicked>>

sys_linkat(t, old_name, new_name) == Relink(t, link_file(old_name, new_name))

sys_unlinkat(t, name) == Relink(t, unlink_file(name))

\* sys_exec: open_file(path, RDONLY), read_all and exec, which keeps the
\* descriptor table; the OSInode is dropped at the return.
sys_exec(t, name) == Calls(t) /\ Return(IF dir[name] = 0 THEN -1 ELSE 0)

\* TaskControlBlock::fork: the child has the table of the parent, slot by
\* slot the same files.
Fork(t, child) ==
    /\ Calls(t) /\ child \notin DOMAIN fd_table
    /\ fd_table' = fd_table @@ (child :> fd_table[t])
    /\ UNCHANGED <<files, disk, reading, out, panicked>>

\* exit_current_and_run_next, then the parent's waitpid: the table goes.
Exit(t) ==
    /\ Calls(t) /\ t # InitProc
    /\ fd_table' = Restrict(fd_table, DOMAIN fd_table \ {t})
    /\ files' = Drop(fd_table')
    /\ UNCHANGED <<disk, reading, out, panicked>>

-----------------------------------------------------------------------------
(* The specification *)

\* TaskControlBlock::new: 0 is stdin, 1 stdout, 2 stderr.  An empty disk.
Init ==
    /\ fd_table = (InitProc :> <<Stdin, Stdout, Stdout>>)
    /\ files = [h \in Handle |-> None]
    /\ dir = [n \in Name |-> 0]
    /\ size = << >>
    /\ reading = {}
    /\ ret = 0 /\ st = None
    /\ panicked = FALSE

\* What a program that keeps to the rules passes: a descriptor in its
\* direction, text for stdout, one byte for stdin, flags that exist, a Stat
\* within a page, no more bytes than the disk has room for.
Rule(kept) == Careful => kept

Can(t, fd, way) == IsOpen(t, fd) => File(fd_table[t][fd])[way]

\* The disk has room for len more bytes behind descriptor fd.
Fits(t, fd, len) ==
    LET file == fd_table[t][fd]
    IN  IsOpen(t, fd) /\ file \in Handle => files[file].offset + len <= MaxSize

Next ==
    \E t \in Task :
        \/ \E fd \in 1..MaxFd, len \in Lens, utf8 \in BOOLEAN :
              /\ Rule(Can(t, fd, "writable") /\ utf8 /\ Fits(t, fd, len))
              /\ sys_write(t, fd, len, utf8)
        \/ \E fd \in 1..MaxFd, len \in Lens, key \in BOOLEAN :
              /\ Rule(Can(t, fd, "readable"))
              /\ Rule(IsOpen(t, fd) /\ fd_table[t][fd] = Stdin => len = 1)
              /\ sys_read(t, fd, len, key)
        \/ \E key \in BOOLEAN : StdinRetry(t, key)
        \/ \E name \in Name, flags \in Flags :
              Rule(flags \subseteq KnownBits) /\ sys_open(t, name, flags)
        \/ \E fd \in Closable : sys_close(t, fd)
        \/ \E fd \in 1..MaxFd, split \in BOOLEAN :
              Rule(~split) /\ sys_fstat(t, fd, split)
        \/ \E old_name, new_name \in Name : sys_linkat(t, old_name, new_name)
        \/ \E name \in Name : sys_unlinkat(t, name) \/ sys_exec(t, name)
        \/ \E child \in Task : Fork(t, child)
        \/ Exit(t)

Spec == Init /\ [][Next]_vars

-----------------------------------------------------------------------------
(* Properties *)

OSInodes == [readable : BOOLEAN, writable : BOOLEAN,
             offset : 0..MaxSize, inode : 1..MaxInode]

TypeOK ==
    /\ DOMAIN fd_table \subseteq Task
    /\ \A t \in DOMAIN fd_table :
          /\ fd_table[t] \in Seq(Handle \cup {None, Stdin, Stdout})
          /\ Len(fd_table[t]) <= MaxFd
    /\ files \in [Handle -> OSInodes \cup {None}]
    /\ dir \in [Name -> 0..MaxInode]
    /\ size \in Seq(0..MaxSize)
    /\ reading \subseteq DOMAIN fd_table
    /\ ret \in Int
    /\ st = None \/ st \in Stat
    /\ panicked \in BOOLEAN

\* Section 7 of the specification: what a program passes to a call is
\* answered with an error, never with a panic of the kernel.  The rules
\* of Next are what sys_open (from_bits(..).unwrap()), Stdin::write,
\* Stdout::read, Stdout::write (from_utf8(..).unwrap()), Stdin::read (its
\* assert_eq) and sys_fstat (copy_from_slice) need of a program for that.
KernelNeverPanics == ~panicked

\* A descriptor keeps its place in its file: a step leaves the offset of an
\* OSInode where it was or moves it to a place within the file.  OSInode::read
\* adds what read_at gives, which must be nothing once open_file has cleared
\* the file under a descriptor whose offset is then past the end.
OffsetMovesWithinFile ==
    [][\A h \in Handle :
          files[h] # None /\ files'[h] # None =>
              \/ files'[h].offset = files[h].offset
              \/ files'[h].offset <= size'[files[h].inode]]_vars

=============================================================================
