-------------------------------- MODULE Files --------------------------------
(***************************************************************************)
(* The file descriptor tables of kernel/vfs.c: one table per pid, made by  *)
(* the first open(), copied by fork(), and used by the kernel itself while *)
(* it reads a file of the disk or executes one. A user process can open,   *)
(* read and write, but has no system call to close or seek.                *)
(*                                                                         *)
(* A system call runs to its end with interrupts off, so each is one       *)
(* action. The open() and close() of the volume inside a read of the disk  *)
(* need a free entry and leave it free.                                    *)
(***************************************************************************)
EXTENDS Integers, FiniteSets, FiniteSetsExt

CONSTANTS
    Procs,      \* processes
    InitProc,   \* the one with pid 1; every other has pid 2
    FD_TABLE_SIZE, \* entries of a table (8)
    NTables,    \* bound: tables the kernel heap has room for
    OpenModes,  \* bound: the modes programs open files with
    Devices,    \* files of devfs and tmpfs
    Plain,      \* those of them that any read or write suits: /dev/tty, /file
    DiskFiles,  \* files of ext2
    Volume,     \* /dev/nvme5
    NoFile      \* the node of an entry never used

ASSUME FilesAssumption == /\ InitProc \in Procs
                          /\ FD_TABLE_SIZE \in Nat \ {0}
                          /\ NTables \in Nat \ {0}
                          /\ OpenModes \subseteq 0..3
                          /\ NoFile \notin Devices \cup DiskFiles
                          /\ Plain \subseteq Devices
                          /\ Volume \in Devices \ Plain

VARIABLES
    live,       \* processes
    fd_tables,  \* fd_tables[pid]: the number of its table, 0 if it has none
    tables,     \* the tables: tables[t][fd] is an entry
    made,       \* tables made so far
    panicked

filesVars == <<live, fd_tables, tables, made, panicked>>

Fds == 0..(FD_TABLE_SIZE - 1)
Pids == {1, 2}
Modes == 0..3       \* bit 0: open for reading, bit 1: for writing; 0: a free entry
Reads(mode) == mode % 2 = 1
Writes(mode) == mode \div 2 = 1
FileNodes == Devices \cup DiskFiles \cup {NoFile}
Entry == [node : FileNodes, mode : Modes]
Empty == [fd \in Fds |-> [node |-> NoFile, mode |-> 0]]

\* What a page that kmalloc() returns can hold: kmalloc() does not clear it.
Stale == {Empty, [fd \in Fds |-> [node |-> NoFile, mode |-> 1]]}

FilesTypeOK ==
    /\ live \in SUBSET Procs
    /\ fd_tables \in [Pids -> 0..made]
    /\ tables \in [1..NTables -> [Fds -> Entry]]
    /\ made \in 0..NTables
    /\ panicked \in BOOLEAN

Pid(p) == IF p = InitProc THEN 1 ELSE 2
Table(p) == tables[fd_tables[Pid(p)]]
Vacant(tab) == {fd \in Fds : tab[fd].mode = 0}

FirstVacant_First(tab) == 0

\* The search of open() for an entry whose mode is 0.
FirstVacant(tab) == Min(Vacant(tab))

\* open() on a table with a vacant entry, and close().
Opened(tab, node, mode) == [tab EXCEPT ![FirstVacant(tab)] = [node |-> node, mode |-> mode]]
Closed(tab, fd) == [tab EXCEPT ![fd].mode = 0]

\* init runs and its libc has opened a standard stream: open() found no table
\* and made one.
FilesInit ==
    /\ live = {InitProc}
    /\ fd_tables = [q \in Pids |-> IF q = 1 THEN 1 ELSE 0]
    /\ \E d \in Devices : tables = [t \in 1..NTables |-> IF t = 1 THEN Opened(Empty, d, 1) ELSE Empty]
    /\ made = 1
    /\ panicked = FALSE

Runs(p) == ~panicked /\ p \in live

kpanic == panicked' = TRUE /\ UNCHANGED <<live, fd_tables, tables, made>>

Store(p, tab) ==
    /\ tables' = [tables EXCEPT ![fd_tables[Pid(p)]] = tab]
    /\ UNCHANGED <<live, fd_tables, made, panicked>>

\* Looking up a file of the disk: ext2_enum() has the volume open while
\* get_inode() opens it once more for every entry of the directory.
LookedUp(tab, node) ==
    LET outer == Opened(tab, Volume, 1)
        inner == Opened(outer, Volume, 1)
    IN  IF node \in DiskFiles
        THEN Closed(Closed(inner, FirstVacant(outer)), FirstVacant(tab))
        ELSE tab

\* Whether the table has the entries that takes, and one for the file.
Room(tab, node) == Cardinality(Vacant(tab)) >= IF node \in DiskFiles THEN 2 ELSE 1

\* open() with a table.
Open(p, node, mode) ==
    /\ Runs(p)
    /\ Room(Table(p), node)
    /\ Store(p, Opened(LookedUp(Table(p), node), node, mode))

\* The volume is opened, sought, read and closed again, by get_inode() and then
\* by ext2_read().
ThroughVolume(tab) == Closed(Opened(tab, Volume, 1), FirstVacant(tab))

\* read() of a file of the disk that is open for reading.
ReadDisk(p, fd) ==
    /\ Runs(p)
    /\ Table(p)[fd].node \in DiskFiles /\ Reads(Table(p)[fd].mode)
    /\ Vacant(Table(p)) # {}
    /\ Store(p, ThroughVolume(Table(p)))

\* exec() opens the binary, reads it and closes it.
Executed(tab, node) ==
    Closed(ThroughVolume(Opened(LookedUp(tab, node), node, 1)), FirstVacant(tab))

\* exec() of a file of the disk. The table is kept for the new program.
Exec(p, node) ==
    /\ Runs(p)
    /\ Room(Table(p), node)
    /\ Store(p, Executed(Table(p), node))

\* The ways to stop the kernel: no vacant entry where one is needed, a
\* descriptor not open that way, a read beyond the end of a file with a size, a
\* file system or device without the function.
OpenPanics(p, node) == Runs(p) /\ ~Room(Table(p), node) /\ kpanic
ReadPanics(p, fd) ==
    /\ Runs(p)
    /\ ~Reads(Table(p)[fd].mode) \/ Table(p)[fd].node \notin Plain
    /\ kpanic
WritePanics(p, fd) ==
    /\ Runs(p)
    /\ ~Writes(Table(p)[fd].mode) \/ Table(p)[fd].node \notin Plain
    /\ kpanic

\* What fork() copies: fd_tables[active_pid], read after fd_tables[2] was set
\* to the fresh page.
Source(p, fresh) == IF Pid(p) = 2 THEN fresh ELSE Table(p)

\* fd_tables[new->pid] = kmalloc()
NewTable(p) == made + 1

\* fork(): a table for the child, whose pid is 2.
Fork(p, c, fresh) ==
    /\ Runs(p)
    /\ c \in Procs \ live
    /\ made < NTables
    /\ live' = live \cup {c}
    /\ fd_tables' = [fd_tables EXCEPT ![2] = NewTable(p)]
    /\ tables' = [tables EXCEPT ![NewTable(p)] = Source(p, fresh)]
    /\ made' = made + 1
    /\ UNCHANGED panicked

FilesHalted == panicked /\ UNCHANGED filesVars

FilesNext ==
    \/ \E p \in Procs :
        \/ \E node \in Devices \cup DiskFiles, mode \in OpenModes : Open(p, node, mode)
        \/ \E fd \in Fds : ReadDisk(p, fd) \/ ReadPanics(p, fd) \/ WritePanics(p, fd)
        \/ \E node \in DiskFiles : Exec(p, node)
        \/ \E node \in Devices \cup DiskFiles : OpenPanics(p, node)
        \/ \E c \in Procs, fresh \in Stale : Fork(p, c, fresh)
    \/ FilesHalted

FilesSpec == FilesInit /\ [][FilesNext]_filesVars

----------------------------------------------------------------------------
(* Properties *)

\* A descriptor that is open stays on its file: there is no system call to
\* close it, and neither the kernel's own use of the table in read() and exec(),
\* nor what a process that shares the pid opens, nor anything a process of the
\* other pid does may touch it (vfs.c:203-215, ext2.c:27-31,
\* scheduler.c:165-181). Only a fork() takes it away, and never from init: the
\* table it replaces is that of pid 2, which every child has.
DescriptorsKept ==
    [][\A q \in live, fd \in Fds :
        Table(q)[fd].mode # 0 /\ (Pid(q) = 1 \/ live' = live)
            => (Table(q)[fd])' = Table(q)[fd]]_filesVars

\* scheduler.c:133: fork() is to "clone fd table". The child's table is a clone
\* of its parent's and no other process's table is lost by it, also when there
\* is a child already: but every child has pid 2.
ForkClones ==
    [][\A q \in live, fd \in Fds : live' # live /\ Table(q)[fd].mode # 0
        => (Table(q)[fd])' = Table(q)[fd]]_filesVars
=============================================================================
