--------------------------- MODULE AddressSpaces ---------------------------
(***************************************************************************)
(* User address spaces: the two-level page tables of kernel/vmm.c, shared  *)
(* between processes by fork(), split by the copy-on-write path of         *)
(* page_fault(), and rewritten by mmap() and exec().                       *)
(*                                                                         *)
(* The allocators are abstract here: a fresh frame is any frame nobody     *)
(* holds, which is what KHeap guarantees of kmalloc() and pmalloc(). The   *)
(* kernel runs with CR0.WP clear, so its own stores to user pages ignore   *)
(* the write bits. A system call runs with interrupts off; the ones that   *)
(* map or load several pages do one page per step, with nothing in between.*)
(***************************************************************************)
EXTENDS Integers, Sequences

CONSTANTS
    Procs,      \* processes
    InitProc,   \* the first one
    Frames,     \* physical frames
    None,       \* an entry that is not present
    NTables,    \* user entries of a page directory (0x300)
    PtSize,     \* entries of a page table (1024)
    Values,     \* contents of a page
    Zero,       \* a page of zeros, or what else a new page starts with
    CodePages,  \* most pages an executable needs
    StackPage   \* the page exec() maps for the stack

ASSUME SpaceAssumption == /\ InitProc \in Procs
                          /\ None \notin Frames
                          /\ NTables \in Nat \ {0}
                          /\ PtSize \in Nat \ {0}
                          /\ Zero \in Values
                          /\ CodePages \in 0..(NTables * PtSize)
                          /\ StackPage \in 0..(NTables * PtSize - 1)

VARIABLES
    live,       \* processes that exist
    ancestors,  \* ancestors[p]: the processes p descends from
    dtab,       \* dtab[p][d]: page table in directory entry d of p
    dwrite,     \* the directory entries <<p, d>> with the write bit
    pframe,     \* pframe[t][i]: frame in entry i of page table t
    pwrite,     \* the page table entries <<t, i>> with the write bit
    mem,        \* contents of each frame used as a page
    alloc,      \* frames somebody holds
    cur,        \* the process that runs
    todo,       \* what is left of its system call
    panicked    \* kpanic() was called

tables == <<dtab, dwrite, pframe, pwrite>>
vars == <<live, ancestors, tables, mem, alloc, cur, todo, panicked>>

Pages == 0..(NTables * PtSize - 1)
Dirs == 0..(NTables - 1)
Entries == 0..(PtSize - 1)
Jobs == {"map", "load"} \X Pages \X Values

\* page_entry(): the directory index and the table index of a page.
Dir(n) == n \div PtSize
Entry(n) == n % PtSize

TypeOK ==
    /\ live \in SUBSET Procs
    /\ ancestors \in [Procs -> SUBSET Procs]
    /\ dtab \in [Procs -> [Dirs -> Frames \cup {None}]]
    /\ dwrite \in SUBSET (Procs \X Dirs)
    /\ pframe \in [Frames -> [Entries -> Frames \cup {None}]]
    /\ pwrite \in SUBSET (Frames \X Entries)
    /\ mem \in [Frames -> Values]
    /\ alloc \in SUBSET Frames
    /\ cur \in Procs
    /\ todo \in Seq(Jobs)
    /\ panicked \in BOOLEAN

\* The user part of the boot directory is empty once init_vmm() has cleared
\* the identity mapping; init's pages come from the mmap() calls of kernel().
Init ==
    /\ live = {InitProc}
    /\ ancestors = [p \in Procs |-> {}]
    /\ dtab = [p \in Procs |-> [d \in Dirs |-> None]]
    /\ dwrite = {}
    /\ pframe = [t \in Frames |-> [i \in Entries |-> None]]
    /\ pwrite = {}
    /\ mem = [f \in Frames |-> Zero]
    /\ alloc = {}
    /\ cur = InitProc
    /\ todo = <<>>
    /\ panicked = FALSE

\* What the processor walks: the frame of page n of p, and whether user mode
\* may write it (the write bit of both levels).
FrameOf(p, n) == IF dtab[p][Dir(n)] = None THEN None ELSE pframe[dtab[p][Dir(n)]][Entry(n)]
Writable(p, n) ==
    /\ FrameOf(p, n) # None
    /\ <<p, Dir(n)>> \in dwrite
    /\ <<dtab[p][Dir(n)], Entry(n)>> \in pwrite

\* Between system calls any live process may be the one that runs.
Runs(p) == ~panicked /\ todo = <<>> /\ p \in live /\ cur' = p

kpanic ==
    /\ panicked' = TRUE
    /\ UNCHANGED <<live, ancestors, tables, mem, alloc, todo>>

\* A user store that the page tables permit.
UserWrite(p, n, v) ==
    /\ Runs(p)
    /\ Writable(p, n)
    /\ mem' = [mem EXCEPT ![FrameOf(p, n)] = v]
    /\ UNCHANGED <<live, ancestors, tables, alloc, todo, panicked>>

\* A user access to a page that is not there: page_fault_allowed is 0 outside
\* mmap(), and the kernel panics.
BadAccess(p, n) == Runs(p) /\ FrameOf(p, n) = None /\ kpanic

----------------------------------------------------------------------------
(* page_fault(), copy on write *)

SplitWrites_Kept(t, t2) ==
    (pwrite \ {<<t2, i>> : i \in Entries}) \cup {<<t2, i>> : i \in {j \in Entries : <<t, j>> \in pwrite}}

\* The copy t2 of page table t has every write bit off.
SplitWrites(t, t2) == pwrite \ {<<t2, i>> : i \in Entries}

CopyPage_Forgotten(f, f2) == mem

\* mem_copy(page, newpage, 4096)
CopyPage(f, f2) == [mem EXCEPT ![f2] = mem[f]]

\* The directory entry is writable, the page is not: copy the page.
CowPage(p, n, f2) ==
    LET t == dtab[p][Dir(n)] IN
    /\ Runs(p)
    /\ FrameOf(p, n) # None
    /\ <<p, Dir(n)>> \in dwrite /\ <<t, Entry(n)>> \notin pwrite
    /\ f2 \notin alloc
    /\ alloc' = alloc \cup {f2}
    /\ mem' = CopyPage(FrameOf(p, n), f2)
    /\ pframe' = [pframe EXCEPT ![t][Entry(n)] = f2]
    /\ pwrite' = pwrite \cup {<<t, Entry(n)>>}
    /\ UNCHANGED <<live, ancestors, dtab, dwrite, todo, panicked>>

SplitDirs_FirstPage(p, d, t2) == [dtab EXCEPT ![p][d] = pframe[dtab[p][d]][0]]

\* The directory entry is pointed at the copy of the table.
SplitDirs(p, d, t2) == [dtab EXCEPT ![p][d] = t2]

\* The directory entry is not writable: copy the table with all write bits
\* off, point the entry at the copy and set its write bit, then copy the page.
CowTable(p, n, t2, f2) ==
    LET t == dtab[p][Dir(n)] IN
    /\ Runs(p)
    /\ FrameOf(p, n) # None
    /\ <<p, Dir(n)>> \notin dwrite
    /\ t2 \notin alloc /\ f2 \notin alloc /\ t2 # f2
    /\ alloc' = alloc \cup {t2, f2}
    /\ dtab' = SplitDirs(p, Dir(n), t2)
    /\ dwrite' = dwrite \cup {<<p, Dir(n)>>}
    /\ mem' = CopyPage(FrameOf(p, n), f2)
    /\ pframe' = [pframe EXCEPT ![t2] = [pframe[t] EXCEPT ![Entry(n)] = f2]]
    /\ pwrite' = SplitWrites(t, t2) \cup {<<t2, Entry(n)>>}
    /\ UNCHANGED <<live, ancestors, todo, panicked>>

\* kmalloc() finds no frame for the copies.
CowPanics(p, n) ==
    /\ Runs(p)
    /\ FrameOf(p, n) # None /\ ~Writable(p, n)
    /\ \/ alloc = Frames
       \/ <<p, Dir(n)>> \notin dwrite /\ \E f \in Frames : alloc = Frames \ {f}
    /\ kpanic

----------------------------------------------------------------------------
(* System calls *)

ForkWrites_Kept(p, c) ==
    dwrite \cup {<<c, d>> : d \in {e \in Dirs : <<p, e>> \in dwrite}}

\* newdir[i] &= ~2: the child's directory entries lose the write bit, the
\* parent's keep theirs.
ForkWrites(p, c) == dwrite \ {<<c, d>> : d \in Dirs}

\* fork(): the child's directory is a copy that shares every page table.
Fork(p, c) ==
    /\ Runs(p)
    /\ c \in Procs \ live
    /\ live' = live \cup {c}
    /\ ancestors' = [ancestors EXCEPT ![c] = ancestors[p] \cup {p}]
    /\ dtab' = [dtab EXCEPT ![c] = dtab[p]]
    /\ dwrite' = ForkWrites(p, c)
    /\ UNCHANGED <<pframe, pwrite, mem, alloc, todo, panicked>>

\* The pages from n on, with what is to be done with them.
Run(job, n, count, v) == [k \in 1..count |-> <<job, n + k - 1, v>>]

\* mmap(base, count pages): each page gets a fresh frame.
Mmap(p, base, count) ==
    /\ Runs(p)
    /\ base + count - 1 \in Pages
    /\ todo' = Run("map", base, count, Zero)
    /\ UNCHANGED <<live, ancestors, tables, mem, alloc, panicked>>

\* read() of a file into one page: the kernel stores to user memory.
ReadInto(p, n, v) ==
    /\ Runs(p)
    /\ todo' = Run("load", n, 1, v)
    /\ UNCHANGED <<live, ancestors, tables, mem, alloc, panicked>>

\* exec() of a file of count pages: the user half of the directory is emptied,
\* code and stack are mapped and the file is read into the code pages.
Exec(p, count, v) ==
    /\ Runs(p)
    /\ dtab' = [dtab EXCEPT ![p] = [d \in Dirs |-> None]]
    /\ dwrite' = dwrite \ {<<p, d>> : d \in Dirs}
    /\ todo' = Run("map", 0, count, Zero) \o Run("map", StackPage, 1, Zero) \o Run("load", 0, count, v)
    /\ UNCHANGED <<live, ancestors, pframe, pwrite, mem, alloc, panicked>>

Working(job) == ~panicked /\ todo # <<>> /\ Head(todo)[1] = job
Page == Head(todo)[2]

\* One page of mmap() whose page table exists, be it shared: the entry is
\* overwritten in place.
MapPage(f, v) ==
    LET t == dtab[cur][Dir(Page)] IN
    /\ Working("map")
    /\ t # None
    /\ f \notin alloc
    /\ alloc' = alloc \cup {f}
    /\ pframe' = [pframe EXCEPT ![t][Entry(Page)] = f]
    /\ pwrite' = pwrite \cup {<<t, Entry(Page)>>}
    /\ mem' = [mem EXCEPT ![f] = v]
    /\ todo' = Tail(todo)
    /\ UNCHANGED <<live, ancestors, dtab, dwrite, cur, panicked>>

\* One page of mmap() without a page table: touching the entry faults, and the
\* not-present path of page_fault() puts a zeroed, writable table there.
MapTable(t) ==
    /\ Working("map")
    /\ dtab[cur][Dir(Page)] = None
    /\ t \notin alloc
    /\ alloc' = alloc \cup {t}
    /\ dtab' = [dtab EXCEPT ![cur][Dir(Page)] = t]
    /\ dwrite' = dwrite \cup {<<cur, Dir(Page)>>}
    /\ pframe' = [pframe EXCEPT ![t] = [i \in Entries |-> None]]
    /\ pwrite' = pwrite \ {<<t, i>> : i \in Entries}
    /\ UNCHANGED <<live, ancestors, mem, cur, todo, panicked>>

\* pmalloc() finds no frame.
MapPanics == Working("map") /\ alloc = Frames /\ kpanic /\ UNCHANGED cur

\* The kernel stores to a user page, itself or through the controller: the write
\* bits do not stop it.
LoadPage ==
    /\ Working("load")
    /\ FrameOf(cur, Page) # None
    /\ mem' = [mem EXCEPT ![FrameOf(cur, Page)] = Head(todo)[3]]
    /\ todo' = Tail(todo)
    /\ UNCHANGED <<live, ancestors, tables, alloc, cur, panicked>>

\* The page is not there. A store of the processor faults, and so does the look
\* into its page table if that is not there either.
LoadPanics == Working("load") /\ FrameOf(cur, Page) = None /\ kpanic /\ UNCHANGED cur

\* With a page table getpaddr() returns 0 for it: the controller stores at
\* physical address 0, which no process has.
LoadStrays ==
    /\ Working("load")
    /\ dtab[cur][Dir(Page)] # None /\ FrameOf(cur, Page) = None
    /\ todo' = Tail(todo)
    /\ UNCHANGED <<live, ancestors, tables, mem, alloc, cur, panicked>>

Halted == panicked /\ UNCHANGED vars

Cow == \E p \in Procs, n \in Pages, f \in Frames :
    CowPage(p, n, f) \/ \E t \in Frames : CowTable(p, n, t, f)

Next ==
    \/ \E p \in Procs, n \in Pages :
        \/ \E v \in Values : UserWrite(p, n, v)
        \/ BadAccess(p, n)
        \/ CowPanics(p, n)
        \/ \E count \in 1..(NTables * PtSize) : Mmap(p, n, count)
        \/ \E v \in Values : ReadInto(p, n, v)
    \/ Cow
    \/ \E p, c \in Procs : Fork(p, c)
    \/ \E p \in Procs, count \in 0..CodePages, v \in Values : Exec(p, count, v)
    \/ \E f \in Frames, v \in Values : MapPage(f, v)
    \/ \E t \in Frames : MapTable(t)
    \/ MapPanics
    \/ LoadPage
    \/ LoadPanics
    \/ LoadStrays
    \/ Halted

Spec == Init /\ [][Next]_vars

----------------------------------------------------------------------------
(* Properties *)

Content(p, n) == IF FrameOf(p, n) = None THEN None ELSE mem[FrameOf(p, n)]

\* No frame can be written from user mode by two processes, or by one process
\* at two addresses, whatever forks, faults and mappings came before.
SingleWriter ==
    \A p, q \in live, m, n \in Pages :
        Writable(p, m) /\ Writable(q, n) /\ FrameOf(p, m) = FrameOf(q, n) => p = q /\ m = n

\* A frame that serves as a page table of some process is not mapped as a page
\* of any: no user store reaches a page table.
TablesProtected ==
    \A p, q \in live, d \in Dirs, n \in Pages :
        dtab[p][d] # None => FrameOf(q, n) # dtab[p][d]

\* A frame a process can write is visible to nobody but the process and its
\* descendants: what a child writes its parent never sees.
WritesStayBelow ==
    \A p, q \in live, m, n \in Pages :
        Writable(p, m) /\ FrameOf(q, n) = FrameOf(p, m) => q = p \/ p \in ancestors[q]

\* A copy-on-write fault changes the contents of no page of any process.
CowTransparent ==
    [][Cow => \A q \in live, n \in Pages : Content(q, n)' = Content(q, n)]_vars

\* README.md:17 of barrelOS lists a "unix-like" fork and vmm.c:122 a
\* "copy on write": after a fork the user stores of one process do not change
\* the memory of another. But fork() takes the write bit from the child's
\* directory only, and the parent stores to the shared pages without a fault.
ForkIsolates ==
    [][todo = <<>> /\ todo' = <<>> =>
        \A q \in live \ {cur'} : \A n \in Pages : Content(q, n)' = Content(q, n)]_vars

\* initkernel.asm:20 says the kernel turns copy-on-write on; for stores of the
\* kernel that takes CR0.WP, which nothing sets. What the kernel stores into
\* the pages of a child, its ancestors do not see.
KernelStoresIsolated ==
    [][Working("load") =>
        \A q \in live \cap ancestors[cur], n \in Pages : Content(q, n)' = Content(q, n)]_vars
=============================================================================
