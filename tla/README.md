# A TLA+ model of BarrelOS and TitorOS

The repository holds a hobby operating system in two generations. `src/barrelOS`
is a 32-bit kernel with paging, processes, a virtual file system, a terminal and
an NVMe disk. `src/titorOS` is its 64-bit successor, of which the boot loader
exists. The kernel has one processor and no locks; what makes it hard is what
happens between the interrupts: processes suspended in the middle of a system
call, page tables shared between address spaces, caches of the processor, a
device that works on its own, and functions with static state that are
re-entered.

## Inventory

| Component | State | Operations | What makes it correct |
|---|---|---|---|
| scheduler (`kernel/scheduler.c`, `initkernel.asm`) | circular list of processes, each READY or WAITING, with a saved stack pointer; the active one | timer interrupt, block, unblock, fork, switch_kstack | the list stays one cycle; the search ends; what is resumed is what was left; nobody starves |
| interrupt entry (`kernel/idt`, `task.c`) | the frames on each kernel stack, one depth counter for all | generic_isr, pad, depad, firstret, dispatch | a program gets its registers, segments and stack back |
| terminal input (`drivers/screen.c`, `keyboard.c`) | one input buffer with an 8-bit length, a queue of readers | keys, backspace, escape, enter, read | a reader gets exactly one line, in order; no reader is lost |
| screen (`drivers/screen.c`, `libc/stdio.c`) | video memory and the cursor registers, the parts of a `printf()` not written yet | print, echo, scroll, clear, the conversions of `printf()` | nothing shown is lost except off the top; the typist sees what the reader gets |
| physical frames (`kernel/pmm.c`) | a bitmap | puse, pfree, pmalloc | no frame handed out twice |
| kernel heap (`kernel/vmm.c`) | page table entries with a used bit, the TLB | kmalloc, kfree, mmiomalloc, giving a page to user space | no aliasing, no loss within the heap, no stale translation |
| address spaces (`kernel/vmm.c`, `scheduler.c`) | directories and tables, write bits | fork, copy-on-write fault, mmap, exec, kernel stores | isolation |
| path lookup (`kernel/vfs.c`, `ext2.c`, `libc/string.c`) | tree of nodes, strtok's static position | getnode, enumeration | finds what the path names, ends |
| disk and ext2 (`pci.c`, `devfs.c`, `ext2.c`) | the controller's slot, starts of partitions, superblock and group descriptors, the nodes enumerated last | scan, partition table, mount, inode, enumeration, file read | directories and files are those on the disk |
| descriptors (`kernel/vfs.c`) | one table per pid | open, read, write, close, fork, exec | a descriptor stays on its file |
| NVMe driver (`drivers/nvme.c`) | two queue pairs, doorbells | bring-up, submit, poll | an answer belongs to its command |
| libc allocator (`libc/stdlib.c`) | block list inside the heap | malloc, free | blocks do not overlap |
| memory map (`titorOS/.../stage2.c`) | the BIOS table, rewritten in place | merge, cut, align, compact, place | only and all usable memory |
| kernel loading (`titorOS/.../stage2.c`, `bios_read.asm`) | sector buffer, memory at the kernel's address, page table | search, sector loop, clear, map | the kernel sees its segment |

The components meet as follows. The timer and the keyboard interrupt whatever
process is in user mode; a system call runs with interrupts off to its end or to
`block()`. A read of `/dev/tty` goes through `vfs.c` and `devfs.c` to
`sendbuffer()`, which blocks through the scheduler. `fork()` and the fault
handler take pages from the kernel heap and move some of them to user page
tables. Opening a file of the disk enters `getnode()`, which calls `ext2_enum()`,
which opens `/dev/nvme5` through `getnode()` again and reads it through the
driver. A program's `printf()` is a sequence of `write()` calls; each goes through
`devfs.c` to `print()`, and keys echo on the same screen in between.

## Modules

| Module | Models | How |
|---|---|---|
| `Scheduler` | the scheduler | A handler is one action, cut where it calls `scheduler()`: the second part runs as `Resume` when the process is switched to. The search loop is the predicate `FirstReady`. A stack pointer is the kind of frame it designates. |
| `Interrupts` | `isrs.asm` and the frames, on top of `Scheduler` (EXTENDS) | A stack is the sequence of its words; `Pad` and `Depad` are the two word moves of the stub, `Enter` and `Leave` the way in and out. Programs' registers are told apart by who computed them, eax and the flags also by what a system call or `fork()` puts there. A fault inside `mmap()` is two steps, so that the stack it returns to can be looked at. |
| `Terminal` | buffer, reader queue, keys, on top of `Scheduler` (EXTENDS) | `Read` is `sendbuffer()` up to the switch, `FinishRead` what follows it. |
| `LineDiscipline` | nothing: what a terminal promises | The line being edited and the lines handed over are separate; `Terminal` is shown to implement it. |
| `Console` | the drawing half of `screen.c`, and `printf()` | The screen is a function from cells to characters and a 16-bit cursor; printing a text is a recursive function along it. A `write()` and a key are one step each. Which process runs and what a reader does with its line are left to `Scheduler` and `Terminal`; `roll`, `alone`, `torn` and `said` record history for the properties. |
| `PhysMem`, `KHeap` | frames and kernel heap | `PhysMem` has the bitmap functions, `KHeap` the heap's slots, the TLB and user frames: those address spaces have, and those they drop without `pfree()` in `exec()`, in `mmap()` over a mapping and in copy-on-write (`lost`). |
| `AddressSpaces` | page tables of user processes | Two levels with a write bit each. `mmap` and `exec` do one page per step, without other steps in between (`todo`). A fresh frame is any free one, as `KHeap` guarantees. A disk read into a page that is absent from a present table goes to physical address 0 (`LoadStrays`), outside what is modelled. |
| `Lookup` | `getnode` and what it calls | One action per pass of `navigate`. A path is a sequence of names, a directory a sequence of entries. |
| `Ext2` | from the PCI scan to the bytes of a file | A disk is a partition table and blocks that hold what they are for; addresses are computed as the code does, in sectors. The directory tree the disk was made from is a constant the properties compare with; `Formatted` says how a volume lays it out on the disk: in blocks of 4 KiB with the descriptors in block 1, which is what `ext2.c` takes for granted. The walk over a directory is the iteration of one pass of the loop; `Entered` is how `new_vnode()` ends for an entry, with the 32 bytes of a name and the one page of a directory's nodes. |
| `Files` | descriptor tables | One action per system call, with the kernel's own opens and closes inside. |
| `Nvme` | driver and controller | The controller is external: it fetches, completes in any order, stops at a full completion queue. What it finds of commands built behind the queue's one page is left open (`Found`). |
| `Malloc` | `malloc`, `free` | Byte addresses, words of memory, 32-bit arithmetic; the stores of a split in their order, because they may overlap. |
| `MemMap` | stage 2's `mmap()` | One action per loop iteration, 64-bit arithmetic. |
| `Stage2` | `stage2()` around it (EXTENDS `MemMap`) | One action per sector. A byte of the disk is its position there; the BIOS takes the low bits of the sector number as a sector counted from 1. |
| `SchedulerProofs`, `InterruptsProofs`, `TerminalProofs`, `AddressSpacesProofs`, `Stage2Proofs` | | theorems about the module of that name (`Stage2Proofs` about `MemMap` as well) |
| `HeapProofs`, `VfsProofs`, `DriverProofs` | | theorems about the two allocators (`KHeap` and `Malloc`), about names and descriptors (`Lookup` and `Files`), and about the disk, the screen and the volume (`Nvme`, `Console` and `Ext2`); all but the first of each group prefix their `Init`, `Next` and `Spec` with their name |

Each `MC` module instantiates one of them. Operators named `X_Variant` right
above an operator `X` are mistakes one could make in `X`; each property is known
to fail for at least one of them, which shows that it depends on the code.

## Runs

| Run | Bounds | Shows |
|---|---|---|
| `interrupts` | idle and three processes, one of which makes every kind of call; three words in the frame of `mmap()` | The list of processes is one cycle, the search ends, the frame loaded is the one left, nobody starves; every program gets its context back, with the result of its call or the flags of a new child, `mmap()` goes on after its own fault, and the depth counter is right on whichever stack it is counted. Four processes suffice for a child inserted before, behind and between others; the contents of frames are checked word by word. |
| `terminal` | idle and two processes, one printable key, length modulus 4, three reads | Readers and queue agree; a woken reader returns; the terminal implements the scheduler. It implements `LineDiscipline` as well if nobody types between Enter and the reader's turn and no line is longer than the length can count: both kinds of typist are initial states (`careful`). Without either condition the promise is not kept, because the buffer is shared. |
| `kernel_heap` | three slots, three words of two bits, one device frame | No alias; the bitmap marks exactly what is held and what address spaces have dropped; coherent TLB; lowest frame first. |
| `address_spaces` | parent and child, six frames, one table of two entries, two values | Single writer, protected tables, writes visible only to descendants, transparent copies. Six frames are what both need after every page was copied; frames are interchangeable (symmetry). Longer chains of forks are covered by the theorems. |
| `fork_isolation` | the same, four frames | *Fails*: a store of the parent changes the child's memory. |
| `lookup` | a tree of nine files, seven paths, 60 pages | Right file, stable descriptors, termination, until the heap is full. |
| `files` | three processes, two of them children with the same pid (symmetry), tables of three, files opened for reading or for writing | Descriptors stay on their file whoever shares the table and whatever the kernel opens in it; only a further fork takes them from the children, and never from init. |
| `nvme` | queues of 6, a page of 4 commands | Right answer within the page, every submit returns, up to the queue counting as full. |
| `malloc` | 96 bytes, requests of 8, 9 and 22 | The blocks tile the heap; held blocks do not overlap and are exactly those marked used; `malloc()` spins only when no free block is large enough. |
| `boot` | every table of three entries around a few pages of four bytes, with sizes of half a page and more, numbers that wrap at 16 and pointers that end at 12; ELF files of one to three sectors of two bytes, a track of seven sectors | Sound list if every entry reaches a page boundary, complete list if none wraps, kernel in usable memory if both and all can be addressed; the whole segment visible at its virtual address and zeros behind it. The files are a whole and not a whole number of sectors and pages, and one lies across the end of the track. |
| `console` | three rows of three, two programs, one of which tries every conversion, four keys, length modulus 3 | The screen is the end of all that was shown, across scrolling, backspaces, wraps of the length and a panic; the typed line stands in front of the cursor as it is in the buffer; each `printf()` writes what its format means. Nine cells scroll after a few writes; four keys wrap the length. |
| `ext2` | 807 disks: two partitions, two groups of three inodes, two to a block, four inodes placed in every way, tables in both orders, with and without a removed entry and an empty file, a name longer than a node's, a directory with a node too many or the same name twice, volumes that end anywhere; no controller, no GPT, no volume, no signature | Directories are listed with the right sizes and types; a file that is read is the one named, if it is not empty; or the kernel stops, at the end of the file, of the volume or of the page of nodes. |

### Other promises the code does not keep

These definitions state what a comment of the code says. No run has them: each
fails for the reason given, with the constants given where they differ from the
passing run of the module.

| Definition | Says | Why it fails |
|---|---|---|
| `Interrupts!FaultTransparent` | isrs.asm:35 "didn't jump, therefore we came from usermode" | a page fault inside `mmap()` comes from kernel mode with a process active: its frame is not padded but is depadded, and the stack pointer returns two words too high (what is left is enough for `mmap()` to go on: `MmapGoesOn`) |
| `Lookup!ResolvesPaths` | vfs.c:72 "find node corresponding to filepath" | looking into a directory of the disk re-enters `getnode()`, which uses up the static position of `strtok()`: the kernel panics (a path through a directory of the disk) |
| `Scheduler!UniquePids` | scheduler.c:131 "next available pid?" | every child has pid 2 |
| `Files!ForkClones` | scheduler.c:133 "clone fd table" | a second child's table replaces the first's |
| `KHeap!DeviceFramesReserved` | pmm.c:20 "reserve space for mmio" | nothing is reserved |
| `AddressSpaces!KernelStoresIsolated` | initkernel.asm:20 "turn on copy-on-write" | CR0.WP stays clear, the kernel's stores go to shared pages |
| `Nvme!SlotInPage` | nvme.c:15 "1 page, therefore 64 commands can fit" | the length is 128 (`ReadReturnsData` is about the commands in the page) |
| `Nvme!FullMeansFull` | nvme.c:23 "check if submission queue is full" | the head is never moved |
| `Nvme!FetchesSubmitted` | nvme.c:14 "power of 2 for circular buffer overflow" | the size fields are zero-based: the controller's ring is one longer |
| `Nvme!StoresInBuffer` | devfs.c:62 "the first 4kb" | the block count is zero-based too |
| `Malloc!HeldMapped` | stdlib.h:4 "excluding this descriptor" | the first block counts its descriptor (requests of the whole heap) |
| `Malloc!DescriptorsApart` | stdlib.c:33 "appropriate address" | a block is split although no descriptor fits (requests of one word) |
| `Malloc!BackLinked` | stdlib.c:38 "link into list" | `bk` of the block behind is not set |
| `MemMap!NoOverlaps` | stage2.c:73 "combine overlaps" | one pass is not enough |
| `Lookup!InodesFreed` | ext2.c:137 "make sure to kfree" | the inode of every entry is dropped |

Smaller ones, which the models have and the properties leave out by name:

* stage2.c:35 reads one sector too many when the file is a whole number of
  sectors, possibly behind the region the kernel was given, and stage2.c:39 clears
  from the end of that sector on: the bytes between `p_filesz` and it are whatever
  the disk holds (`KernelLoaded` speaks of `pos`, not of `p_filesz`).
* bios_read.asm:39 passes sector numbers of 64 and more as they are, so that they
  name another cylinder (`KernelLoaded` is about the first track).
* `clear()` leaves the half typed line in the buffer; backspaces then move the
  cursor below 0 (`ShowsEnd` excludes `torn`).
* a `%` at the very end of a format makes `printf()` read behind it (no such
  format is in `Calls`).
* ext2.c:80 goes by the length of names: entries behind a removed one are not
  seen (`Present`).
* stage2.c:118 subtracts the distance to the next page boundary from the size: a
  region that ends before that boundary gets a size of almost 2^64, and the kernel
  may be placed there; stage2.c:138 cuts an address beyond 4 GiB to 32 bits (the
  conditions `NoWrap`, `ReachesPage` and `Addressable` in the properties of `MemMap`).
* frames that an address space drops are marked used for ever (`lost` in `KHeap`).
* vfs.c:147 stores the nodes of a directory in one page, 68 of them, without a
  look, and names in 32 bytes: the nodes beyond overwrite the next page
  (`"overrun"` in `Ext2`), the end of a longer name is lost (`ListsDirectory`).
* an empty file has no size limit for `read()`, which then returns block 0
  (`ReadsFile` leaves it out).
* a read of more than a page leaves the rest of the buffer alone: the command
  names one page only (`ReadsFile` is about the first page).

Where such a behaviour would spoil a property of a passing run, the property
says which case it leaves out (for instance `ReadReturnsData` the commands behind the
page and the last one of the queue, `ListSound` and `KernelInUsable` tables with a region that
reaches no page boundary, `DescriptorsKept` the children's table at a fork) or the run's
bounds keep to the other cases: `malloc` asks for at least two words and less
than the heap, `lookup` has no path through a directory of the disk
to an existing file.

The type invariants of `KHeap`, `AddressSpaces`, `Scheduler`, `Terminal`, `Nvme`,
`Files` and `Malloc` are conjuncts of the invariants that are proved; that of
`Lookup` documents the variables.

### Fairness

The timer interrupts every 10 ms while interrupts are on (`init_timer(11930)`),
hence weak fairness of `TimerInterrupt`; where system calls are steps of their own
(`Interrupts`) strong fairness, since the interrupt controller keeps a tick that
comes while interrupts are off. A kernel stack that was loaded runs on
with interrupts off, hence weak fairness of `Resume`/`FinishRead`. The NVMe
controller is assumed to work on what it was given. `Lookup` is sequential code
that runs on. No fairness is assumed of users: nobody has to type or to read.

### Bounds

Named constants: `Procs`, `QSlots` (1024 reads fill the page of the queue; the
code does not look), `LenMod` (256), `Callers`, `MmapWords` (at least two: what
unoptimised code of `mmap()` has below its saved registers), `NSlots`, `NPages`, `NTables`, `OpenModes` (the modes programs open files with),
`HEAP_SIZE`, `QL` (0x80), `PageCmds` (64), `NEntries`, `MaxAddress`, `Sizes`, `Word` (2^64), `Pointer` (2^32), `W`, `H`, `CursorMod` (2^16), `MaxKeys`,
`SectorMod` (64), `PtEntries` (512), `BLOCK_FACTOR` (8), `NParts` (8), `MaxPci` (32), `MaxEntries` (341, the entries of 12 bytes that fit a block),
`NodeBytes` (60) and `NameBytes` (32) of a node. Each is small enough to be reached by the
runs, so the panics and hangs at the limits are part of what is checked.

## Proofs

The theorems hold for every value of the constants that the named assumptions
of the modules allow, and under the hypotheses a theorem states itself. Each
safety property is the last step from an inductive invariant, which needs more
than the property says:

* `SchedulerProofs`. The invariant is the type invariant, `Ring`, `RunningIsReady`
  and two facts about frames: the frame just loaded is the one the active
  process left, and only idle can have none. `Ring` says that a set of
  processes closed under `next` is everything; for the insertion of a child one
  removes the child from such a set. That only idle switches to itself follows
  because idle is READY and on the list, so the search meets it first.
  `LoopTerminatesTheorem` needs no induction along the list: the processes
  from which a search would never end form a set closed under `next`, hence none
  or all of them, and the one in front of idle is not among them.
* `InterruptsProofs` (EXTENDS `SchedulerProofs`). A process that is switched away from has
  on its kernel stack the frame `generic_isr` built from its program's registers
  (`Suspended`), whatever stacks were used since; only idle has pid 0, by which the stub
  tells kernel from user frames (`PidInv`); and the stack in use is a program's base,
  one inside `mmap()` or one inside the fault there (`StackInv`). The lemmas in
  front say which word is where in a frame and that `Depad` undoes `Pad`, and how a frame
  changes when a result or a child's flags are stored in it. For `MmapGoesOn` the two words
  that are depadded without having been padded are shown to be words of `mmap()`'s own frame
  (`MmapWords` is at least two), above the frame of the system call. The depth
  counter is compared with the number of vector words on the stack.
  `ImplementsScheduler` maps every step to one of `Scheduler` or a stutter, so its
  theorems carry over.
* `TerminalProofs`. The queue's part between head and tail holds exactly the
  waiting processes, each once; waiting processes are suspended in
  `sendbuffer()`. From these, every step of the terminal is a step of the
  scheduler or leaves its variables alone, which proves the refinement. That it
  implements `LineDiscipline` for a careful typist (`KeepsPromiseTheorem`) needs
  `CarefulInv`: at most one process is on its way back from a read, and while none
  is there is room for the NUL that ends the line.
* `HeapProofs`, the kernel's heap. Accounting (frames held, and frames dropped for good), absence of aliases and coherence of the TLB support
  one another: a slot that is not used has no translation cached, which is why
  `mmiomalloc()` needs no flush. `TakesLowest` is the arithmetic of words and bits:
  the first bit of the first word that is not full is the lowest free frame.
* `HeapProofs`, `malloc()`. The properties speak of the blocks met by following `fd`
  from the first one, which a proof cannot follow along with the steps. `MallocInv` says instead that
  there is some set of block addresses in which every block ends where its
  successor begins or at the end of the heap (`Listed`), and `Walk` shows that
  such a set is what the walk meets: by induction, which rests on the fact that
  a set of numbers has a least one (`LeastNumber`). `Held` ties what the program was
  given to the used blocks, `Searched` says that whatever the search has passed is
  used or too small. A split adds one address to the set. The theorems suppose that no
  request is smaller than two words after rounding: a smaller one may split a
  block in which no descriptor fits (`DescriptorsApart` above). Nothing is
  supposed about the upper end; a request of the whole heap is given out
  (`HeldMapped`) but the blocks still tile.
* `AddressSpacesProofs`. The invariant names an owner for every writable
  directory entry and page table entry: a table writable through a directory
  entry has one such entry, a frame writable through a table one such table;
  tables and pages are different frames; whoever else sees one is a descendant.
* `VfsProofs`, lookup. Every page of entries belongs to one file for ever (`Owned`): that
  is what makes it harmless that a directory of the disk is cleared and read anew
  while a descriptor or the walk points into it. `Walked` says which parts of the path were
  found, `Lost` when `strtok()` has lost the others. `TreeAssumption` says that
  directories of the disk contain only files of the disk. `ExistingFoundTheorem` supposes
  that no existing path leads on from a directory of the disk; without it the
  lookup panics (`ResolvesPaths` above).
* `VfsProofs`, descriptors. Each live process has a table and the two pids have different ones
  (`Separate`), for any number of processes. What `open()`, `read()` and `exec()` of the disk do inside the kernel takes
  the lowest free descriptor and gives it back, so that what was in use is the
  same afterwards (`KeepsOpen`). A fork replaces the table of pid 2, whoever forks,
  so init's stays (what the children lose is `ForkClones` above).
* `DriverProofs`, NVMe. Until the last entry of a queue is used the controller has at most
  one command of it, which is at the driver's tail (`Heads`, `Flow`), and it
  posts a completion only after storing the data (`Stored`). The theorem about
  reads, like the property, is about the commands within the page, where the controller finds what was
  built, and leaves out the last before the queue counts as full: its doorbell wraps while
  the controller's ring is one entry longer (`FetchesSubmitted` above).
* `DriverProofs`, screen. `Shows` relates the screen to the roll of everything ever
  written: the cells in front of the cursor are the roll's end, those from it on
  are blank, and what was scrolled off is a whole number of rows. One character keeps it, scrolling
  included; a text keeps it by induction along the text (`PrintText` and `Fill` are recursive
  functions that take one character per step). The line being typed is the end of
  the roll as long as nobody else writes (`Echoed`) and is never longer than
  what is in front of the cursor (`OnScreen`), so backspaces stay within it. The
  size of the screen, the cursor's and the length's moduli are arbitrary within
  `ConsoleAssumption`: the screen fits the cursor registers, and the longest line
  fits the screen without its last row. `CharsAssumption` and `TextsAssumption` say that what
  is typed, written and formatted consists of characters.
* `DriverProofs`, ext2. The disk is any that `ImagesAssumption` allows: a machine
  without a controller, a disk without the signature, or a volume of the kind the code is
  written for (`Formatted`): blocks of one page, descriptors in block 1, directories of one
  block; groups and inodes of any size, tables anywhere, files empty or not. Enumeration stops
  where the nodes or a name leave the page (`Entered`), so what is proved of a listed directory is about
  those that fit, with names cut at `NameBytes`; what is proved of a read is about files that are not empty. `Listing` is the
  invariant of the walk over a directory: after m passes it stands behind the
  m-th entry and has collected the entries up to there, without the directory itself, in their order. A
  pass keeps it because the rounding in `Words` gives the words `mkfs` uses (one number
  only lies in the four bytes), the walk stops at the end of the list or at a removed
  entry, and `MaxEntries` passes are enough to stop. `get_inode()` undoes `InodeNumber`:
  group, block and place are quotients and remainders of the number counted from 0,
  which are unique. `Ext2Inv` says what each stage of the boot has found (`DiskFound`, `VolumeMounted`) and
  that every node known names an inode of the tree and has its type (`Named`).
  Nothing is supposed about where the volume ends: a read beyond it stops the
  kernel and loads nothing.
* `Stage2Proofs`. What the merge has not reached is as the BIOS gave it, and the compaction
  writes only what it has read (`Counters`); no sum wraps (`Bounded`). For
  soundness every entry lies within usable memory, cut at 1 MiB after the
  merge and to whole pages after the alignment (`SoundInv`). For completeness
  a page that was offered is at every moment within one entry of the table,
  or within the one being merged (`CoverInv`). For the kernel, what lies before `pos` is the file's
  (`LoadInv`). The table of the BIOS is any: the properties name the conditions on
  it themselves. `NoWrap`, no entry reaches the end of the 64-bit addresses, is what keeps sums
  exact; `ReachesPage`, every usable entry reaches a page
  boundary, what keeps the subtraction of stage2.c:118 from wrapping; `Addressable`, usable
  memory is within the 32 bits of `boot.kaddr`, to which the address is cut. Since no
  step changes `bios`, each condition holds throughout or never, and the invariants are proved under it.
  `KernelLoadedTheorem` supposes `Mappable`: the segment fits the one page table.

Only model-checked:

* liveness (`ReadyRuns`, `WokenReturns`, `LookupEnds`, `SubmitReturns`), which the
  prover does not reach;
* what `printf()` makes of a format and its arguments (`PrintsFormat`): the loop
  consumes one or two characters and an argument or none at a time, and the number
  conversions divide until nothing is left. The reference definition is a second recursion of another
  shape, and the equality of the two is checked for the calls of the run.

The facts that a running process is READY, that only idle switches to itself and
that the terminal's variables keep their types are theorems and no longer
checked by runs.

## Not modelled

Port I/O and the encoding of PCI addresses; the colours of the screen;
`hexstring()` and the byte loops of `utils.c` and `string.c`, which have no state;
the page of tmpfs, which is copied as a string from and to; the boot sectors, the GDT and the switches
between processor modes, which are straight-line code around the BIOS; the user
programs (processes make any system calls); the unfinished kernel of TitorOS and
the former version under `.old`, which no Makefile builds.

## Plan

1. `Terminal` and `Console` composed, with the reader's line on the screen when it
   is delivered.
2. tmpfs and the other string functions against reference definitions.
