------------------------------- MODULE Stage2 -------------------------------
(***************************************************************************)
(* stage2() of titorOS/bootloader/stage2: the ELF file is searched on the  *)
(* disk, mmap() finds room for its segment (MemMap), the segment is read   *)
(* sector by sector, the rest of it cleared, and the kernel mapped at its  *)
(* virtual address.                                                        *)
(*                                                                         *)
(* A byte of the disk is its position there, counted from 1; Zero and      *)
(* Unset are no byte of the disk. Memory is looked at from boot.kaddr on.  *)
(***************************************************************************)
EXTENDS MemMap

CONSTANTS
    SECTOR_SIZE,
    SectorMod,      \* values of the sector field of CX (64)
    PtEntries,      \* pages kernel_pt maps (512)
    Headers         \* ELF files: sector of the header, p_offset, p_filesz, p_memsz

ASSUME Stage2Assumption ==
    /\ SECTOR_SIZE \in Nat \ {0} /\ PAGE_SIZE % SECTOR_SIZE = 0
    /\ SectorMod \in Nat \ {0} /\ PtEntries \in Nat
    \* The segment starts at a sector of the file, as its page alignment makes it.
    /\ \A h \in Headers : /\ h.p_offset \in Nat /\ h.p_filesz \in Nat /\ h.p_memsz \in Nat
                          /\ h.p_filesz <= h.p_memsz /\ h.base \in 1..(SectorMod - 1)
                          /\ h.p_offset % SECTOR_SIZE = 0

VARIABLES
    elf,            \* the file on the disk
    base,           \* disk_sector_base
    pos,
    seg_sector,
    mem,            \* memory from boot.kaddr on
    kernel_pt

vars == <<mapVars, elf, base, pos, seg_sector, mem, kernel_pt>>
loadVars == <<elf, base, pos, seg_sector, mem, kernel_pt>>

Zero == 0
Unset == -1
Extent == 0..(ksize + SECTOR_SIZE - 1)
InSector == 0..(SECTOR_SIZE - 1)

\* ksize is p_memsz rounded up to pages.
RoundUp(n) == n + Gap(n)

Init ==
    /\ MapInit
    /\ pc = "search"
    /\ elf \in Headers
    /\ ksize = RoundUp(elf.p_memsz)
    /\ base = 1 /\ pos = 0
    /\ seg_sector = [b \in InSector |-> Unset]
    /\ mem = [o \in Extent |-> Unset]
    /\ kernel_pt = [e \in 0..(PtEntries - 1) |-> Unset]

\* bios_read() hands the number to the BIOS as it is: the low bits are the sector
\* of the track, counted from 1, the others the cylinder. Sector 0 is an error,
\* which nobody looks at: the buffer keeps what it held. Another cylinder is
\* another place than the one meant.
bios_read(n, buffer) ==
    IF n % SectorMod = 0 THEN buffer
    ELSE IF n < SectorMod THEN [b \in InSector |-> (n - 1) * SECTOR_SIZE + b + 1]
    ELSE [b \in InSector |-> Unset]

\* The loop that reads sectors from the first on until one is an ELF header.
Search ==
    /\ pc = "search"
    /\ IF base = elf.base THEN pc' = "combine" /\ UNCHANGED base
                          ELSE base' = base + 1 /\ UNCHANGED pc
    /\ UNCHANGED <<bios, ksize, table, i, k, start, end, j, kaddr,
                   elf, pos, seg_sector, mem, kernel_pt>>

\* mmap()
Map == MapNext /\ UNCHANGED loadVars

StartLoad ==
    /\ pc = "done"
    /\ pc' = "load"
    /\ UNCHANGED <<bios, ksize, table, i, k, start, end, j, kaddr, loadVars>>

DiskSector == base + elf.p_offset \div SECTOR_SIZE

More_Less == pos + SECTOR_SIZE <= elf.p_filesz

\* The condition of the sector loop, which also holds when pos has reached the
\* end of a file that is a whole number of sectors.
More == pos <= elf.p_filesz

\* One sector is read and copied.
LoadSector ==
    /\ pc = "load" /\ More
    /\ seg_sector' = bios_read(DiskSector + pos \div SECTOR_SIZE, seg_sector)
    /\ mem' = [o \in Extent |-> IF o - pos \in InSector THEN seg_sector'[o - pos] ELSE mem[o]]
    /\ pos' = pos + SECTOR_SIZE
    /\ UNCHANGED <<mapVars, elf, base, kernel_pt>>

\* What is left of the segment is cleared, and kernel_pt set up.
ClearAndMap ==
    /\ pc = "load" /\ ~More
    /\ mem' = [o \in Extent |-> IF pos <= o /\ o < elf.p_memsz THEN Zero ELSE mem[o]]
    /\ kernel_pt' = [e \in DOMAIN kernel_pt |-> kaddr + e * PAGE_SIZE]
    /\ pc' = "kernel"
    /\ UNCHANGED <<bios, ksize, table, i, k, start, end, j, kaddr, elf, base, pos, seg_sector>>

Ended == pc \in {"kernel", "cannot load"} /\ UNCHANGED vars

Next == Search \/ Map \/ StartLoad \/ LoadSector \/ ClearAndMap \/ Ended

Spec == Init /\ [][Next]_vars

----------------------------------------------------------------------------
(* Properties *)

\* The byte at an offset of the kernel's virtual memory.
Seen(o) == mem[kernel_pt[o \div PAGE_SIZE] + (o % PAGE_SIZE) - kaddr]

\* A byte of the segment in the file.
InFile(o) == (base - 1) * SECTOR_SIZE + elf.p_offset + o + 1

\* When the kernel is entered it sees, at its virtual addresses, every byte of
\* its segment in the file and, from the end of the last sector on, zeros up to
\* the segment's size in memory; nothing before has moved or overwritten any of
\* it. This for files that lie within the first track, as SectorMod bounds it.
KernelLoaded ==
    pc = "kernel" /\ DiskSector + elf.p_filesz \div SECTOR_SIZE < SectorMod =>
        /\ \A o \in 0..(elf.p_filesz - 1) : Seen(o) = InFile(o)
        /\ \A o \in pos..(elf.p_memsz - 1) : Seen(o) = Zero
=============================================================================
