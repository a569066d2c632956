------------------------------- MODULE MemMap -------------------------------
(***************************************************************************)
(* mmap() of titorOS/bootloader/stage2/stage2.c: the memory map the BIOS   *)
(* returns is merged, cut below 1 MiB, aligned to pages and compacted, and *)
(* the kernel is given the first region large enough. One action per       *)
(* iteration of each loop. The BIOS call is external: any table of the     *)
(* bounded size is an input.                                               *)
(***************************************************************************)
EXTENDS Integers, Sequences

CONSTANTS
    NEntries,   \* entries of the BIOS's table
    PAGE_SIZE,
    LowMem,     \* the first address not ignored (0x100000)
    Word,       \* values of a uint64_t (2^64)
    Pointer,    \* values of a 32-bit pointer (2^32)
    MaxAddress, \* bound: start of an entry
    Sizes,      \* bound: sizes of a usable entry
    KSizes      \* boot.ksize, a multiple of PAGE_SIZE

ASSUME MapAssumption == /\ NEntries \in Nat
                        /\ PAGE_SIZE \in Nat \ {0}
                        /\ LowMem \in Nat /\ LowMem % PAGE_SIZE = 0
                        /\ MaxAddress \in Nat /\ Sizes \subseteq Nat
                        /\ Word \in Nat \ {0} /\ Word % PAGE_SIZE = 0
                        /\ Pointer \in Nat \ {0}
                        /\ \A k \in KSizes : k \in Nat /\ k % PAGE_SIZE = 0

VARIABLES
    bios,       \* the table as the BIOS returned it
    ksize,      \* boot.ksize
    table,      \* the table as it is rewritten
    pc,         \* which loop runs
    i, k,       \* its counters
    start, end, \* the entry being merged
    j,          \* usable entries so far; in the end boot.entries
    kaddr       \* boot.kaddr

mapVars == <<bios, ksize, table, pc, i, k, start, end, j, kaddr>>

Usable == {[type |-> "USABLE", address |-> a, size |-> s] : a \in 0..MaxAddress, s \in Sizes}
Reserved == [type |-> "UNUSABLE", address |-> 0, size |-> PAGE_SIZE]

MapInit ==
    /\ bios \in [1..NEntries -> Usable \cup {Reserved}]
    /\ ksize \in KSizes
    /\ table = bios
    /\ i = 1 /\ k = 1 /\ j = 0
    /\ start = 0 /\ end = 0
    /\ kaddr = 0

\* A loop whose counter i has passed the last entry gives way to the next.
Loop(this, following) ==
    /\ pc = this
    /\ i > NEntries
    /\ pc' = following
    /\ i' = 1
    /\ UNCHANGED <<bios, ksize, table, k, start, end, j, kaddr>>

\* The outer loop of the merge skips an entry that is not usable.
SkipEntry ==
    /\ pc = "combine" /\ i <= NEntries
    /\ table[i].type # "USABLE"
    /\ i' = i + 1
    /\ UNCHANGED <<bios, ksize, table, pc, k, start, end, j, kaddr>>

\* It takes an entry's bounds and starts on the entries behind it.
TakeEntry ==
    /\ pc = "combine" /\ i <= NEntries
    /\ table[i].type = "USABLE"
    /\ start' = table[i].address
    /\ end' = (table[i].address + table[i].size) % Word
    /\ k' = i + 1
    /\ pc' = "overlap"
    /\ UNCHANGED <<bios, ksize, table, i, j, kaddr>>

Merged_EndKept(ks, ke) ==
    IF start <= ks /\ ks <= end THEN <<start, end>>
    ELSE IF start <= ke /\ ke <= end THEN <<IF ks < start THEN ks ELSE start, end>>
    ELSE IF ks <= start /\ ke >= end THEN <<ks, ke>>
    ELSE <<>>

\* The three ways another entry can overlap the one being merged, and the
\* bounds of both together; empty when they are apart.
Merged(ks, ke) ==
    IF start <= ks /\ ks <= end THEN <<start, IF ke > end THEN ke ELSE end>>
    ELSE IF start <= ke /\ ke <= end THEN <<IF ks < start THEN ks ELSE start, end>>
    ELSE IF ks <= start /\ ke >= end THEN <<ks, ke>>
    ELSE <<>>

\* One iteration of the inner loop: an entry that overlaps is swallowed.
Overlap ==
    /\ pc = "overlap" /\ k <= NEntries
    /\ LET m == Merged(table[k].address, (table[k].address + table[k].size) % Word) IN
       IF table[k].type = "USABLE" /\ m # <<>>
       THEN /\ start' = m[1] /\ end' = m[2]
            /\ table' = [table EXCEPT ![k].type = "UNUSABLE"]
       ELSE UNCHANGED <<start, end, table>>
    /\ k' = k + 1
    /\ UNCHANGED <<bios, ksize, pc, i, j, kaddr>>

\* The first 1 MiB is cut off.
CutStart == IF start < LowMem THEN LowMem ELSE start

\* The merged entry is written back, unusable if all of it is low memory.
StoreEntry ==
    /\ pc = "overlap" /\ k > NEntries
    /\ table' = [table EXCEPT
        ![i].type = IF end <= LowMem THEN "UNUSABLE" ELSE @,
        ![i].address = CutStart,
        ![i].size = (end - CutStart) % Word]
    /\ pc' = "combine"
    /\ i' = i + 1
    /\ UNCHANGED <<bios, ksize, k, start, end, j, kaddr>>

Gap_Down(a) == -(a % PAGE_SIZE)

\* The distance to the next page boundary.
Gap(a) == IF a % PAGE_SIZE = 0 THEN 0 ELSE PAGE_SIZE - (a % PAGE_SIZE)

\* The entry's address is moved up to a page boundary, then its end down.
Aligned(e) ==
    LET a == (e.address + Gap(e.address)) % Word
        s == (e.size - Gap(e.address)) % Word
    IN  [e EXCEPT !.address = a, !.size = (s - (((a + s) % Word) % PAGE_SIZE)) % Word]

Align ==
    /\ pc = "align" /\ i <= NEntries
    /\ table' = [table EXCEPT ![i] = Aligned(@)]
    /\ i' = i + 1
    /\ UNCHANGED <<bios, ksize, pc, k, start, end, j, kaddr>>

\* Usable entries move to the front.
Truncate ==
    /\ pc = "truncate" /\ i <= NEntries
    /\ IF table[i].type = "USABLE"
       THEN table' = [table EXCEPT ![j + 1] = table[i]] /\ j' = j + 1
       ELSE UNCHANGED <<table, j>>
    /\ i' = i + 1
    /\ UNCHANGED <<bios, ksize, pc, k, start, end, kaddr>>

Fits_Nonempty(n) == table[n].size > 0

Fits(n) == table[n].size >= ksize

\* The kernel goes to the first entry that is large enough.
Place ==
    /\ pc = "place"
    /\ \E n \in 1..j :
        /\ Fits(n) /\ \A m \in 1..(n - 1) : ~Fits(m)
        /\ kaddr' = table[n].address % Pointer
    /\ pc' = "done"
    /\ UNCHANGED <<bios, ksize, table, i, k, start, end, j>>

\* "Can't load kernel": an endless loop.
CannotLoad ==
    /\ pc = "place"
    /\ \A n \in 1..j : ~Fits(n)
    /\ pc' = "cannot load"
    /\ UNCHANGED <<bios, ksize, table, i, k, start, end, j, kaddr>>

MapNext ==
    \/ SkipEntry \/ TakeEntry \/ Overlap \/ StoreEntry
    \/ Loop("combine", "align")
    \/ Align
    \/ Loop("align", "truncate")
    \/ Truncate
    \/ Loop("truncate", "place")
    \/ Place \/ CannotLoad

----------------------------------------------------------------------------
(* Properties *)

\* The bytes of a table's entry, and those the BIOS calls usable.
Bytes(e) == e.address..(e.address + e.size - 1)
Offers == {m \in 1..NEntries : bios[m].type = "USABLE"}
UsableBytes == UNION {Bytes(bios[n]) : n \in Offers}
Final == pc \in {"done", "cannot load"}

\* What the code takes for granted of the BIOS's table: no entry reaches the
\* end of the 64-bit numbers; each reaches the next page boundary, whose
\* distance line 118 subtracts from the size without a look; and, for the
\* kernel, which is addressed with 32 bits (line 138), none lies beyond those.
NoWrap == \A n \in Offers : bios[n].address + bios[n].size < Word
ReachesPage == \A n \in Offers :
    \E b \in bios[n].address..(bios[n].address + bios[n].size) : b % PAGE_SIZE = 0
Addressable == \A n \in Offers : bios[n].address + bios[n].size <= Pointer

\* The list lists only usable memory above 1 MiB, in whole pages: neither a
\* merge nor the alignment adds a byte the BIOS did not offer, in whatever order
\* and however its entries overlap (stage2.c:74-124). Only for tables whose
\* entries all reach a page boundary: a smaller one between two boundaries gets
\* a size of almost 2^64.
ListSound ==
    Final /\ NoWrap /\ ReachesPage => \A n \in 1..j :
        /\ Bytes(table[n]) \subseteq UsableBytes \ (0..(LowMem - 1))
        /\ table[n].address % PAGE_SIZE = 0 /\ table[n].size % PAGE_SIZE = 0

\* And it lists all of it: a page that lies within one entry of the BIOS, above
\* 1 MiB, is in the list, whatever overlapped what (stage2.c:74-133). Small
\* entries take nothing away; one that wraps would.
ListComplete ==
    Final /\ NoWrap => \A n \in 1..NEntries : \A p \in Bytes(bios[n]) :
        LET page == p..(p + PAGE_SIZE - 1) IN
        bios[n].type = "USABLE" /\ p % PAGE_SIZE = 0 /\ p >= LowMem /\ page \subseteq Bytes(bios[n])
            => \E m \in 1..j : page \subseteq Bytes(table[m])

\* stage2.c:135 looks for a "suitable slot for kernel" in the list: all of the
\* memory it gives the kernel is usable and above 1 MiB. Under the conditions
\* above only: with an entry that line 118 made huge, or one beyond 4 GiB whose
\* address line 138 cuts, the kernel goes where there may be nothing.
KernelInUsable ==
    pc = "done" /\ NoWrap /\ ReachesPage /\ Addressable => kaddr..(kaddr + ksize - 1) \subseteq UsableBytes \ (0..(LowMem - 1))

\* stage2.c:73: the first loop is to "combine overlaps": no two regions of the
\* final list overlap.
NoOverlaps ==
    Final => \A m, n \in 1..j : m # n => Bytes(table[m]) \cap Bytes(table[n]) = {}
=============================================================================
