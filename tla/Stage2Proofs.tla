---------------------------- MODULE Stage2Proofs ----------------------------
(***************************************************************************)
(* Proofs about Stage2 (and MemMap, which it extends) for tables, pages,   *)
(* sectors and files of any size: the list of memory regions is sound and  *)
(* complete, the kernel is placed in usable memory, and what it sees there *)
(* is its segment.                                                         *)
(***************************************************************************)
EXTENDS Stage2, TLAPS

----------------------------------------------------------------------------
(* What the last theorem supposes of the file *)

\* kernel_pt maps the whole segment.
Mappable == \A h \in Headers : h.p_memsz <= PtEntries * PAGE_SIZE

----------------------------------------------------------------------------
(* The inductive invariants *)

Regions == [type : {"USABLE", "UNUSABLE"}, address : Nat, size : Nat]
Merging == pc \in {"search", "combine", "overlap"}
Index == 1..NEntries

TypeOK ==
    /\ bios \in [Index -> Regions]
    /\ table \in [Index -> Regions]
    /\ ksize \in Nat /\ start \in Nat /\ end \in Nat /\ j \in Nat /\ kaddr \in Nat
    /\ i \in Nat \ {0} /\ k \in Nat \ {0}
    /\ pc \in {"search", "combine", "overlap", "align", "truncate", "place", "done", "cannot load",
               "load", "kernel"}

\* How far the loops are: what the merge has not reached is as the BIOS gave
\* it, and the compaction writes only what it has read.
Counters ==
    /\ pc = "search" => i = 1
    /\ Merging => \A n \in Index : n >= i =>
        /\ table[n].address = bios[n].address /\ table[n].size = bios[n].size
        /\ table[n].type = "USABLE" => bios[n].type = "USABLE"
    /\ pc = "overlap" => i \in Index /\ i < k /\ table[i].type = "USABLE"
    /\ Merging \/ pc = "align" => j = 0
    /\ pc = "truncate" => j < i
    /\ j <= NEntries

MapInv == TypeOK /\ Counters

\* No entry that is not aligned yet wraps, nor the one being merged.
Bounded ==
    /\ pc = "overlap" => start <= end /\ end < Word
    /\ \A n \in Index : (Merging \/ (pc = "align" /\ n >= i)) /\ table[n].type = "USABLE" =>
        table[n].address + table[n].size < Word

\* The addresses from lo up to hi are all in U.
Within(U, lo, hi) == \A x \in lo..(hi - 1) : x \in U

\* An entry after the merge, and one after the alignment.
Cut(e, U) ==
    /\ LowMem <= e.address
    /\ e.address + Gap(e.address) <= e.address + e.size
    /\ Within(U, e.address, e.address + e.size)
Listed(e, U) ==
    /\ LowMem <= e.address
    /\ e.address % PAGE_SIZE = 0 /\ e.size % PAGE_SIZE = 0
    /\ Within(U, e.address, e.address + e.size)

SoundInv ==
    /\ pc = "overlap" => start + Gap(start) <= end /\ Within(UsableBytes, start, end)
    /\ \A n \in Index : table[n].type = "USABLE" =>
        /\ (Merging /\ n < i) \/ (pc = "align" /\ n >= i) => Cut(table[n], UsableBytes)
        /\ (pc = "align" /\ n < i) \/ (pc = "truncate" /\ n >= i) => Listed(table[n], UsableBytes)
    /\ \A n \in 1..j : Listed(table[n], UsableBytes)

\* A page at address p that the BIOS offers, and where the table has it.
Has(e, p) == e.type = "USABLE" /\ e.address <= p /\ p + PAGE_SIZE <= e.address + e.size
Offered(p) == p % PAGE_SIZE = 0 /\ LowMem <= p /\ \E n \in Index : Has(bios[n], p)
Holds(p, n) ==
    /\ Has(table[n], p)
    /\ pc = "overlap" => n # i
    /\ pc = "truncate" => n <= j \/ n >= i
    /\ ~ Merging /\ pc \notin {"align", "truncate"} => n <= j

Covered(p) ==
    \/ pc = "overlap" /\ start <= p /\ p + PAGE_SIZE <= end
    \/ \E n \in Index : Holds(p, n)

CoverInv == \A p \in Nat : Offered(p) => Covered(p)

PlaceInv == pc \in {"done", "load", "kernel"} =>
    \E n \in 1..j : kaddr = table[n].address % Pointer /\ table[n].size >= ksize

\* The segment lies within the track that can be addressed.
OneTrack == DiskSector + elf.p_filesz \div SECTOR_SIZE < SectorMod

LoadInv ==
    /\ elf \in Headers /\ ksize = RoundUp(elf.p_memsz)
    /\ base \in Nat /\ pos \in Nat /\ pos % SECTOR_SIZE = 0
    /\ pc # "search" => base = elf.base
    /\ pc \notin {"load", "kernel"} => pos = 0
    /\ pc = "kernel" => pos > elf.p_filesz
    /\ pc # "kernel" => DOMAIN kernel_pt = 0..(PtEntries - 1)
    /\ pc = "kernel" => kernel_pt = [e \in 0..(PtEntries - 1) |-> kaddr + e * PAGE_SIZE]
    /\ OneTrack => \A o \in Extent : o < pos /\ (pc = "kernel" => o < elf.p_filesz) => mem[o] = InFile(o)
    /\ pc = "kernel" => \A o \in Extent : pos <= o /\ o < elf.p_memsz => mem[o] = Zero

----------------------------------------------------------------------------
(* Arithmetic *)

LEMMA DivMod ==
    ASSUME NEW n \in Nat \ {0}, NEW x \in Int
    PROVE  x \div n \in Int /\ x % n \in 0..(n - 1) /\ x = (x \div n) * n + (x % n)
OBVIOUS

LEMMA MulMono ==
    ASSUME NEW n \in Nat \ {0}, NEW p \in Int, NEW q \in Int, p <= q
    PROVE  p * n <= q * n
OBVIOUS

LEMMA Distribute ==
    ASSUME NEW n \in Int, NEW p \in Int, NEW q \in Int
    PROVE  (p + q) * n = p * n + q * n /\ (p - q) * n = p * n - q * n
OBVIOUS

\* A number has one quotient and one remainder.
LEMMA Unique ==
    ASSUME NEW n \in Nat \ {0}, NEW q \in Int, NEW r \in 0..(n - 1)
    PROVE  (q * n + r) % n = r /\ (q * n + r) \div n = q
OBVIOUS

LEMMA Below ==
    ASSUME NEW n \in Nat \ {0}, NEW x \in 0..(n - 1)
    PROVE  x % n = x
OBVIOUS

LEMMA Multiple ==
    ASSUME NEW n \in Nat \ {0}, NEW x \in Int
    PROVE  x % n = 0 <=> \E q \in Int : x = q * n
<1>1. ASSUME x % n = 0 PROVE \E q \in Int : x = q * n
    <2>1. x \div n \in Int /\ x = (x \div n) * n + (x % n)
        BY DivMod
    <2>2. (x \div n) * n \in Int
        BY <2>1
    <2>3. x = (x \div n) * n
        BY <1>1, <2>1, <2>2
    <2> QED BY <2>1, <2>3
<1>2. ASSUME NEW q \in Int, x = q * n PROVE x % n = 0
    <2>1. (q * n + 0) % n = 0
        BY Unique
    <2>2. q * n + 0 = x
        BY <1>2
    <2> QED BY <2>1, <2>2
<1> QED BY <1>1, <1>2

LEMMA Multiples ==
    ASSUME NEW n \in Nat \ {0}, NEW x \in Int, NEW y \in Int, x % n = 0, y % n = 0
    PROVE  (x + y) % n = 0 /\ (x - y) % n = 0
<1>1. PICK p \in Int : x = p * n
    BY Multiple
<1>2. PICK q \in Int : y = q * n
    BY Multiple
<1>3. x + y = (p + q) * n /\ x - y = (p - q) * n
    BY <1>1, <1>2, Distribute
<1>4. x + y \in Int /\ x - y \in Int /\ p + q \in Int /\ p - q \in Int
    OBVIOUS
<1> QED BY <1>3, <1>4, Multiple, Zenon

\* The next page boundary is at most as far as any other behind.
LEMMA GapFacts ==
    ASSUME NEW a \in Nat
    PROVE  /\ Gap(a) \in 0..(PAGE_SIZE - 1) /\ (a + Gap(a)) % PAGE_SIZE = 0
           /\ \A p \in Nat : p % PAGE_SIZE = 0 /\ a <= p => a + Gap(a) <= p
<1> DEFINE n == PAGE_SIZE
<1>0. n \in Nat \ {0}
    BY MapAssumption
<1> HIDE DEF n
<1>1. PICK q \in Int, r \in 0..(n - 1) : q = a \div n /\ r = a % n /\ a = q * n + r
    BY <1>0, DivMod
<1>2. Gap(a) = IF r = 0 THEN 0 ELSE n - r
    BY <1>1 DEF Gap, n
<1>3. CASE r = 0
    <2>1. Gap(a) = 0 /\ a + Gap(a) = a
        BY <1>2, <1>3
    <2> QED BY <1>0, <1>1, <1>3, <2>1 DEF n
<1>4. CASE r # 0
    <2>1. Gap(a) = n - r /\ Gap(a) \in 0..(n - 1)
        BY <1>0, <1>2, <1>4
    <2>2. q * n \in Int /\ (q + 1) * n = q * n + n
        BY <1>0, Distribute
    <2>3. a + Gap(a) = (q + 1) * n
        BY <1>0, <1>1, <2>1, <2>2
    <2>4. (a + Gap(a)) % n = 0
        <3>1. a + Gap(a) \in Int /\ q + 1 \in Int
            BY <1>0, <2>1
        <3> QED BY <1>0, <2>3, <3>1, Multiple, Zenon
    <2>5. ASSUME NEW p \in Nat, p % n = 0, a <= p PROVE a + Gap(a) <= p
        <3>1. PICK s \in Int : p = s * n
            BY <1>0, <2>5, Multiple
        <3>2. ~ (s <= q)
            <4>1. s <= q => s * n <= q * n
                BY <1>0, MulMono
            <4> QED BY <1>0, <1>1, <1>4, <2>2, <2>5, <3>1, <4>1
        <3>3. (q + 1) * n <= s * n
            BY <1>0, <3>2, MulMono
        <3> QED BY <2>3, <3>1, <3>3
    <2> QED BY <2>1, <2>4, <2>5 DEF n
<1> QED BY <1>3, <1>4

\* The page boundary before.
LEMMA DownFacts ==
    ASSUME NEW n \in Nat \ {0}, NEW x \in Nat
    PROVE  /\ (x - (x % n)) % n = 0
           /\ \A p \in Nat : p % n = 0 /\ p <= x => p <= x - (x % n)
<1>1. PICK q \in Int, r \in 0..(n - 1) : r = x % n /\ x = q * n + r
    <2>1. x \in Int
        OBVIOUS
    <2> QED BY <2>1, DivMod, Zenon
<1>2. q * n \in Int /\ (q + 1) * n = q * n + n
    BY Distribute
<1>3. x - (x % n) = q * n
    BY <1>1, <1>2
<1>4. ASSUME NEW p \in Nat, p % n = 0, p <= x PROVE p <= x - (x % n)
    <2>1. PICK s \in Int : p = s * n
        BY <1>4, Multiple
    <2>2. ~ (q + 1 <= s)
        <3>1. q + 1 <= s => (q + 1) * n <= s * n
            BY MulMono
        <3> QED BY <1>1, <1>2, <1>4, <2>1, <3>1
    <2>3. s * n <= q * n
        BY <2>2, MulMono
    <2> QED BY <1>3, <2>1, <2>3
<1> QED BY <1>2, <1>3, <1>4, Multiple

----------------------------------------------------------------------------
(* What each pass does to the table *)

LEMMA RegionFields ==
    ASSUME NEW e \in Regions
    PROVE  e.type \in {"USABLE", "UNUSABLE"} /\ e.address \in Nat /\ e.size \in Nat
BY DEF Regions

LEMMA RegionGap ==
    ASSUME NEW e \in Regions
    PROVE  /\ e.address \in Nat /\ e.size \in Nat /\ Gap(e.address) \in Nat
           /\ PAGE_SIZE \in Nat \ {0} /\ Word \in Nat \ {0}
           /\ (e.address + Gap(e.address)) % PAGE_SIZE = 0
<1>1. e.address \in Nat /\ e.size \in Nat
    BY RegionFields
<1>2. Gap(e.address) \in 0..(PAGE_SIZE - 1) /\ (e.address + Gap(e.address)) % PAGE_SIZE = 0
    BY <1>1, GapFacts, Zenon
<1> QED BY <1>1, <1>2, MapAssumption

\* A number that does not wrap is stored as it is, any other is a number too.
LEMMA Stored ==
    ASSUME NEW x \in Int
    PROVE  x % Word \in Nat /\ (0 <= x /\ x < Word => x % Word = x)
<1>1. Word \in Nat \ {0}
    BY MapAssumption
<1>2. x % Word \in 0..(Word - 1)
    BY <1>1, DivMod
<1>3. ASSUME 0 <= x, x < Word PROVE x % Word = x
    BY <1>1, <1>3, Below
<1> QED BY <1>1, <1>2, <1>3

LEMMA StoreFacts ==
    ASSUME TypeOK, i \in Index, StoreEntry
    PROVE  /\ table' \in [Index -> Regions]
           /\ table'[i].type = IF end <= LowMem THEN "UNUSABLE" ELSE table[i].type
           /\ table'[i].address = CutStart /\ table'[i].size = (end - CutStart) % Word
           /\ \A n \in Index : n # i => table'[n] = table[n]
<1>1. table \in [Index -> Regions] /\ end \in Nat /\ start \in Nat /\ LowMem \in Nat
    BY MapAssumption DEF TypeOK
<1>2. CutStart \in Nat
    BY <1>1 DEF CutStart
<1>3. (end - CutStart) % Word \in Nat
    BY <1>1, <1>2, Stored
<1>4. PICK a \in Nat, s \in Nat : a = CutStart /\ s = (end - CutStart) % Word
    BY <1>2, <1>3
<1>5. PICK e \in Regions : e = table[i]
    BY <1>1
<1>6. PICK y \in {"USABLE", "UNUSABLE"} : y = IF end <= LowMem THEN "UNUSABLE" ELSE e.type
    BY RegionFields
<1>7. PICK r : r = [e EXCEPT !.type = y, !.address = a, !.size = s]
    OBVIOUS
<1>8. r \in Regions /\ r.type = y /\ r.address = a /\ r.size = s
    BY <1>7 DEF Regions
<1>9. table' = [table EXCEPT ![i] = r]
    BY <1>1, <1>4, <1>5, <1>6, <1>7 DEF StoreEntry
<1> QED BY <1>1, <1>4, <1>5, <1>6, <1>8, <1>9

LEMMA OverlapFacts ==
    ASSUME TypeOK, Overlap
    PROVE  /\ k \in Index /\ table' \in [Index -> Regions]
           /\ table'[k].address = table[k].address /\ table'[k].size = table[k].size
           /\ table'[k].type = "USABLE" => table[k].type = "USABLE" /\ table'[k] = table[k]
           /\ \A n \in Index : n # k => table'[n] = table[n]
<1>0. table \in [Index -> Regions] /\ k \in Nat \ {0}
    BY MapAssumption DEF TypeOK, Index
<1>1. table \in [Index -> Regions] /\ k \in Index
    BY <1>0, MapAssumption, SMTT(30) DEF Overlap, Index
<1>2. CASE table' = table
    BY <1>1, <1>2
<1>3. CASE table' = [table EXCEPT ![k].type = "UNUSABLE"]
    <2>1. PICK e \in Regions : e = table[k]
        BY <1>1
    <2>2. table' = [table EXCEPT ![k] = [e EXCEPT !.type = "UNUSABLE"]]
        BY <1>1, <1>3, <2>1
    <2>3. [e EXCEPT !.type = "UNUSABLE"] = [type |-> "UNUSABLE", address |-> e.address, size |-> e.size]
        BY DEF Regions
    <2>4. [type |-> "UNUSABLE", address |-> e.address, size |-> e.size] \in Regions
        BY RegionFields DEF Regions
    <2> QED BY <1>1, <2>1, <2>2, <2>3, <2>4
<1> QED BY <1>2, <1>3 DEF Overlap

\* An overlap makes the two bounds of both regions together.
LEMMA MergedFacts ==
    ASSUME start \in Nat, end \in Nat, start <= end, NEW ks \in Nat, NEW ke \in Nat, ks <= ke,
           Merged(ks, ke) # <<>>
    PROVE  /\ ks <= end /\ start <= ke
           /\ Merged(ks, ke)[1] = IF ks < start THEN ks ELSE start
           /\ Merged(ks, ke)[2] = IF ke > end THEN ke ELSE end
<1>1. CASE start <= ks /\ ks <= end
    BY <1>1 DEF Merged
<1>2. CASE ~ (start <= ks /\ ks <= end) /\ start <= ke /\ ke <= end
    BY <1>2 DEF Merged
<1>3. CASE ~ (start <= ks /\ ks <= end) /\ ~ (start <= ke /\ ke <= end) /\ ks <= start /\ ke >= end
    BY <1>3 DEF Merged
<1>4. CASE ~ (start <= ks /\ ks <= end) /\ ~ (start <= ke /\ ke <= end) /\ ~ (ks <= start /\ ke >= end)
    BY <1>4 DEF Merged
<1> QED BY <1>1, <1>2, <1>3, <1>4

\* Alignment, of an entry that does not wrap and reaches a page boundary.
LEMMA AlignedType == ASSUME NEW e \in Regions PROVE Aligned(e) \in Regions /\ Aligned(e).type = e.type
<1> DEFINE a == (e.address + Gap(e.address)) % Word
<1> DEFINE s == (e.size - Gap(e.address)) % Word
<1> DEFINE z == (s - (((a + s) % Word) % PAGE_SIZE)) % Word
<1>1. e.address \in Nat /\ e.size \in Nat /\ Gap(e.address) \in Nat /\ PAGE_SIZE \in Nat \ {0}
    BY RegionGap
<1>2. a \in Nat /\ s \in Nat
    <2>1. e.address + Gap(e.address) \in Int /\ e.size - Gap(e.address) \in Int
        BY <1>1
    <2> QED BY <2>1, Stored, Zenon
<1> HIDE DEF a, s
<1>3. (a + s) % Word \in Nat
    <2>1. a + s \in Int
        BY <1>2
    <2> QED BY <2>1, Stored, Zenon
<1>4. ((a + s) % Word) % PAGE_SIZE \in Int
    BY <1>1, <1>3, DivMod
<1>5. z \in Nat
    <2>1. s - (((a + s) % Word) % PAGE_SIZE) \in Int
        BY <1>2, <1>4
    <2> QED BY <2>1, Stored, Zenon
<1>6. Aligned(e) = [e EXCEPT !.address = a, !.size = z]
    BY DEF Aligned, a, s, z
<1> HIDE DEF z
<1> QED BY <1>2, <1>5, <1>6 DEF Regions

LEMMA AlignedFacts ==
    ASSUME NEW e \in Regions, e.address + e.size < Word, Gap(e.address) <= e.size
    PROVE  /\ Aligned(e).address = e.address + Gap(e.address)
           /\ Aligned(e).size \in Nat
           /\ Aligned(e).address + Aligned(e).size
              = (e.address + e.size) - ((e.address + e.size) % PAGE_SIZE)
<1> DEFINE g == Gap(e.address)
<1> DEFINE x == e.address + e.size
<1> DEFINE r == x % PAGE_SIZE
<1>1. e.address \in Nat /\ e.size \in Nat /\ g \in Nat /\ PAGE_SIZE \in Nat \ {0} /\ Word \in Nat \ {0}
      /\ (e.address + g) % PAGE_SIZE = 0
    BY RegionGap
<1>2. r \in 0..(PAGE_SIZE - 1) /\ x \in Nat
    <2>1. x \in Nat /\ x \in Int
        BY <1>1
    <2> QED BY <1>1, <2>1, DivMod, Zenon
<1>3. e.address + g <= x - r
    <2>1. (e.address + g) % PAGE_SIZE = 0 /\ e.address + g \in Nat /\ e.address + g <= x
        BY <1>1
    <2> QED BY <1>1, <1>2, <2>1, DownFacts, Zenon
<1>4. (e.address + g) % Word = e.address + g
    <2>1. e.address + g \in Int /\ 0 <= e.address + g /\ e.address + g < Word
        BY <1>1
    <2> QED BY <2>1, Stored, Zenon
<1>5. (e.size - g) % Word = e.size - g
    <2>1. e.size - g \in Int /\ 0 <= e.size - g /\ e.size - g < Word
        BY <1>1
    <2> QED BY <2>1, Stored, Zenon
<1>6. (e.address + g) + (e.size - g) = x /\ x % Word = x
    <2>1. x \in Int /\ 0 <= x /\ x < Word
        BY <1>1
    <2>2. x % Word = x
        BY <2>1, Stored, Zenon
    <2> QED BY <1>1, <2>2
<1>7. ((e.size - g) - r) % Word = (e.size - g) - r /\ (e.size - g) - r \in Nat
    <2>1. (e.size - g) - r \in Int /\ 0 <= (e.size - g) - r /\ (e.size - g) - r < Word
        BY <1>1, <1>2, <1>3
    <2>2. ((e.size - g) - r) % Word = (e.size - g) - r
        BY <2>1, Stored, Zenon
    <2> QED BY <2>1, <2>2
<1>8. Aligned(e) = [e EXCEPT !.address = e.address + g, !.size = (e.size - g) - r]
    <2> HIDE DEF g, r
    <2>1. Aligned(e) = [e EXCEPT !.address = (e.address + g) % Word,
            !.size = (((e.size - g) % Word) -
                (((((e.address + g) % Word) + ((e.size - g) % Word)) % Word) % PAGE_SIZE)) % Word]
        BY Zenon DEF Aligned, g
    <2>2. (((e.address + g) % Word) + ((e.size - g) % Word)) % Word = x
        BY <1>4, <1>5, <1>6, Zenon
    <2>3. (((e.size - g) % Word) - (x % PAGE_SIZE)) % Word = (e.size - g) - r
        BY <1>5, <1>7, Zenon DEF r
    <2> QED BY <2>1, <2>2, <2>3, <1>4, Zenon
<1> PICK b \in Nat, t \in Nat : b = e.address + g /\ t = (e.size - g) - r
    BY <1>1, <1>7
<1>9. Aligned(e) = [e EXCEPT !.address = b, !.size = t]
    BY <1>8, Zenon
<1>10. Aligned(e).address = b /\ Aligned(e).size = t
    BY <1>9 DEF Regions
<1>11. b + t = x - r
    BY <1>1, <1>2
<1> QED BY <1>10, <1>11

----------------------------------------------------------------------------
(* Types and counters *)

LEMMA MapInvInit == Init => MapInv
<1> SUFFICES ASSUME Init PROVE MapInv
    OBVIOUS
<1>1. /\ bios \in [Index -> Usable \cup {Reserved}] /\ ksize \in KSizes /\ table = bios
      /\ i = 1 /\ k = 1 /\ j = 0 /\ start = 0 /\ end = 0 /\ kaddr = 0 /\ pc = "search"
    BY DEF Init, MapInit, Index
<1>2. Usable \subseteq Regions /\ Reserved \in Regions /\ Reserved.type # "USABLE"
    BY MapAssumption DEF Usable, Reserved, Regions
<1>3. bios \in [Index -> Regions]
    BY <1>1, <1>2
<1>4. TypeOK
    BY <1>1, <1>3, MapAssumption DEF TypeOK
<1>5. Counters
    BY <1>1, MapAssumption DEF Counters, Merging
<1> QED BY <1>4, <1>5 DEF MapInv

LEMMA LoopKeeps ==
    ASSUME MapInv, NEW this, NEW following, Loop(this, following),
           \/ this = "combine" /\ following = "align"
           \/ this = "align" /\ following = "truncate"
           \/ this = "truncate" /\ following = "place"
    PROVE  MapInv'
<1>1. /\ pc = this /\ pc' = following /\ i' = 1 /\ UNCHANGED <<bios, ksize, table, k, start, end, j, kaddr>>
    BY DEF Loop
<1>2. TypeOK'
    <2>1. i' \in Nat \ {0}
        BY <1>1
    <2>2. pc' \in {"align", "truncate", "place"}
        BY <1>1
    <2> QED BY <1>1, <2>1, <2>2, Zenon DEF MapInv, TypeOK
<1>3. j <= NEntries /\ (Merging \/ pc = "align" => j = 0)
    BY DEF MapInv, Counters
<1>4. Counters'
    BY <1>1, <1>3 DEF Counters, Merging
<1> QED BY <1>2, <1>4 DEF MapInv

LEMMA SkipKeeps == ASSUME MapInv, SkipEntry PROVE MapInv'
BY DEF MapInv, TypeOK, Counters, SkipEntry, Merging, Index

LEMMA TakeKeeps == ASSUME MapInv, TakeEntry PROVE MapInv'
<1>1. /\ pc = "combine" /\ i <= NEntries /\ table[i].type = "USABLE" /\ start' = table[i].address
      /\ end' = (table[i].address + table[i].size) % Word /\ k' = i + 1 /\ pc' = "overlap"
      /\ UNCHANGED <<bios, ksize, table, i, j, kaddr>>
    BY DEF TakeEntry
<1>2. i \in Index /\ table[i] \in Regions
    BY <1>1, MapAssumption DEF MapInv, TypeOK, Index
<1>3. table[i].address \in Nat /\ table[i].size \in Nat
    BY <1>2, RegionFields
<1>4. start' \in Nat /\ end' \in Nat /\ k' \in Nat \ {0} /\ i < k'
    <2>1. table[i].address + table[i].size \in Int
        BY <1>3
    <2>2. (table[i].address + table[i].size) % Word \in Nat
        BY <2>1, Stored, Zenon
    <2> QED BY <1>1, <1>3, <2>2 DEF MapInv, TypeOK
<1>5. TypeOK'
    BY <1>1, <1>4 DEF MapInv, TypeOK
<1>6. Counters'
    BY <1>1, <1>2, <1>4 DEF MapInv, Counters, Merging
<1> QED BY <1>5, <1>6 DEF MapInv

\* The entry that an overlap may swallow, as the code reads it.
LEMMA OverlapRead ==
    ASSUME MapInv, Overlap
    PROVE  /\ k \in Index /\ k > i /\ i \in Index
           /\ table[k].address \in Nat /\ table[k].size \in Nat
           /\ (table[k].address + table[k].size) % Word \in Nat
<1>1. TypeOK /\ i \in Index /\ i < k
    BY DEF MapInv, Counters, Overlap
<1>2. k \in Index /\ table[k] \in Regions
    BY <1>1, OverlapFacts DEF TypeOK
<1>3. table[k].address \in Nat /\ table[k].size \in Nat
    BY <1>2, RegionFields
<1>4. table[k].address + table[k].size \in Int
    BY <1>3
<1>5. i \in Nat \ {0} /\ k \in Nat \ {0}
    BY <1>1, Zenon DEF TypeOK
<1> QED BY <1>1, <1>2, <1>3, <1>4, <1>5, Stored

\* Whatever it merges, the bounds are numbers.
LEMMA OverlapType == ASSUME MapInv, Overlap PROVE start' \in Nat /\ end' \in Nat
<1>1. PICK ks \in Nat, ke \in Nat : ks = table[k].address /\ ke = (table[k].address + table[k].size) % Word
    BY OverlapRead
<1>2. start \in Nat /\ end \in Nat
    BY DEF MapInv, TypeOK
<1>3. Merged(ks, ke) = <<>> \/ (Merged(ks, ke)[1] \in Nat /\ Merged(ks, ke)[2] \in Nat)
    BY <1>2 DEF Merged
<1>4. \/ start' = start /\ end' = end
      \/ Merged(ks, ke) # <<>> /\ start' = Merged(ks, ke)[1] /\ end' = Merged(ks, ke)[2]
    BY <1>1, Zenon DEF Overlap
<1> QED BY <1>2, <1>3, <1>4, Zenon

\* The bounds after a pass of the inner loop, if nothing wraps.
LEMMA OverlapBounds ==
    ASSUME MapInv, Bounded, Overlap
    PROVE  /\ start' \in Nat /\ end' \in Nat /\ start' <= end'
           /\ k \in Index /\ k > i /\ i \in Index
           /\ \/ start' = start /\ end' = end /\ table' = table
              \/ /\ table[k].type = "USABLE" /\ table[k].address <= end
                 /\ start <= table[k].address + table[k].size
                 /\ start' = IF table[k].address < start THEN table[k].address ELSE start
                 /\ end' = IF table[k].address + table[k].size > end
                           THEN table[k].address + table[k].size ELSE end
<1>1. TypeOK /\ start <= end /\ start \in Nat /\ end \in Nat /\ Merging
    BY DEF MapInv, TypeOK, Bounded, Overlap, Merging
<1>2. k \in Index /\ k > i /\ i \in Index
    BY OverlapRead
<1>3. PICK ks \in Nat, ke \in Nat : ks = table[k].address /\ ke = table[k].address + table[k].size /\ ks <= ke
    BY OverlapRead
<1>4. table[k].type = "USABLE" => (table[k].address + table[k].size) % Word = ke
    <2>1. table[k].type = "USABLE" => ke \in Int /\ 0 <= ke /\ ke < Word
        BY <1>1, <1>2, <1>3 DEF Bounded
    <2> QED BY <1>3, <2>1, Stored, Zenon
<1>5. CASE table[k].type = "USABLE" /\ Merged(ks, ke) # <<>>
    <2>1. start' = Merged(ks, ke)[1] /\ end' = Merged(ks, ke)[2]
        BY <1>3, <1>4, <1>5, Zenon DEF Overlap
    <2>2. /\ ks <= end /\ start <= ke
          /\ Merged(ks, ke)[1] = IF ks < start THEN ks ELSE start
          /\ Merged(ks, ke)[2] = IF ke > end THEN ke ELSE end
        BY <1>1, <1>3, <1>5, MergedFacts
    <2>3. start' = (IF ks < start THEN ks ELSE start) /\ end' = (IF ke > end THEN ke ELSE end)
        BY <2>1, <2>2
    <2> QED BY <1>1, <1>2, <1>3, <1>5, <2>2, <2>3
<1>6. CASE ~ (table[k].type = "USABLE" /\ Merged(ks, ke) # <<>>)
    <2>1. start' = start /\ end' = end /\ table' = table
        BY <1>3, <1>4, <1>6, Zenon DEF Overlap
    <2> QED BY <1>1, <1>2, <2>1
<1> QED BY <1>5, <1>6

LEMMA OverlapKeeps == ASSUME MapInv, Overlap PROVE MapInv'
<1>1. /\ pc = "overlap" /\ k' = k + 1 /\ UNCHANGED <<bios, ksize, pc, i, j, kaddr>>
    BY DEF Overlap
<1>2. start' \in Nat /\ end' \in Nat /\ k \in Index /\ k > i /\ i \in Index
    BY OverlapType, OverlapRead
<1>3. /\ table' \in [Index -> Regions]
      /\ table'[k].address = table[k].address /\ table'[k].size = table[k].size
      /\ table'[k].type = "USABLE" => table[k].type = "USABLE" /\ table'[k] = table[k]
      /\ \A n \in Index : n # k => table'[n] = table[n]
    BY OverlapFacts DEF MapInv
<1>4. k' \in Nat \ {0} /\ i < k' /\ i # k
    BY <1>1, <1>2 DEF MapInv, TypeOK
<1>5. TypeOK'
    BY <1>1, <1>2, <1>3, <1>4 DEF MapInv, TypeOK
<1>6. \A n \in Index : n >= i =>
        /\ table'[n].address = bios[n].address /\ table'[n].size = bios[n].size
        /\ table'[n].type = "USABLE" => bios[n].type = "USABLE"
    BY <1>1, <1>3 DEF MapInv, Counters, Merging
<1>7. table'[i].type = "USABLE" /\ j = 0 /\ j <= NEntries
    BY <1>1, <1>2, <1>3, <1>4 DEF MapInv, Counters, Merging
<1>8. Counters'
    BY <1>1, <1>2, <1>4, <1>6, <1>7 DEF Counters, Merging
<1> QED BY <1>5, <1>8 DEF MapInv

LEMMA StoreKeeps == ASSUME MapInv, StoreEntry PROVE MapInv'
<1>1. pc = "overlap" /\ pc' = "combine" /\ i' = i + 1 /\ UNCHANGED <<bios, ksize, k, start, end, j, kaddr>>
    BY DEF StoreEntry
<1>2. i \in Index /\ j = 0 /\ i' \in Nat \ {0}
    BY <1>1 DEF MapInv, TypeOK, Counters, Merging
<1>3. table' \in [Index -> Regions] /\ \A n \in Index : n # i => table'[n] = table[n]
    BY <1>2, StoreFacts DEF MapInv
<1>4. TypeOK'
    BY <1>1, <1>2, <1>3 DEF MapInv, TypeOK
<1>5. ASSUME NEW n \in Index, n >= i' PROVE n >= i /\ n # i
    BY <1>1, <1>2, <1>5 DEF Index
<1>6. Counters'
    BY <1>1, <1>2, <1>3, <1>5 DEF MapInv, Counters, Merging
<1> QED BY <1>4, <1>6 DEF MapInv

LEMMA AlignKeeps == ASSUME MapInv, Align PROVE MapInv' /\ i \in Index
<1>1. /\ pc = "align" /\ i <= NEntries /\ table' = [table EXCEPT ![i] = Aligned(table[i])] /\ i' = i + 1
      /\ UNCHANGED <<bios, ksize, pc, k, start, end, j, kaddr>>
    BY DEF Align
<1>2. i \in Index /\ table \in [Index -> Regions] /\ i' \in Nat \ {0}
    BY <1>1, MapAssumption DEF MapInv, TypeOK, Index
<1>3. Aligned(table[i]) \in Regions
    BY <1>2, AlignedType
<1>4. TypeOK'
    BY <1>1, <1>2, <1>3 DEF MapInv, TypeOK
<1>5. Counters'
    BY <1>1 DEF MapInv, Counters, Merging
<1> QED BY <1>2, <1>4, <1>5 DEF MapInv

LEMMA TruncateKeeps ==
    ASSUME MapInv, Truncate
    PROVE  /\ MapInv' /\ i \in Index
           /\ \A n \in Index : n > i => table'[n] = table[n]
           /\ \A n \in 1..j : n \in Index /\ table'[n] = table[n]
           /\ table[i].type = "USABLE" => j' = j + 1 /\ j + 1 \in Index /\ table'[j + 1] = table[i]
           /\ table[i].type # "USABLE" => j' = j
<1>1. /\ pc = "truncate" /\ i <= NEntries /\ i' = i + 1 /\ UNCHANGED <<bios, ksize, pc, k, start, end, kaddr>>
    BY DEF Truncate
<1>2. /\ i \in Index /\ table \in [Index -> Regions] /\ i' \in Nat \ {0} /\ j \in Nat /\ j < i /\ j + 1 \in Index
      /\ i \in Nat /\ NEntries \in Nat
    BY <1>1, MapAssumption DEF MapInv, TypeOK, Counters, Index
<1>3. CASE table[i].type = "USABLE"
    <2>1. table' = [table EXCEPT ![j + 1] = table[i]] /\ j' = j + 1
        BY <1>3 DEF Truncate
    <2>2. table' \in [Index -> Regions] /\ table'[j + 1] = table[i] /\ \A n \in Index : n # j + 1 => table'[n] = table[n]
        BY <1>2, <2>1
    <2>3. TypeOK'
        BY <1>1, <1>2, <2>1, <2>2 DEF MapInv, TypeOK
    <2>4. Counters'
        BY <1>1, <1>2, <2>1 DEF MapInv, Counters, Merging
    <2>5. \A n \in Index : n > i => n # j + 1
        BY <1>2 DEF Index
    <2>6. \A n \in 1..j : n \in Index /\ n # j + 1
        BY <1>1, <1>2 DEF Index
    <2> QED BY <1>2, <1>3, <2>1, <2>2, <2>3, <2>4, <2>5, <2>6 DEF MapInv
<1>4. CASE table[i].type # "USABLE"
    <2>1. table' = table /\ j' = j
        BY <1>4 DEF Truncate
    <2>2. TypeOK'
        BY <1>1, <1>2, <2>1 DEF MapInv, TypeOK
    <2>3. Counters'
        BY <1>1, <1>2, <2>1 DEF MapInv, Counters, Merging
    <2>4. \A n \in 1..j : n \in Index
        BY <1>1, <1>2 DEF Index
    <2> QED BY <1>2, <1>4, <2>1, <2>2, <2>3, <2>4 DEF MapInv
<1> QED BY <1>3, <1>4

LEMMA PlaceKeeps == ASSUME MapInv, Place PROVE MapInv'
<1>1. PICK n \in 1..j : kaddr' = table[n].address % Pointer
    BY DEF Place
<1>2. pc = "place" /\ pc' = "done" /\ UNCHANGED <<bios, ksize, table, i, k, start, end, j>>
    BY DEF Place
<1>3. table[n] \in Regions
    <2>1. table \in [Index -> Regions] /\ j \in Nat /\ j <= NEntries /\ NEntries \in Nat
        BY MapAssumption DEF MapInv, TypeOK, Counters
    <2>2. n \in Index
        BY <2>1 DEF Index
    <2> QED BY <2>1, <2>2
<1>4. table[n].address \in Int /\ Pointer \in Nat \ {0}
    BY <1>3, RegionFields, MapAssumption
<1>5. kaddr' \in Nat
    <2>1. table[n].address % Pointer \in 0..(Pointer - 1)
        BY <1>4, DivMod, Zenon
    <2> QED BY <1>1, <1>4, <2>1
<1> QED BY <1>2, <1>5 DEF MapInv, TypeOK, Counters, Merging

\* The other steps leave the table and the loops alone.
Outside == Search \/ CannotLoad \/ StartLoad \/ LoadSector \/ ClearAndMap \/ UNCHANGED vars

LEMMA OutsideKeeps ==
    ASSUME MapInv, Outside
    PROVE  /\ UNCHANGED <<bios, ksize, table, i, k, start, end, j, kaddr>>
           /\ \/ pc' = pc
              \/ pc = "search" /\ pc' = "combine"
              \/ pc \in {"place", "done", "load"} /\ pc' \in {"cannot load", "load", "kernel"}
           /\ MapInv'
<1>1. UNCHANGED <<bios, ksize, table, i, k, start, end, j, kaddr>>
    BY DEF Outside, Search, CannotLoad, StartLoad, LoadSector, ClearAndMap, vars, mapVars
<1>2. \/ pc' = pc
      \/ pc = "search" /\ pc' = "combine"
      \/ pc \in {"place", "done", "load"} /\ pc' \in {"cannot load", "load", "kernel"}
    BY DEF Outside, Search, CannotLoad, StartLoad, LoadSector, ClearAndMap, vars, mapVars
<1>3. TypeOK'
    BY <1>1, <1>2 DEF MapInv, TypeOK
<1>4. Counters'
    BY <1>1, <1>2 DEF MapInv, Counters, Merging
<1> QED BY <1>1, <1>2, <1>3, <1>4 DEF MapInv

\* The ways to take a step.
LEMMA Steps ==
    ASSUME [Next]_vars
    PROVE  \/ SkipEntry \/ TakeEntry \/ Overlap \/ StoreEntry
           \/ Loop("combine", "align") \/ Align
           \/ Loop("align", "truncate") \/ Truncate
           \/ Loop("truncate", "place") \/ Place
           \/ Outside
BY DEF Next, Map, MapNext, Ended, Outside

LEMMA MapInvNext == MapInv /\ [Next]_vars => MapInv'
<1> SUFFICES ASSUME MapInv, [Next]_vars PROVE MapInv'
    OBVIOUS
<1>1. ASSUME NEW this, NEW following, Loop(this, following),
             \/ this = "combine" /\ following = "align"
             \/ this = "align" /\ following = "truncate"
             \/ this = "truncate" /\ following = "place"
      PROVE  MapInv'
    BY <1>1, LoopKeeps
<1>2. CASE Loop("combine", "align") \/ Loop("align", "truncate") \/ Loop("truncate", "place")
    BY <1>1, <1>2
<1> QED BY <1>2, Steps, SkipKeeps, TakeKeeps, OverlapKeeps, StoreKeeps, AlignKeeps, TruncateKeeps,
           PlaceKeeps, OutsideKeeps

----------------------------------------------------------------------------
(* No entry wraps before it is aligned *)

\* What is written back ends where the merge ends.
LEMMA StoredRegion ==
    ASSUME MapInv, Bounded, StoreEntry, table'[i].type = "USABLE"
    PROVE  /\ LowMem < end /\ end < Word /\ table[i].type = "USABLE" /\ i \in Index
           /\ table'[i].address = CutStart /\ table'[i].address + table'[i].size = end
           /\ LowMem <= CutStart /\ start <= CutStart /\ CutStart \in Nat /\ CutStart <= end
           /\ CutStart = start \/ CutStart = LowMem
<1>1. pc = "overlap"
    BY DEF StoreEntry
<1>2. TypeOK /\ i \in Index /\ start <= end /\ start \in Nat /\ end \in Nat /\ LowMem \in Nat /\ end < Word
      /\ Word \in Nat
    BY <1>1, MapAssumption DEF MapInv, TypeOK, Counters, Bounded
<1>3. /\ table'[i].type = IF end <= LowMem THEN "UNUSABLE" ELSE table[i].type
      /\ table'[i].address = CutStart /\ table'[i].size = (end - CutStart) % Word
    BY <1>2, StoreFacts
<1>4. ~ (end <= LowMem) /\ table[i].type = "USABLE"
    BY <1>3
<1>5. /\ LowMem <= CutStart /\ start <= CutStart /\ CutStart \in Nat /\ CutStart <= end
      /\ CutStart = start \/ CutStart = LowMem
    BY <1>2, <1>4 DEF CutStart
<1>6. (end - CutStart) % Word = end - CutStart
    <2>1. end - CutStart \in Int /\ 0 <= end - CutStart /\ end - CutStart < Word
        BY <1>2, <1>5
    <2> QED BY <2>1, Stored, Zenon
<1>7. LowMem < end
    BY <1>2, <1>4
<1>8. table'[i].address + table'[i].size = end
    <2>1. table'[i].size = end - CutStart
        BY <1>3, <1>6, Zenon
    <2>2. CutStart + (end - CutStart) = end
        BY <1>2, <1>5
    <2> QED BY <1>3, <2>1, <2>2, Zenon
<1> QED BY <1>2, <1>3, <1>4, <1>5, <1>7, <1>8, Zenon

LEMMA BoundedInit == ASSUME NoWrap, Init PROVE Bounded
<1>1. MapInv
    BY MapInvInit
<1>2. table = bios /\ pc = "search"
    BY DEF Init, MapInit
<1> QED BY <1>1, <1>2 DEF Bounded, NoWrap, Offers, Index, MapInv, TypeOK

\* The outer loop reads the end of an entry that does not wrap as it is.
LEMMA TakeEnd ==
    ASSUME MapInv, Bounded, TakeEntry
    PROVE  i \in Index /\ end' = table[i].address + table[i].size /\ start' <= end' /\ end' < Word
<1>1. /\ pc = "combine" /\ i <= NEntries /\ table[i].type = "USABLE" /\ start' = table[i].address
      /\ end' = (table[i].address + table[i].size) % Word
    BY DEF TakeEntry
<1>2. i \in Index /\ table[i] \in Regions
    BY <1>1, MapAssumption DEF MapInv, TypeOK, Index
<1>3. PICK a \in Nat, s \in Nat : a = table[i].address /\ s = table[i].size
    BY <1>2, RegionFields
<1>4. a + s \in Int /\ 0 <= a + s /\ a + s < Word
    BY <1>1, <1>2, <1>3 DEF Bounded, Merging
<1>5. end' = a + s
    BY <1>1, <1>3, <1>4, Stored, Zenon
<1> QED BY <1>1, <1>2, <1>3, <1>4, <1>5

LEMMA BoundedNext == ASSUME MapInv, Bounded, [Next]_vars PROVE Bounded'
<1>1. CASE SkipEntry
    BY <1>1 DEF Bounded, SkipEntry, Merging
<1>2. CASE TakeEntry
    <2>1. pc = "combine" /\ pc' = "overlap" /\ table' = table
        BY <1>2 DEF TakeEntry
    <2>2. start' <= end' /\ end' < Word
        BY <1>2, TakeEnd
    <2> QED BY <2>1, <2>2 DEF Bounded, Merging
<1>3. CASE Overlap
    <2>1. pc = "overlap" /\ pc' = pc /\ i' = i
        BY <1>3 DEF Overlap
    <2>2. /\ end' = end \/ (table[k].type = "USABLE" /\ end' = table[k].address + table[k].size)
          /\ start' <= end'
        BY <1>3, OverlapBounds
    <2>3. /\ k \in Index /\ table'[k].type = "USABLE" => table'[k] = table[k]
          /\ \A n \in Index : n # k => table'[n] = table[n]
        BY <1>3, OverlapFacts DEF MapInv
    <2>4. k \in Index
        BY <1>3, OverlapFacts DEF MapInv
    <2> QED BY <2>1, <2>2, <2>3, <2>4 DEF Bounded, Merging
<1>4. CASE StoreEntry
    <2>1. pc = "overlap" /\ pc' = "combine"
        BY <1>4 DEF StoreEntry
    <2>2. i \in Index
        BY <2>1 DEF MapInv, Counters
    <2>3. \A n \in Index : n # i => table'[n] = table[n]
        BY <1>4, <2>2, StoreFacts DEF MapInv
    <2>4. table'[i].type = "USABLE" => table'[i].address + table'[i].size < Word
        BY <1>4, StoredRegion
    <2> QED BY <2>1, <2>3, <2>4 DEF Bounded, Merging
<1>5. CASE Loop("combine", "align")
    BY <1>5 DEF Bounded, Loop, Merging
<1>6. CASE Align
    <2>1. pc = "align" /\ pc' = pc /\ i' = i + 1 /\ table' = [table EXCEPT ![i] = Aligned(table[i])]
        BY <1>6 DEF Align
    <2>2. table \in [Index -> Regions] /\ i \in Nat
        BY DEF MapInv, TypeOK
    <2>3. \A n \in Index : n >= i' => n >= i /\ table'[n] = table[n]
        BY <2>1, <2>2 DEF Index
    <2> QED BY <2>1, <2>3 DEF Bounded, Merging
<1>7. CASE Loop("align", "truncate") \/ Truncate \/ Loop("truncate", "place") \/ Place
    <2>1. pc' \notin {"search", "combine", "overlap", "align"}
        BY <1>7 DEF Loop, Truncate, Place
    <2> QED BY <2>1 DEF Bounded, Merging
<1>8. CASE Outside
    <2>1. /\ UNCHANGED <<table, i, start, end>>
          /\ pc' = pc \/ (pc = "search" /\ pc' = "combine") \/ pc' \in {"cannot load", "load", "kernel"}
        BY <1>8, OutsideKeeps
    <2> QED BY <2>1 DEF Bounded, Merging
<1> QED BY <1>1, <1>2, <1>3, <1>4, <1>5, <1>6, <1>7, <1>8, Steps

----------------------------------------------------------------------------
(* The list is sound *)

\* No step changes what the BIOS said.
LEMMA BiosKept ==
    ASSUME [Next]_vars
    PROVE  /\ bios' = bios /\ UsableBytes' = UsableBytes
           /\ NoWrap' <=> NoWrap
           /\ ReachesPage' <=> ReachesPage
<1>1. bios' = bios
    BY DEF Next, Search, Map, MapNext, StartLoad, LoadSector, ClearAndMap, Ended, SkipEntry, TakeEntry,
           Overlap, StoreEntry, Loop, Align, Truncate, Place, CannotLoad, vars, mapVars
<1> QED BY <1>1 DEF UsableBytes, Offers, NoWrap, ReachesPage

\* An entry the merge has not changed is one of the BIOS's.
LEMMA RawEntry ==
    ASSUME ReachesPage, MapInv, Merging, NEW n \in Index, n >= i, table[n].type = "USABLE"
    PROVE  /\ table[n].address \in Nat /\ table[n].size \in Nat
           /\ table[n].address + Gap(table[n].address) <= table[n].address + table[n].size
           /\ Within(UsableBytes, table[n].address, table[n].address + table[n].size)
<1>1. /\ table[n].address = bios[n].address /\ table[n].size = bios[n].size /\ bios[n].type = "USABLE"
      /\ n \in Offers /\ bios[n] \in Regions
    BY DEF MapInv, Counters, TypeOK, Offers, Index
<1>2. PICK a \in Nat, s \in Nat : a = bios[n].address /\ s = bios[n].size
    BY <1>1, RegionFields
<1>3. a + Gap(a) <= a + s
    <2>1. PICK b \in a..(a + s) : b % PAGE_SIZE = 0
        BY <1>1, <1>2 DEF ReachesPage
    <2>2. b \in Nat /\ a <= b /\ b <= a + s
        OBVIOUS
    <2>3. a + Gap(a) <= b
        BY <2>1, <2>2, GapFacts, Zenon
    <2>4. Gap(a) \in 0..(PAGE_SIZE - 1)
        BY GapFacts, Zenon
    <2> QED BY <2>2, <2>3, <2>4, MapAssumption
<1>4. \A x \in a..(a + s - 1) : x \in UsableBytes
    <2>1. Bytes(bios[n]) = a..(a + s - 1)
        BY <1>2 DEF Bytes
    <2> QED BY <1>1, <2>1 DEF UsableBytes
<1>5. Within(UsableBytes, a, a + s)
    BY <1>4 DEF Within
<1> QED BY <1>1, <1>2, <1>3, <1>5, Zenon

\* Two regions that touch are one.
LEMMA WithinUnion ==
    ASSUME NEW U, NEW a \in Int, NEW b \in Int, NEW c \in Int, NEW d \in Int,
           Within(U, a, b), Within(U, c, d), c <= b, a <= d
    PROVE  Within(U, IF c < a THEN c ELSE a, IF d > b THEN d ELSE b)
BY DEF Within

LEMMA WithinPart ==
    ASSUME NEW U, NEW a \in Int, NEW b \in Int, NEW c \in Int, NEW d \in Int,
           Within(U, a, b), a <= c, d <= b
    PROVE  Within(U, c, d)
BY DEF Within

LEMMA AlignedListed ==
    ASSUME NEW U, NEW e \in Regions, Cut(e, U), e.address + e.size < Word
    PROVE  Listed(Aligned(e), U)
<1> DEFINE g == Gap(e.address)
<1> DEFINE x == e.address + e.size
<1> DEFINE r == x % PAGE_SIZE
<1>1. /\ e.address \in Nat /\ e.size \in Nat /\ g \in Nat /\ PAGE_SIZE \in Nat \ {0}
      /\ (e.address + g) % PAGE_SIZE = 0
    BY RegionGap
<1>2. LowMem <= e.address /\ e.address + g <= x /\ Within(U, e.address, x) /\ LowMem \in Nat
    BY MapAssumption DEF Cut
<1>3. g <= e.size
    BY <1>1, <1>2
<1>4. PICK a \in Nat, s \in Nat : /\ a = Aligned(e).address /\ s = Aligned(e).size
                                  /\ a = e.address + g /\ a + s = x - r
    <2>1. /\ Aligned(e).address = e.address + g /\ Aligned(e).size \in Nat
          /\ Aligned(e).address + Aligned(e).size = x - r
        BY <1>3, AlignedFacts, Zenon
    <2>2. e.address + g \in Nat
        BY <1>1
    <2> QED BY <2>1, <2>2, Zenon
<1>5. r \in 0..(PAGE_SIZE - 1) /\ x \in Nat /\ (x - r) % PAGE_SIZE = 0
    <2>1. x \in Nat /\ x \in Int
        BY <1>1
    <2>2. r \in 0..(PAGE_SIZE - 1)
        BY <1>1, <2>1, DivMod, Zenon
    <2>3. (x - r) % PAGE_SIZE = 0
        BY <1>1, <2>1, DownFacts, Zenon
    <2> QED BY <2>1, <2>2, <2>3
<1> HIDE DEF g, x, r
<1>6. s % PAGE_SIZE = 0
    <2>1. x - r \in Int /\ a \in Int /\ (x - r) - a = s
        BY <1>4, <1>5
    <2>2. a % PAGE_SIZE = 0
        BY <1>1, <1>4
    <2> QED BY <1>1, <1>5, <2>1, <2>2, Multiples, Zenon
<1>7. Within(U, a, a + s)
    <2>1. /\ e.address \in Int /\ x \in Int /\ a \in Int /\ a + s \in Int
          /\ e.address <= a /\ a + s <= x
        BY <1>1, <1>4, <1>5
    <2> QED BY <1>2, <2>1, WithinPart, Zenon
<1>8. LowMem <= a
    BY <1>1, <1>2, <1>4
<1>9. a % PAGE_SIZE = 0
    BY <1>1, <1>4
<1> QED BY <1>4, <1>6, <1>7, <1>8, <1>9, Zenon DEF Listed

LEMMA SoundInit == ASSUME Init PROVE SoundInv
<1>1. pc = "search" /\ i = 1 /\ j = 0
    BY DEF Init, MapInit
<1>2. ~ \E n \in Index : n < i
    BY <1>1, MapAssumption DEF Index
<1>3. ~ \E n \in 1..j : TRUE
    BY <1>1
<1> QED BY <1>1, <1>2, <1>3 DEF SoundInv, Merging

LEMMA SoundTake ==
    ASSUME ReachesPage, MapInv, Bounded, SoundInv, TakeEntry, UsableBytes' = UsableBytes
    PROVE  SoundInv'
<1>1. /\ pc = "combine" /\ i <= NEntries /\ table[i].type = "USABLE" /\ start' = table[i].address
      /\ end' = table[i].address + table[i].size /\ pc' = "overlap" /\ UNCHANGED <<table, i, j>>
    BY TakeEnd DEF TakeEntry
<1>2. i \in Index /\ i \in Nat /\ Merging
    BY <1>1, MapAssumption DEF MapInv, TypeOK, Index, Merging
<1>3. /\ table[i].address + Gap(table[i].address) <= table[i].address + table[i].size
      /\ Within(UsableBytes, table[i].address, table[i].address + table[i].size)
    BY <1>1, <1>2, RawEntry
<1>4. start' + Gap(start') <= end' /\ Within(UsableBytes', start', end')
    BY <1>1, <1>3, Zenon
<1> QED BY <1>1, <1>2, <1>4, Zenon DEF SoundInv, Merging

LEMMA SoundOverlap ==
    ASSUME ReachesPage, MapInv, Bounded, SoundInv, Overlap, UsableBytes' = UsableBytes
    PROVE  SoundInv'
<1>1. pc = "overlap" /\ pc' = pc /\ i' = i /\ j' = j /\ Merging
    BY DEF Overlap, Merging
<1>2. /\ start \in Nat /\ end \in Nat /\ start' \in Nat /\ end' \in Nat /\ start <= end
      /\ k \in Index /\ i \in Index /\ k > i /\ k >= i /\ j = 0
    BY <1>1, OverlapBounds DEF MapInv, TypeOK, Counters, Bounded, Index
<1>3. start + Gap(start) <= end /\ Within(UsableBytes, start, end)
    BY <1>1 DEF SoundInv
<1>4. start' + Gap(start') <= end' /\ Within(UsableBytes, start', end')
    <2>1. CASE start' = start /\ end' = end
        BY <2>1, <1>3, Zenon
    <2>2. CASE /\ table[k].type = "USABLE" /\ table[k].address <= end
               /\ start <= table[k].address + table[k].size
               /\ start' = IF table[k].address < start THEN table[k].address ELSE start
               /\ end' = IF table[k].address + table[k].size > end
                         THEN table[k].address + table[k].size ELSE end
        <3>1. /\ table[k].address \in Nat /\ table[k].size \in Nat
              /\ table[k].address + Gap(table[k].address) <= table[k].address + table[k].size
              /\ Within(UsableBytes, table[k].address, table[k].address + table[k].size)
            BY <1>1, <1>2, <2>2, RawEntry
        <3>2. PICK c \in Nat, d \in Nat : /\ c = table[k].address /\ d = table[k].address + table[k].size
                                          /\ c + Gap(c) <= d /\ Within(UsableBytes, c, d)
            BY <3>1
        <3>3. Gap(start) \in Nat /\ Gap(c) \in Nat
            <4>1. Gap(start) \in 0..(PAGE_SIZE - 1) /\ Gap(c) \in 0..(PAGE_SIZE - 1)
                BY <1>2, GapFacts, Zenon
            <4> QED BY <4>1, MapAssumption
        <3>4. start' = (IF c < start THEN c ELSE start) /\ end' = (IF d > end THEN d ELSE end)
              /\ c <= end /\ start <= d
            BY <2>2, <3>2
        <3>5. Within(UsableBytes, start', end')
            <4>1. start \in Int /\ end \in Int /\ c \in Int /\ d \in Int
                BY <1>2
            <4> QED BY <1>3, <3>2, <3>4, <4>1, WithinUnion, Zenon
        <3>6. CASE c < start
            <4>1. start' = c
                BY <3>4, <3>6
            <4> QED BY <1>2, <3>2, <3>3, <3>4, <3>5, <4>1
        <3>7. CASE ~ (c < start)
            <4>1. start' = start
                BY <3>4, <3>7
            <4> QED BY <1>2, <1>3, <3>3, <3>4, <3>5, <4>1
        <3> QED BY <3>6, <3>7
    <2> QED BY <2>1, <2>2, OverlapBounds
<1>5. \A n \in Index : n < i => table'[n] = table[n]
    <2>1. \A n \in Index : n # k => table'[n] = table[n]
        BY OverlapFacts DEF MapInv
    <2>2. \A n \in Index : n < i => n # k
        BY <1>2 DEF Index
    <2> QED BY <2>1, <2>2
<1>6. ~ \E n \in 1..j : TRUE
    BY <1>2
<1> QED BY <1>1, <1>4, <1>5, <1>6, Zenon DEF SoundInv

LEMMA SoundStore == ASSUME MapInv, Bounded, SoundInv, StoreEntry, UsableBytes' = UsableBytes PROVE SoundInv'
<1>1. pc = "overlap" /\ pc' = "combine" /\ i' = i + 1 /\ j' = j /\ Merging
    BY DEF StoreEntry, Merging
<1>2. i \in Index /\ i \in Nat /\ start \in Nat /\ end \in Nat /\ j = 0 /\ LowMem \in Nat /\ PAGE_SIZE \in Nat \ {0}
    BY <1>1, MapAssumption DEF MapInv, TypeOK, Counters
<1>3. \A n \in Index : n # i => table'[n] = table[n]
    BY <1>2, StoreFacts DEF MapInv
<1>4. ASSUME table'[i].type = "USABLE" PROVE Cut(table'[i], UsableBytes)
    <2>1. /\ LowMem < end /\ table'[i].address = CutStart /\ table'[i].address + table'[i].size = end
          /\ LowMem <= CutStart /\ start <= CutStart /\ CutStart \in Nat /\ CutStart <= end
          /\ CutStart = start \/ CutStart = LowMem
        BY <1>4, StoredRegion
    <2>2. start + Gap(start) <= end /\ Within(UsableBytes, start, end)
        BY <1>1 DEF SoundInv
    <2>3. CutStart + Gap(CutStart) <= end
        <3>1. Gap(LowMem) = 0
            BY MapAssumption DEF Gap
        <3>2. LowMem + 0 <= end
            BY <1>2, <2>1
        <3> QED BY <2>1, <2>2, <3>1, <3>2, Zenon
    <2>4. Within(UsableBytes, CutStart, end)
        <3>1. PICK c \in Int : c = CutStart /\ start <= c
            BY <2>1
        <3>2. start \in Int /\ end \in Int /\ end <= end
            BY <1>2
        <3> QED BY <2>2, <3>1, <3>2, WithinPart, Zenon
    <2> QED BY <2>1, <2>3, <2>4, Zenon DEF Cut
<1>5. \A n \in Index : n < i' => n < i \/ n = i
    BY <1>1, <1>2 DEF Index
<1>6. \A n \in Index : n < i => n # i
    BY <1>2 DEF Index
<1>7. \A n \in Index : table'[n].type = "USABLE" /\ n < i' => Cut(table'[n], UsableBytes)
    BY <1>1, <1>3, <1>4, <1>5, <1>6, Zenon DEF SoundInv
<1>8. ~ \E n \in 1..j : TRUE
    BY <1>2
<1>9. pc' # "align" /\ pc' # "truncate" /\ pc' # "overlap"
    BY <1>1
<1> QED BY <1>1, <1>7, <1>8, <1>9, Zenon DEF SoundInv

LEMMA SoundAlign == ASSUME MapInv, Bounded, SoundInv, Align, UsableBytes' = UsableBytes PROVE SoundInv'
<1>1. /\ pc = "align" /\ pc' = pc /\ i' = i + 1 /\ table' = [table EXCEPT ![i] = Aligned(table[i])] /\ j' = j
    BY DEF Align
<1>2. table \in [Index -> Regions] /\ i \in Nat /\ i \in Index /\ j = 0
    BY <1>1, AlignKeeps DEF MapInv, TypeOK, Counters
<1>3. \A n \in Index : n # i => table'[n] = table[n]
    BY <1>1, <1>2
<1>4. ASSUME table'[i].type = "USABLE" PROVE Listed(table'[i], UsableBytes)
    <2>1. table[i] \in Regions /\ table'[i] = Aligned(table[i])
        BY <1>1, <1>2
    <2>2. table[i].type = "USABLE"
        BY <1>4, <2>1, AlignedType
    <2>3. Cut(table[i], UsableBytes) /\ table[i].address + table[i].size < Word
        BY <1>1, <1>2, <2>2 DEF SoundInv, Bounded
    <2> QED BY <2>1, <2>3, AlignedListed, Zenon
<1>5. \A n \in Index : /\ n < i' => n < i \/ n = i
                       /\ n < i => n # i
                       /\ n >= i' => n >= i /\ n # i
    BY <1>1, <1>2 DEF Index
<1>6. \A n \in Index : table'[n].type = "USABLE" =>
        /\ n >= i' => Cut(table'[n], UsableBytes)
        /\ n < i' => Listed(table'[n], UsableBytes)
    BY <1>1, <1>3, <1>4, <1>5, Zenon DEF SoundInv
<1>7. ~ \E n \in 1..j : TRUE
    BY <1>2
<1>8. ~ Merging' /\ pc' # "truncate" /\ pc' # "overlap"
    BY <1>1 DEF Merging
<1> QED BY <1>1, <1>6, <1>7, <1>8, Zenon DEF SoundInv

LEMMA SoundTruncate == ASSUME MapInv, SoundInv, Truncate, UsableBytes' = UsableBytes PROVE SoundInv'
<1>1. pc = "truncate" /\ pc' = pc /\ i' = i + 1
    BY DEF Truncate
<1>2. /\ i \in Index /\ i \in Nat /\ j \in Nat
      /\ \A n \in Index : n > i => table'[n] = table[n]
      /\ \A n \in 1..j : n \in Index /\ table'[n] = table[n]
      /\ table[i].type = "USABLE" => j' = j + 1 /\ j + 1 \in Index /\ table'[j + 1] = table[i]
      /\ table[i].type # "USABLE" => j' = j
    BY TruncateKeeps DEF MapInv, TypeOK
<1>3. \A n \in Index : n >= i' => n > i /\ n >= i
    BY <1>1, <1>2 DEF Index
<1>4. \A n \in Index : table'[n].type = "USABLE" /\ n >= i' => Listed(table'[n], UsableBytes)
    BY <1>1, <1>2, <1>3, Zenon DEF SoundInv
<1>5. \A n \in 1..j : Listed(table'[n], UsableBytes)
    BY <1>2, Zenon DEF SoundInv
<1>6. \A n \in 1..j' : Listed(table'[n], UsableBytes)
    <2>1. CASE table[i].type = "USABLE"
        <3>1. i >= i
            BY <1>2
        <3>2. Listed(table[i], UsableBytes)
            BY <1>1, <1>2, <2>1, <3>1, Zenon DEF SoundInv
        <3>3. \A n \in 1..j' : n \in 1..j \/ n = j + 1
            BY <1>2, <2>1
        <3> QED BY <1>2, <1>5, <2>1, <3>2, <3>3, Zenon
    <2>2. CASE table[i].type # "USABLE"
        BY <1>2, <1>5, <2>2, Zenon
    <2> QED BY <2>1, <2>2
<1>7. ~ Merging' /\ pc' # "align" /\ pc' # "overlap"
    BY <1>1 DEF Merging
<1> QED BY <1>4, <1>6, <1>7, Zenon DEF SoundInv

LEMMA SoundNext == ASSUME ReachesPage, MapInv, Bounded, SoundInv, [Next]_vars PROVE SoundInv'
<1>0. UsableBytes' = UsableBytes
    BY BiosKept
<1>1. CASE SkipEntry
    <2>1. pc = "combine" /\ pc' = pc /\ i' = i + 1 /\ table' = table /\ j' = j /\ table[i].type # "USABLE"
        BY <1>1 DEF SkipEntry
    <2>2. \A n \in Index : n < i' => n < i \/ n = i
        BY <2>1 DEF MapInv, TypeOK, Index
    <2>3. pc # "overlap" /\ pc # "align" /\ pc # "truncate"
        BY <2>1
    <2> QED BY <1>0, <2>1, <2>2, <2>3, Zenon DEF SoundInv, Merging
<1>2. CASE Loop("combine", "align")
    <2>1. pc = "combine" /\ pc' = "align" /\ i > NEntries /\ i' = 1 /\ table' = table /\ j' = j
        BY <1>2 DEF Loop
    <2>2. \A n \in Index : n < i /\ ~ (n < i')
        BY <2>1, MapAssumption DEF MapInv, TypeOK, Index
    <2>3. Merging /\ ~ Merging' /\ pc' # "truncate" /\ pc' # "overlap"
        BY <2>1 DEF Merging
    <2> QED BY <1>0, <2>1, <2>2, <2>3, Zenon DEF SoundInv
<1>3. CASE Loop("align", "truncate")
    <2>1. pc = "align" /\ pc' = "truncate" /\ i > NEntries /\ i' = 1 /\ table' = table /\ j' = j
        BY <1>3 DEF Loop
    <2>2. \A n \in Index : n < i
        BY <2>1, MapAssumption DEF MapInv, TypeOK, Index
    <2>3. ~ Merging' /\ pc' # "align" /\ pc' # "overlap"
        BY <2>1 DEF Merging
    <2> QED BY <1>0, <2>1, <2>2, <2>3, Zenon DEF SoundInv
<1>4. CASE Loop("truncate", "place") \/ Place
    <2>1. pc' \in {"place", "done"} /\ table' = table /\ j' = j
        BY <1>4 DEF Loop, Place
    <2>2. ~ Merging' /\ pc' # "align" /\ pc' # "overlap" /\ pc' # "truncate"
        BY <2>1 DEF Merging
    <2> QED BY <1>0, <2>1, <2>2, Zenon DEF SoundInv
<1>5. CASE Outside
    <2>1. /\ UNCHANGED <<table, i, j, start, end>>
          /\ pc' = pc \/ (pc = "search" /\ pc' = "combine") \/ pc' \in {"cannot load", "load", "kernel"}
        BY <1>5, OutsideKeeps
    <2> QED BY <1>0, <2>1 DEF SoundInv, Merging
<1> QED BY <1>0, <1>1, <1>2, <1>3, <1>4, <1>5, Steps, SoundTake, SoundOverlap, SoundStore, SoundAlign, SoundTruncate

----------------------------------------------------------------------------
(* The list is complete *)

LEMMA CoverInit == ASSUME Init PROVE CoverInv
<1>1. pc = "search" /\ table = bios
    BY DEF Init, MapInit
<1> QED BY <1>1 DEF CoverInv, Offered, Covered, Holds, Merging

LEMMA AlignedHas ==
    ASSUME NEW e \in Regions, e.address + e.size < Word, NEW p \in Nat, p % PAGE_SIZE = 0, Has(e, p)
    PROVE  Has(Aligned(e), p)
<1>1. e.address \in Nat /\ e.size \in Nat /\ Gap(e.address) \in Nat /\ PAGE_SIZE \in Nat \ {0}
    BY RegionGap
<1>2. e.type = "USABLE" /\ e.address <= p /\ p + PAGE_SIZE <= e.address + e.size
    BY DEF Has
<1>3. e.address + Gap(e.address) <= p
    BY <1>1, <1>2, GapFacts, Zenon
<1>4. Gap(e.address) <= e.size
    BY <1>1, <1>2, <1>3
<1>5. /\ Aligned(e).address = e.address + Gap(e.address)
      /\ Aligned(e).address + Aligned(e).size = (e.address + e.size) - ((e.address + e.size) % PAGE_SIZE)
    BY <1>4, AlignedFacts, Zenon
<1>6. p + PAGE_SIZE <= (e.address + e.size) - ((e.address + e.size) % PAGE_SIZE)
    <2>1. PAGE_SIZE % PAGE_SIZE = 0
        <3>1. PAGE_SIZE \in Int /\ 1 \in Int /\ PAGE_SIZE = 1 * PAGE_SIZE
            BY <1>1
        <3> QED BY <1>1, <3>1, Multiple, Zenon
    <2>2. (p + PAGE_SIZE) % PAGE_SIZE = 0
        <3>1. p \in Int /\ PAGE_SIZE \in Int
            BY <1>1
        <3> QED BY <1>1, <2>1, <3>1, Multiples, Zenon
    <2>3. p + PAGE_SIZE \in Nat /\ e.address + e.size \in Nat
        BY <1>1
    <2> QED BY <1>1, <1>2, <2>2, <2>3, DownFacts, Zenon
<1>7. Aligned(e).type = "USABLE"
    BY <1>2, AlignedType
<1> QED BY <1>3, <1>5, <1>6, <1>7, Zenon DEF Has

LEMMA CoverStep ==
    ASSUME MapInv, Bounded, [Next]_vars, NEW p \in Nat, p % PAGE_SIZE = 0, LowMem <= p, Covered(p)
    PROVE  Covered(p)'
<1>0. i \in Nat \ {0} /\ j \in Nat /\ start \in Nat /\ end \in Nat /\ PAGE_SIZE \in Nat \ {0} /\ LowMem \in Nat
      /\ NEntries \in Nat /\ table \in [Index -> Regions]
    BY MapAssumption DEF MapInv, TypeOK
<1>1. CASE SkipEntry
    BY <1>1 DEF SkipEntry, Covered, Holds, Has, Merging
<1>2. CASE TakeEntry
    <2>1. /\ pc = "combine" /\ pc' = "overlap" /\ i' = i /\ table' = table /\ table[i].type = "USABLE"
          /\ start' = table[i].address /\ end' = table[i].address + table[i].size
        BY <1>2, TakeEnd DEF TakeEntry
    <2>2. PICK n \in Index : Has(table[n], p)
        BY <2>1 DEF Covered, Holds
    <2>3. CASE n = i
        <3>1. start' <= p /\ p + PAGE_SIZE <= end'
            BY <2>1, <2>2, <2>3, Zenon DEF Has
        <3> QED BY <2>1, <3>1 DEF Covered
    <2>4. CASE n # i
        <3>1. Holds(p, n)'
            BY <2>1, <2>2, <2>4 DEF Holds, Has, Merging
        <3> QED BY <3>1 DEF Covered
    <2> QED BY <2>3, <2>4
<1>3. CASE Overlap
    <2>1. pc = "overlap" /\ pc' = pc /\ i' = i
        BY <1>3 DEF Overlap
    <2>2. /\ k \in Index /\ start' \in Nat /\ end' \in Nat
          /\ \/ start' = start /\ end' = end /\ table' = table
             \/ /\ table[k].type = "USABLE"
                /\ start' = IF table[k].address < start THEN table[k].address ELSE start
                /\ end' = IF table[k].address + table[k].size > end
                          THEN table[k].address + table[k].size ELSE end
        BY <1>3, OverlapBounds
    <2>3. PICK c \in Nat, d \in Nat : c = table[k].address /\ d = table[k].address + table[k].size
        <3>1. table[k] \in Regions
            BY <1>0, <2>2
        <3> QED BY <3>1, RegionFields
    <2>4. CASE start <= p /\ p + PAGE_SIZE <= end
        <3>1. start' <= p /\ p + PAGE_SIZE <= end'
            BY <1>0, <2>2, <2>3, <2>4
        <3> QED BY <2>1, <3>1 DEF Covered
    <2>5. ASSUME NEW n \in Index, Has(table[n], p), n # i PROVE Covered(p)'
        <3>1. CASE table'[n] = table[n]
            <4>1. Holds(p, n)'
                BY <2>1, <2>5, <3>1 DEF Holds, Has, Merging
            <4> QED BY <4>1 DEF Covered
        <3>2. CASE table'[n] # table[n]
            <4>1. n = k
                BY <1>3, <3>2, OverlapFacts DEF MapInv
            <4>2. c <= p /\ p + PAGE_SIZE <= d
                BY <2>3, <2>5, <4>1 DEF Has
            <4>3. start' = (IF c < start THEN c ELSE start) /\ end' = (IF d > end THEN d ELSE end)
                BY <2>2, <2>3, <3>2
            <4>4. start' <= p /\ p + PAGE_SIZE <= end'
                BY <1>0, <4>2, <4>3
            <4> QED BY <2>1, <4>4 DEF Covered
        <3> QED BY <3>1, <3>2
    <2> QED BY <2>1, <2>4, <2>5 DEF Covered, Holds
<1>4. CASE StoreEntry
    <2>1. pc = "overlap" /\ pc' = "combine" /\ i' = i + 1
        BY <1>4 DEF StoreEntry
    <2>2. i \in Index /\ table[i].type = "USABLE"
        BY <2>1 DEF MapInv, Counters
    <2>3. /\ table'[i].type = IF end <= LowMem THEN "UNUSABLE" ELSE table[i].type
          /\ \A n \in Index : n # i => table'[n] = table[n]
        BY <1>4, <2>2, StoreFacts DEF MapInv
    <2>4. CASE start <= p /\ p + PAGE_SIZE <= end
        <3>1. ~ (end <= LowMem)
            BY <1>0, <2>4
        <3>2. table'[i].type = "USABLE"
            BY <2>2, <2>3, <3>1
        <3>3. table'[i].address = CutStart /\ table'[i].address + table'[i].size = end
            BY <1>4, <3>2, StoredRegion
        <3>4. CutStart <= p
            BY <2>4 DEF CutStart
        <3>5. Has(table'[i], p)
            BY <2>4, <3>2, <3>3, <3>4, Zenon DEF Has
        <3>6. \E n \in Index : Has(table'[n], p)
            BY <2>2, <3>5
        <3> QED BY <2>1, <3>6 DEF Covered, Holds, Merging
    <2>5. ASSUME NEW n \in Index, Has(table[n], p), n # i PROVE Covered(p)'
        <3>1. Has(table'[n], p)
            BY <2>3, <2>5, Zenon
        <3> QED BY <2>1, <3>1 DEF Covered, Holds, Merging
    <2> QED BY <2>1, <2>4, <2>5 DEF Covered, Holds
<1>5. CASE Loop("combine", "align") \/ Loop("align", "truncate")
    <2>1. pc \in {"combine", "align"} /\ pc' \in {"align", "truncate"} /\ i' = 1 /\ table' = table
        BY <1>5 DEF Loop
    <2>2. PICK n \in Index : Has(table[n], p)
        BY <2>1 DEF Covered, Holds
    <2>3. n >= i'
        BY <2>1 DEF Index
    <2> QED BY <2>1, <2>2, <2>3 DEF Covered, Holds, Merging
<1>6. CASE Align
    <2>1. pc = "align" /\ pc' = pc /\ i' = i + 1 /\ table' = [table EXCEPT ![i] = Aligned(table[i])]
        BY <1>6 DEF Align
    <2>2. PICK n \in Index : Has(table[n], p)
        BY <2>1 DEF Covered, Holds
    <2>3. Has(table'[n], p)
        <3>1. CASE n = i
            <4>1. table[n] \in Regions /\ table'[n] = Aligned(table[n]) /\ n >= i /\ table[n].type = "USABLE"
                BY <1>0, <2>1, <2>2, <3>1 DEF Has
            <4>2. table[n].address + table[n].size < Word
                BY <2>1, <4>1 DEF Bounded
            <4> QED BY <2>2, <4>1, <4>2, AlignedHas, Zenon
        <3>2. CASE n # i
            <4>1. table'[n] = table[n]
                BY <1>0, <2>1, <3>2
            <4> QED BY <2>2, <4>1, Zenon
        <3> QED BY <3>1, <3>2
    <2> QED BY <2>1, <2>3 DEF Covered, Holds, Merging
<1>7. CASE Truncate
    <2>1. pc = "truncate" /\ pc' = pc /\ i' = i + 1
        BY <1>7 DEF Truncate
    <2>2. /\ i \in Index
          /\ \A n \in Index : n > i => table'[n] = table[n]
          /\ \A n \in 1..j : table'[n] = table[n]
          /\ table[i].type = "USABLE" => j' = j + 1 /\ j + 1 \in Index /\ table'[j + 1] = table[i]
          /\ table[i].type # "USABLE" => j' = j
        BY <1>7, TruncateKeeps
    <2>3. PICK n \in Index : Has(table[n], p) /\ (n <= j \/ n >= i)
        BY <2>1 DEF Covered, Holds
    <2>4. \E m \in Index : Has(table'[m], p) /\ (m <= j' \/ m >= i')
        <3>1. CASE n <= j
            <4>1. n \in 1..j /\ n <= j'
                BY <1>0, <2>2, <3>1 DEF Index
            <4> QED BY <2>2, <2>3, <4>1, Zenon
        <3>2. CASE n = i
            <4>1. table[i].type = "USABLE"
                BY <2>3, <3>2 DEF Has
            <4>2. j + 1 <= j'
                BY <1>0, <2>2, <4>1
            <4> QED BY <2>2, <2>3, <3>2, <4>1, <4>2, Zenon
        <3>3. CASE n > i
            <4>1. n >= i'
                BY <1>0, <2>1, <3>3 DEF Index
            <4> QED BY <2>2, <2>3, <3>3, <4>1, Zenon
        <3>4. n <= j \/ n = i \/ n > i
            BY <1>0, <2>3 DEF Index
        <3> QED BY <3>1, <3>2, <3>3, <3>4
    <2> QED BY <2>1, <2>4 DEF Covered, Holds, Merging
<1>8. CASE Loop("truncate", "place")
    <2>1. pc = "truncate" /\ pc' = "place" /\ i > NEntries /\ table' = table /\ j' = j
        BY <1>8 DEF Loop
    <2>2. PICK n \in Index : Has(table[n], p) /\ (n <= j \/ n >= i)
        BY <2>1 DEF Covered, Holds
    <2>3. n <= j
        BY <1>0, <2>1, <2>2 DEF Index
    <2> QED BY <2>1, <2>2, <2>3 DEF Covered, Holds, Merging
<1>9. CASE Place
    BY <1>9 DEF Place, Covered, Holds, Merging
<1>10. CASE Outside
    <2>1. /\ UNCHANGED <<table, i, j, start, end>>
          /\ \/ pc' = pc
             \/ pc = "search" /\ pc' = "combine"
             \/ pc \in {"place", "done", "load"} /\ pc' \in {"cannot load", "load", "kernel"}
        BY <1>10, OutsideKeeps
    <2> QED BY <2>1 DEF Covered, Holds, Merging
<1> QED BY <1>1, <1>2, <1>3, <1>4, <1>5, <1>6, <1>7, <1>8, <1>9, <1>10, Steps

LEMMA CoverNext == ASSUME MapInv, Bounded, CoverInv, [Next]_vars PROVE CoverInv'
<1>1. bios' = bios
    BY BiosKept
<1> SUFFICES ASSUME NEW p \in Nat, Offered(p)' PROVE Covered(p)'
    BY DEF CoverInv
<1>2. Offered(p)
    BY <1>1 DEF Offered
<1>3. p % PAGE_SIZE = 0 /\ LowMem <= p /\ Covered(p)
    BY <1>2 DEF CoverInv, Offered
<1> QED BY <1>3, CoverStep

----------------------------------------------------------------------------
(* Placing and loading the kernel *)

LEMMA PlaceNext == ASSUME PlaceInv, [Next]_vars, MapInv PROVE PlaceInv'
<1>1. CASE Place
    <2>1. PICK n \in 1..j : kaddr' = table[n].address % Pointer /\ table[n].size >= ksize
        BY <1>1 DEF Place, Fits
    <2>2. table' = table /\ ksize' = ksize /\ j' = j
        BY <1>1 DEF Place
    <2> QED BY <2>1, <2>2, Zenon DEF PlaceInv
<1>2. CASE Outside
    <2>1. UNCHANGED <<table, ksize, j, kaddr>>
        BY <1>2 DEF Outside, Search, CannotLoad, StartLoad, LoadSector, ClearAndMap, vars, mapVars
    <2>2. pc' \in {"done", "load", "kernel"} => pc \in {"done", "load", "kernel"}
        BY <1>2 DEF Outside, Search, CannotLoad, StartLoad, LoadSector, ClearAndMap, vars, mapVars
    <2> QED BY <2>1, <2>2, Zenon DEF PlaceInv
<1>3. CASE ~ Place /\ ~ Outside
    <2>1. pc' \notin {"done", "load", "kernel"}
        BY <1>3, Steps DEF SkipEntry, TakeEntry, Overlap, StoreEntry, Loop, Align, Truncate
    <2> QED BY <2>1 DEF PlaceInv
<1> QED BY <1>1, <1>2, <1>3

LEMMA DivMono ==
    ASSUME NEW n \in Nat \ {0}, NEW x \in Nat, NEW y \in Nat, x <= y
    PROVE  x \div n <= y \div n /\ x \div n \in Nat
<1>1. PICK p \in Int, r \in 0..(n - 1) : p = x \div n /\ x = p * n + r
    <2>1. x \in Int
        OBVIOUS
    <2> QED BY <2>1, DivMod, Zenon
<1>2. PICK q \in Int, s \in 0..(n - 1) : q = y \div n /\ y = q * n + s
    <2>1. y \in Int
        OBVIOUS
    <2> QED BY <2>1, DivMod, Zenon
<1>3. ~ (q + 1 <= p)
    <2>1. q + 1 \in Int /\ (q + 1) * n = q * n + n /\ q * n \in Int /\ p * n \in Int
        BY Distribute
    <2>2. q + 1 <= p => (q + 1) * n <= p * n
        BY <2>1, MulMono
    <2> QED BY <1>1, <1>2, <2>1, <2>2
<1>4. ~ (p <= -1)
    <2>1. p <= -1 => p * n <= (-1) * n
        BY MulMono
    <2>2. (-1) * n = -n /\ p * n \in Int
        OBVIOUS
    <2> QED BY <1>1, <2>1, <2>2
<1> QED BY <1>1, <1>2, <1>3, <1>4

\* A multiple of the sector size is that many sectors.
LEMMA WholeSectors ==
    ASSUME NEW n \in Nat \ {0}, NEW x \in Nat, x % n = 0
    PROVE  x \div n \in Nat /\ (x \div n) * n = x
<1>1. x \in Int /\ x <= x
    OBVIOUS
<1>2. x \div n \in Nat
    BY <1>1, DivMono
<1>3. x = (x \div n) * n + (x % n)
    BY <1>1, DivMod, Zenon
<1>4. (x \div n) * n \in Int
    BY <1>2
<1> QED BY <1>2, <1>3, <1>4

LEMMA HeaderFacts ==
    ASSUME NEW h \in Headers
    PROVE  /\ h.p_offset \in Nat /\ h.p_filesz \in Nat /\ h.p_memsz \in Nat /\ h.base \in Nat \ {0}
           /\ h.p_filesz <= h.p_memsz /\ h.p_offset % SECTOR_SIZE = 0
           /\ SECTOR_SIZE \in Nat \ {0} /\ SectorMod \in Nat \ {0} /\ PtEntries \in Nat
           /\ PAGE_SIZE \in Nat \ {0}
BY Stage2Assumption, MapAssumption

LEMMA LoadInit == ASSUME Init PROVE LoadInv
<1>1. /\ elf \in Headers /\ ksize = RoundUp(elf.p_memsz) /\ base = 1 /\ pos = 0 /\ pc = "search"
      /\ DOMAIN kernel_pt = 0..(PtEntries - 1)
    BY DEF Init
<1>2. SECTOR_SIZE \in Nat \ {0} /\ ksize \in Nat
    BY <1>1, HeaderFacts, MapInvInit DEF MapInv, TypeOK
<1>3. pos % SECTOR_SIZE = 0
    BY <1>1, <1>2, Below
<1>4. ~ \E o \in Extent : o < pos
    BY <1>1, <1>2 DEF Extent
<1> QED BY <1>1, <1>3, <1>4 DEF LoadInv

\* The sector that is read holds the bytes that belong at pos.
LEMMA SectorRead ==
    ASSUME LoadInv, LoadSector, OneTrack, NEW b \in InSector
    PROVE  seg_sector'[b] = InFile(pos + b)
<1>1. /\ elf \in Headers /\ pos \in Nat /\ pos % SECTOR_SIZE = 0 /\ base = elf.base
      /\ pos <= elf.p_filesz
      /\ seg_sector' = bios_read(DiskSector + pos \div SECTOR_SIZE, seg_sector)
    BY DEF LoadInv, LoadSector, More
<1>2. PICK h \in Headers : h = elf
    BY <1>1
<1>3. /\ h.p_offset \in Nat /\ h.p_filesz \in Nat /\ h.base \in Nat \ {0} /\ h.p_offset % SECTOR_SIZE = 0
      /\ SECTOR_SIZE \in Nat \ {0} /\ SectorMod \in Nat \ {0}
    BY HeaderFacts
<1>4. PICK A \in Nat : A = h.p_offset \div SECTOR_SIZE /\ A * SECTOR_SIZE = h.p_offset
    BY <1>3, WholeSectors
<1>5. PICK P \in Nat : P = pos \div SECTOR_SIZE /\ P * SECTOR_SIZE = pos
    BY <1>1, <1>3, WholeSectors
<1>6. PICK F \in Nat : F = h.p_filesz \div SECTOR_SIZE /\ P <= F
    <2>1. pos \div SECTOR_SIZE <= h.p_filesz \div SECTOR_SIZE
        BY <1>1, <1>2, <1>3, DivMono
    <2>2. h.p_filesz \div SECTOR_SIZE \in Nat
        <3>1. h.p_filesz <= h.p_filesz
            BY <1>3
        <3> QED BY <1>3, <3>1, DivMono
    <2> QED BY <1>5, <2>1, <2>2
<1>7. DiskSector = h.base + A
    BY <1>1, <1>2, <1>4 DEF DiskSector
<1>8. h.base + A + F < SectorMod
    BY <1>2, <1>6, <1>7 DEF OneTrack
<1>9. PICK n \in 1..(SectorMod - 1) : n = h.base + A + P
    BY <1>3, <1>6, <1>8
<1>10. n % SectorMod # 0 /\ n < SectorMod
    <2>1. n \in 0..(SectorMod - 1)
        BY <1>3
    <2>2. n % SectorMod = n
        BY <1>3, <2>1, Below
    <2> QED BY <1>3, <2>2
<1>11. seg_sector' = bios_read(n, seg_sector)
    BY <1>1, <1>5, <1>7, <1>9
<1>12. seg_sector'[b] = (n - 1) * SECTOR_SIZE + b + 1
    BY <1>10, <1>11 DEF bios_read
<1>13. (n - 1) * SECTOR_SIZE = (h.base - 1) * SECTOR_SIZE + h.p_offset + pos
    <2>1. h.base - 1 \in Int /\ A \in Int /\ P \in Int /\ SECTOR_SIZE \in Int /\ (h.base - 1) + A \in Int
        BY <1>3
    <2>2. n - 1 = ((h.base - 1) + A) + P
        BY <1>3, <1>9
    <2>3. (((h.base - 1) + A) + P) * SECTOR_SIZE = ((h.base - 1) + A) * SECTOR_SIZE + P * SECTOR_SIZE
        BY <2>1, Distribute, Zenon
    <2>4. ((h.base - 1) + A) * SECTOR_SIZE = (h.base - 1) * SECTOR_SIZE + A * SECTOR_SIZE
        BY <2>1, Distribute, Zenon
    <2> QED BY <1>4, <1>5, <2>2, <2>3, <2>4, Zenon
<1>14. InFile(pos + b) = (h.base - 1) * SECTOR_SIZE + h.p_offset + (pos + b) + 1
    BY <1>1, <1>2 DEF InFile
<1>15. PICK x \in Int : x = (h.base - 1) * SECTOR_SIZE
    BY <1>3
<1>16. b \in Int
    BY <1>3 DEF InSector
<1> QED BY <1>1, <1>3, <1>12, <1>13, <1>14, <1>15, <1>16

LEMMA LoadNext == ASSUME MapInv, LoadInv, [Next]_vars PROVE LoadInv'
<1>0. ksize \in Nat /\ pos \in Nat /\ elf \in Headers /\ SECTOR_SIZE \in Nat \ {0} /\ elf.p_filesz \in Nat
      /\ elf.p_memsz \in Nat
    BY HeaderFacts DEF MapInv, TypeOK, LoadInv
<1>1. CASE Search
    <2>1. /\ pc = "search" /\ pc' \in {"search", "combine"} /\ UNCHANGED <<ksize, elf, pos, kernel_pt>>
          /\ pc' # "search" => base' = base /\ base = elf.base
          /\ base' = base \/ base' = base + 1
        BY <1>1 DEF Search
    <2>2. pos = 0 /\ base \in Nat
        BY <2>1 DEF LoadInv
    <2>3. base' \in Nat
        BY <2>1, <2>2
    <2>4. ~ \E o \in Extent' : o < pos'
        BY <1>0, <2>1, <2>2 DEF Extent
    <2> QED BY <2>1, <2>2, <2>3, <2>4 DEF LoadInv
<1>2. CASE LoadSector
    <2>1. /\ pc = "load" /\ pc' = pc /\ UNCHANGED <<ksize, kaddr, elf, base, kernel_pt>> /\ pos' = pos + SECTOR_SIZE
          /\ mem' = [o \in Extent |-> IF o - pos \in InSector THEN seg_sector'[o - pos] ELSE mem[o]]
        BY <1>2 DEF LoadSector, mapVars
    <2>2. pos' \in Nat /\ pos' % SECTOR_SIZE = 0
        <3>1. SECTOR_SIZE % SECTOR_SIZE = 0
            <4>1. SECTOR_SIZE \in Int /\ 1 \in Int /\ SECTOR_SIZE = 1 * SECTOR_SIZE
                BY <1>0
            <4> QED BY <1>0, <4>1, Multiple, Zenon
        <3>2. pos % SECTOR_SIZE = 0 /\ pos \in Int /\ SECTOR_SIZE \in Int
            BY <1>0 DEF LoadInv
        <3>3. (pos + SECTOR_SIZE) % SECTOR_SIZE = 0
            BY <1>0, <3>1, <3>2, Multiples, Zenon
        <3> QED BY <1>0, <2>1, <3>3
    <2>3. OneTrack' = OneTrack /\ Extent' = Extent /\ \A o : InFile(o)' = InFile(o)
        BY <2>1 DEF OneTrack, Extent, InFile, DiskSector
    <2>4. ASSUME OneTrack, NEW o \in Extent, o < pos' PROVE mem'[o] = InFile(o)
        <3>1. o \in Nat
            BY <1>0 DEF Extent
        <3>2. CASE o < pos
            <4>1. o - pos \notin InSector
                BY <1>0, <3>1, <3>2 DEF InSector
            <4>2. mem[o] = InFile(o)
                BY <2>1, <2>4, <3>2 DEF LoadInv
            <4> QED BY <2>1, <4>1, <4>2
        <3>3. CASE ~ (o < pos)
            <4>1. PICK b \in InSector : b = o - pos /\ pos + b = o
                BY <1>0, <2>1, <2>4, <3>1, <3>3 DEF InSector
            <4>2. seg_sector'[b] = InFile(pos + b)
                BY <1>2, <2>4, SectorRead
            <4> QED BY <2>1, <4>1, <4>2
        <3> QED BY <3>2, <3>3
    <2>5. OneTrack' => \A o \in Extent' : o < pos' => mem'[o] = InFile(o)'
        BY <2>3, <2>4, Zenon
    <2>6. elf' \in Headers /\ ksize' = RoundUp(elf'.p_memsz) /\ base' \in Nat /\ base' = elf'.base
          /\ DOMAIN kernel_pt' = 0..(PtEntries - 1) /\ pc' = "load"
        BY <2>1 DEF LoadInv
    <2> QED BY <2>2, <2>5, <2>6 DEF LoadInv
<1>3. CASE ClearAndMap
    <2>1. /\ pc = "load" /\ pc' = "kernel" /\ UNCHANGED <<ksize, kaddr, elf, base, pos>> /\ ~ (pos <= elf.p_filesz)
          /\ mem' = [o \in Extent |-> IF pos <= o /\ o < elf.p_memsz THEN Zero ELSE mem[o]]
          /\ kernel_pt' = [e \in DOMAIN kernel_pt |-> kaddr + e * PAGE_SIZE]
        BY <1>3 DEF ClearAndMap, More
    <2>2. OneTrack' = OneTrack /\ Extent' = Extent /\ \A o : InFile(o)' = InFile(o)
        BY <2>1 DEF OneTrack, Extent, InFile, DiskSector
    <2>3. ASSUME OneTrack, NEW o \in Extent, o < pos, o < elf.p_filesz PROVE mem'[o] = InFile(o)
        <3>1. mem[o] = InFile(o)
            BY <2>1, <2>3 DEF LoadInv
        <3>2. ~ (pos <= o)
            BY <1>0, <2>3 DEF Extent
        <3> QED BY <2>1, <3>1, <3>2
    <2>4. OneTrack' => \A o \in Extent' : o < pos' /\ o < elf'.p_filesz => mem'[o] = InFile(o)'
        BY <2>1, <2>2, <2>3, Zenon
    <2>5. \A o \in Extent' : pos' <= o /\ o < elf'.p_memsz => mem'[o] = Zero
        BY <2>1, <2>2
    <2>6. kernel_pt' = [e \in 0..(PtEntries - 1) |-> kaddr' + e * PAGE_SIZE]
        BY <2>1 DEF LoadInv
    <2>7. elf' \in Headers /\ ksize' = RoundUp(elf'.p_memsz) /\ base' \in Nat /\ base' = elf'.base
          /\ pos' \in Nat /\ pos' % SECTOR_SIZE = 0 /\ pos' > elf'.p_filesz /\ pc' = "kernel"
        BY <1>0, <2>1 DEF LoadInv
    <2> QED BY <2>4, <2>5, <2>6, <2>7 DEF LoadInv
<1>4. CASE StartLoad
    <2>1. pc = "done" /\ pc' = "load" /\ UNCHANGED <<ksize, elf, base, pos, kernel_pt>>
        BY <1>4 DEF StartLoad, loadVars
    <2>2. pos = 0
        BY <2>1 DEF LoadInv
    <2>3. ~ \E o \in Extent' : o < pos'
        BY <1>0, <2>1, <2>2 DEF Extent
    <2> QED BY <2>1, <2>2, <2>3 DEF LoadInv
<1>5. CASE Map
    <2>1. UNCHANGED <<elf, base, pos, mem, kernel_pt>> /\ ksize' = ksize
        BY <1>5 DEF Map, loadVars, MapNext, SkipEntry, TakeEntry, Overlap, StoreEntry, Loop, Align, Truncate,
                    Place, CannotLoad
    <2>2. pc \notin {"search", "load", "kernel"} /\ pc' \notin {"search", "load", "kernel"}
        BY <1>5 DEF Map, MapNext, SkipEntry, TakeEntry, Overlap, StoreEntry, Loop, Align, Truncate,
                    Place, CannotLoad
    <2>3. pos = 0
        BY <2>2 DEF LoadInv
    <2>4. ~ \E o \in Extent' : o < pos'
        BY <1>0, <2>1, <2>3 DEF Extent
    <2> QED BY <2>1, <2>2, <2>4 DEF LoadInv
<1>6. CASE UNCHANGED vars
    BY <1>6 DEF LoadInv, vars, mapVars, OneTrack, Extent, InFile, DiskSector
<1> QED BY <1>1, <1>2, <1>3, <1>4, <1>5, <1>6 DEF Next, Ended

----------------------------------------------------------------------------
(* What stage 2 promises *)

\* For any table of the BIOS and any sizes, the loops stay within the table and
\* what is stored are numbers.
THEOREM MapInvariance == Spec => []MapInv
<1>1. Init => MapInv
    BY MapInvInit
<1>2. MapInv /\ [Next]_vars => MapInv'
    BY MapInvNext
<1> QED BY <1>1, <1>2, PTL DEF Spec

\* The list holds only whole pages of memory the BIOS calls usable, above 1 MiB,
\* whenever no entry wraps and every usable one reaches a page boundary.
THEOREM ListSoundTheorem == Spec => []ListSound
<1> DEFINE I == MapInv /\ (NoWrap => Bounded) /\ (NoWrap /\ ReachesPage => SoundInv)
<1>1. Init => I
    BY MapInvInit, BoundedInit, SoundInit
<1>2. I /\ [Next]_vars => I'
    BY BiosKept, MapInvNext, BoundedNext, SoundNext
<1>3. ASSUME I PROVE ListSound
    <2> SUFFICES ASSUME NoWrap, ReachesPage, NEW n \in 1..j
                 PROVE  /\ Bytes(table[n]) \subseteq UsableBytes \ (0..(LowMem - 1))
                        /\ table[n].address % PAGE_SIZE = 0 /\ table[n].size % PAGE_SIZE = 0
        BY DEF ListSound
    <2>1. Listed(table[n], UsableBytes)
        BY <1>3 DEF SoundInv
    <2>2. table \in [Index -> Regions] /\ j \in Nat /\ j <= NEntries /\ NEntries \in Nat /\ LowMem \in Nat
        BY <1>3, MapAssumption DEF MapInv, TypeOK, Counters
    <2>3. table[n] \in Regions
        BY <2>2 DEF Index
    <2>4. PICK a \in Nat, s \in Nat : a = table[n].address /\ s = table[n].size
        BY <2>3, RegionFields
    <2>5. LowMem <= a /\ (\A x \in a..(a + s - 1) : x \in UsableBytes)
        BY <2>1, <2>4 DEF Listed, Within
    <2>6. Bytes(table[n]) = a..(a + s - 1)
        BY <2>4 DEF Bytes
    <2>7. Bytes(table[n]) \subseteq UsableBytes \ (0..(LowMem - 1))
        BY <2>2, <2>5, <2>6
    <2> QED BY <2>1, <2>7 DEF Listed
<1> QED BY <1>1, <1>2, <1>3, PTL DEF Spec

\* The list holds every page above 1 MiB that lies within one entry of the
\* BIOS's table, whenever no entry wraps.
THEOREM ListCompleteTheorem == Spec => []ListComplete
<1> DEFINE I == MapInv /\ (NoWrap => Bounded /\ CoverInv)
<1>1. Init => I
    BY MapInvInit, BoundedInit, CoverInit
<1>2. I /\ [Next]_vars => I'
    BY BiosKept, MapInvNext, BoundedNext, CoverNext
<1>3. ASSUME I PROVE ListComplete
    <2> SUFFICES ASSUME NoWrap, Final, NEW n \in 1..NEntries, NEW p \in Bytes(bios[n]), bios[n].type = "USABLE",
                        p % PAGE_SIZE = 0, p >= LowMem, p..(p + PAGE_SIZE - 1) \subseteq Bytes(bios[n])
                 PROVE  \E m \in 1..j : p..(p + PAGE_SIZE - 1) \subseteq Bytes(table[m])
        BY DEF ListComplete
    <2>1. /\ bios \in [Index -> Regions] /\ table \in [Index -> Regions] /\ n \in Index /\ PAGE_SIZE \in Nat \ {0}
          /\ NEntries \in Nat /\ j \in Nat /\ LowMem \in Nat
        BY <1>3, MapAssumption DEF MapInv, TypeOK, Index
    <2>2. PICK a \in Nat, s \in Nat : a = bios[n].address /\ s = bios[n].size
        BY <2>1, RegionFields
    <2>3. Bytes(bios[n]) = a..(a + s - 1)
        BY <2>2 DEF Bytes
    <2>4. p \in Nat /\ a <= p
        BY <2>2, <2>3
    <2>5. p + PAGE_SIZE - 1 \in a..(a + s - 1)
        <3>1. p + PAGE_SIZE - 1 \in p..(p + PAGE_SIZE - 1)
            BY <2>1, <2>4
        <3> QED BY <2>3, <3>1
    <2>6. p + PAGE_SIZE <= a + s
        BY <2>1, <2>4, <2>5
    <2>7. Has(bios[n], p)
        BY <2>2, <2>4, <2>6 DEF Has
    <2>8. Offered(p) /\ p % PAGE_SIZE = 0
        BY <2>1, <2>4, <2>7 DEF Offered
    <2>9. PICK m \in Index : Has(table[m], p) /\ m <= j
        <3>1. Covered(p)
            BY <1>3, <2>4, <2>8 DEF CoverInv
        <3> QED BY <3>1 DEF Covered, Holds, Final, Merging
    <2>10. m \in 1..j
        BY <2>1, <2>9 DEF Index
    <2>11. PICK b \in Nat, t \in Nat : b = table[m].address /\ t = table[m].size
        BY <2>1, RegionFields
    <2>12. b <= p /\ p + PAGE_SIZE <= b + t
        BY <2>9, <2>11 DEF Has
    <2>13. p..(p + PAGE_SIZE - 1) \subseteq b..(b + t - 1)
        BY <2>1, <2>4, <2>12
    <2>14. Bytes(table[m]) = b..(b + t - 1)
        BY <2>11 DEF Bytes
    <2> QED BY <2>10, <2>13, <2>14
<1> QED BY <1>1, <1>2, <1>3, PTL DEF Spec

\* The kernel is placed in memory the BIOS calls usable, above 1 MiB, whenever
\* besides every usable entry can be addressed with the 32 bits of boot.kaddr.
THEOREM KernelInUsableTheorem == Spec => []KernelInUsable
<1> DEFINE I == MapInv /\ (NoWrap => Bounded) /\ (NoWrap /\ ReachesPage => SoundInv) /\ PlaceInv
<1>1. Init => I
    <2>1. Init => PlaceInv
        BY DEF Init, PlaceInv
    <2> QED BY <2>1, MapInvInit, BoundedInit, SoundInit
<1>2. I /\ [Next]_vars => I'
    BY BiosKept, MapInvNext, BoundedNext, SoundNext, PlaceNext
<1>3. ASSUME I PROVE KernelInUsable
    <2> SUFFICES ASSUME pc = "done", NoWrap, ReachesPage, Addressable, NEW x \in kaddr..(kaddr + ksize - 1)
                 PROVE  x \in UsableBytes \ (0..(LowMem - 1))
        BY DEF KernelInUsable
    <2>1. /\ bios \in [Index -> Regions] /\ table \in [Index -> Regions] /\ NEntries \in Nat /\ j \in Nat
          /\ LowMem \in Nat /\ j <= NEntries /\ ksize \in Nat /\ kaddr \in Nat /\ Pointer \in Nat \ {0}
        BY <1>3, MapAssumption DEF MapInv, TypeOK, Counters
    <2>2. PICK n \in 1..j : kaddr = table[n].address % Pointer /\ table[n].size >= ksize
        BY <1>3 DEF PlaceInv
    <2>3. table[n] \in Regions
        BY <2>1 DEF Index
    <2>4. PICK a \in Nat, s \in Nat : a = table[n].address /\ s = table[n].size
        BY <2>3, RegionFields
    <2>5. LowMem <= a /\ (\A y \in a..(a + s - 1) : y \in UsableBytes)
        BY <1>3, <2>4 DEF SoundInv, Listed, Within
    <2>6. a \in UsableBytes
        <3>1. a \in a..(a + s - 1)
            BY <2>1, <2>2, <2>4
        <3> QED BY <2>5, <3>1
    <2>7. PICK m \in Offers : m \in Index /\ a \in Bytes(bios[m])
        BY <2>6 DEF UsableBytes, Offers, Index
    <2>8. a < Pointer
        <3>1. bios[m].address \in Nat /\ bios[m].size \in Nat
            BY <2>1, <2>7, RegionFields
        <3>2. bios[m].address + bios[m].size <= Pointer
            BY <2>7 DEF Addressable
        <3>3. a <= bios[m].address + bios[m].size - 1
            BY <2>7, <3>1 DEF Bytes
        <3> QED BY <2>1, <3>1, <3>2, <3>3
    <2>9. kaddr = a
        <3>1. a \in 0..(Pointer - 1)
            BY <2>1, <2>8
        <3> QED BY <2>1, <2>2, <2>4, <3>1, Below, Zenon
    <2>10. x \in a..(a + s - 1) /\ x \notin 0..(LowMem - 1)
        BY <2>1, <2>2, <2>4, <2>5, <2>9
    <2> QED BY <2>5, <2>10
<1> QED BY <1>1, <1>2, <1>3, PTL DEF Spec

\* The kernel sees its segment, if kernel_pt is large enough for it: each byte
\* of the file, in its place, and zeros behind the last sector.
THEOREM KernelLoadedTheorem == ASSUME Mappable PROVE Spec => []KernelLoaded
<1> DEFINE I == MapInv /\ LoadInv
<1>1. Init => I
    BY MapInvInit, LoadInit
<1>2. I /\ [Next]_vars => I'
    BY MapInvNext, LoadNext
<1>3. ASSUME MapInv, LoadInv PROVE KernelLoaded
    <2> SUFFICES ASSUME pc = "kernel", OneTrack
                 PROVE  /\ \A o \in 0..(elf.p_filesz - 1) : Seen(o) = InFile(o)
                        /\ \A o \in pos..(elf.p_memsz - 1) : Seen(o) = Zero
        BY DEF KernelLoaded, OneTrack
    <2>1. PICK h \in Headers : h = elf
        BY <1>3 DEF LoadInv
    <2>2. /\ h.p_filesz \in Nat /\ h.p_memsz \in Nat /\ h.p_filesz <= h.p_memsz
          /\ SECTOR_SIZE \in Nat \ {0} /\ PtEntries \in Nat /\ PAGE_SIZE \in Nat \ {0}
          /\ h.p_memsz <= PtEntries * PAGE_SIZE
        BY HeaderFacts DEF Mappable
    <2>3. /\ kaddr \in Nat /\ pos \in Nat /\ pos > h.p_filesz /\ ksize \in Nat
          /\ kernel_pt = [e \in 0..(PtEntries - 1) |-> kaddr + e * PAGE_SIZE]
          /\ ksize = h.p_memsz + Gap(h.p_memsz)
          /\ \A o \in Extent : o < pos /\ o < h.p_filesz => mem[o] = InFile(o)
          /\ \A o \in Extent : pos <= o /\ o < h.p_memsz => mem[o] = Zero
        BY <1>3, <2>1 DEF MapInv, TypeOK, LoadInv, RoundUp
    <2>4. h.p_memsz <= ksize
        <3>1. Gap(h.p_memsz) \in 0..(PAGE_SIZE - 1)
            BY <2>2, GapFacts, Zenon
        <3> QED BY <2>2, <2>3, <3>1
    <2>5. ASSUME NEW o \in Nat, o < h.p_memsz PROVE Seen(o) = mem[o] /\ o \in Extent
        <3>1. PICK q \in Nat, r \in 0..(PAGE_SIZE - 1) : q = o \div PAGE_SIZE /\ r = o % PAGE_SIZE /\ o = q * PAGE_SIZE + r
            <4>1. o \in Int /\ o <= o
                OBVIOUS
            <4>2. o \div PAGE_SIZE \in Nat
                BY <2>2, <4>1, DivMono
            <4> QED BY <2>2, <4>1, <4>2, DivMod, Zenon
        <3>2. PICK z \in Nat : z = q * PAGE_SIZE
            BY <2>2
        <3>3. q \in 0..(PtEntries - 1)
            <4>1. PtEntries <= q => PtEntries * PAGE_SIZE <= q * PAGE_SIZE
                BY <2>2, MulMono
            <4>2. PICK y \in Nat : y = PtEntries * PAGE_SIZE
                BY <2>2
            <4> QED BY <2>2, <2>5, <3>1, <3>2, <4>1, <4>2
        <3>4. kernel_pt[q] = kaddr + z
            BY <2>3, <3>2, <3>3
        <3>5. (kaddr + z) + r - kaddr = o
            <4>1. o = z + r
                BY <3>1, <3>2, Zenon
            <4>2. r \in Nat
                BY <2>2, <3>1
            <4>3. kaddr \in Nat
                BY <2>3
            <4> QED BY <4>1, <4>2, <4>3
        <3>6. Seen(o) = mem[o]
            BY <3>1, <3>4, <3>5, Zenon DEF Seen
        <3>7. o \in Extent
            BY <2>2, <2>3, <2>4, <2>5 DEF Extent
        <3> QED BY <3>6, <3>7
    <2>6. ASSUME NEW o \in 0..(elf.p_filesz - 1) PROVE Seen(o) = InFile(o)
        <3>1. o \in Nat /\ o < h.p_filesz /\ o < h.p_memsz /\ o < pos
            BY <2>1, <2>2, <2>3
        <3> QED BY <2>3, <2>5, <3>1, Zenon
    <2>7. ASSUME NEW o \in pos..(elf.p_memsz - 1) PROVE Seen(o) = Zero
        <3>1. o \in Nat /\ pos <= o /\ o < h.p_memsz
            BY <2>1, <2>2, <2>3
        <3> QED BY <2>3, <2>5, <3>1, Zenon
    <2> QED BY <2>6, <2>7
<1> QED BY <1>1, <1>2, <1>3, PTL DEF Spec
=============================================================================
