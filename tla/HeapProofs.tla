---------------------------- MODULE HeapProofs -----------------------------
(***************************************************************************)
(* Proofs about PhysMem and KHeap for every bitmap geometry and heap size,  *)
(* and about Malloc for every heap of the program and requests of at least  *)
(* two words.                                                               *)
(***************************************************************************)
EXTENDS KHeap, Malloc, WellFoundedInduction, TLAPS

\* A frame number is its word index and its bit, and two frames differ in one
\* of the two.
LEMMA Division ==
    ASSUME NEW f \in Frames
    PROVE  /\ Index(f) \in Words
           /\ Shift(f) \in Bits
           /\ f = Index(f) * WordBits + Shift(f)
<1>1. /\ f \in Int /\ 0 <= f /\ f < NWords * WordBits
      /\ WordBits \in Int /\ 0 < WordBits /\ NWords \in Int
  BY PhysAssumption DEF Frames
<1>2. /\ f \div WordBits \in Int /\ f % WordBits \in Int
      /\ 0 <= f % WordBits /\ f % WordBits < WordBits
      /\ f = WordBits * (f \div WordBits) + (f % WordBits)
  BY <1>1
<1> DEFINE i == f \div WordBits
           s == f % WordBits
<1> HIDE DEF i, s
<1>3. i \in Int /\ s \in Int /\ 0 <= s /\ s < WordBits /\ f = WordBits * i + s
  BY <1>2 DEF i, s
<1>4. 0 <= i
  BY <1>1, <1>3
<1>5. i < NWords
  BY <1>1, <1>3
<1> QED
  BY <1>1, <1>3, <1>4, <1>5 DEF Index, Shift, Words, Bits, i, s

LEMMA DistinctFrames ==
    ASSUME NEW f \in Frames, NEW g \in Frames, Index(f) = Index(g), Shift(f) = Shift(g)
    PROVE  f = g
BY Division

\* puse() marks one frame and no other.
LEMMA PuseLemma ==
    ASSUME NEW bm \in [Words -> SUBSET Bits], NEW f \in Frames
    PROVE  /\ puse(bm, f) \in [Words -> SUBSET Bits]
           /\ Used(puse(bm, f)) = Used(bm) \cup {f}
<1>1. Index(f) \in Words /\ Shift(f) \in Bits
  BY Division
<1>2. puse(bm, f) \in [Words -> SUBSET Bits]
  BY <1>1 DEF puse
<1>3. ASSUME NEW g \in Frames
      PROVE  Shift(g) \in puse(bm, f)[Index(g)] <=> Shift(g) \in bm[Index(g)] \/ g = f
  <2>1. Index(g) \in Words
    BY Division
  <2>2. CASE Index(g) = Index(f)
    BY <1>1, <2>1, <2>2, DistinctFrames DEF puse
  <2>3. CASE Index(g) # Index(f)
    BY <1>1, <2>1, <2>3 DEF puse
  <2> QED
    BY <2>2, <2>3
<1> QED
  BY <1>2, <1>3 DEF Used

\* pfree() clears one frame and no other.
LEMMA PfreeLemma ==
    ASSUME NEW bm \in [Words -> SUBSET Bits], NEW f \in Frames
    PROVE  /\ pfree(bm, f) \in [Words -> SUBSET Bits]
           /\ Used(pfree(bm, f)) = Used(bm) \ {f}
<1>1. Index(f) \in Words /\ Shift(f) \in Bits
  BY Division
<1>2. pfree(bm, f) \in [Words -> SUBSET Bits]
  BY <1>1 DEF pfree
<1>3. ASSUME NEW g \in Frames
      PROVE  Shift(g) \in pfree(bm, f)[Index(g)] <=> Shift(g) \in bm[Index(g)] /\ g # f
  <2>1. Index(g) \in Words
    BY Division
  <2>2. CASE Index(g) = Index(f)
    BY <1>1, <2>1, <2>2, DistinctFrames DEF pfree
  <2>3. CASE Index(g) # Index(f)
    BY <1>1, <2>1, <2>3 DEF pfree
  <2> QED
    BY <2>2, <2>3
<1> QED
  BY <1>2, <1>3 DEF Used

\* The bitmap built at boot marks the reserved frames and nothing else.
LEMMA BitmapInit ==
    /\ init_pf_bitmap \in [Words -> SUBSET Bits]
    /\ Used(init_pf_bitmap) = Reserved
<1>1. init_pf_bitmap \in [Words -> SUBSET Bits]
  BY DEF init_pf_bitmap
<1>2. Reserved \subseteq Frames
  <2> DEFINE total == NWords * WordBits
  <2>1. total \in Int /\ NReserved \in 0..total
    BY PhysAssumption
  <2> HIDE DEF total
  <2>2. 0..(NReserved - 1) \subseteq 0..(total - 1)
    BY <2>1
  <2> QED
    BY <2>2 DEF total, Reserved, Frames
<1>3. ASSUME NEW f \in Frames
      PROVE  Shift(f) \in init_pf_bitmap[Index(f)] <=> f \in Reserved
  BY Division DEF init_pf_bitmap
<1> QED
  BY <1>1, <1>2, <1>3 DEF Used

\* pmalloc() returns a frame that was free.
LEMMA PmallocLemma ==
    ASSUME NEW bm, NEW f \in Frames, pmalloc(bm, f)
    PROVE  f \notin Used(bm)
BY DEF pmalloc, Used

\* Word by word and then bit by bit, pmalloc() finds the lowest frame that is
\* free: a lower one would lie in a word that is all ones, or be a lower bit of
\* the same word.
LEMMA PmallocLowest ==
    ASSUME NEW bm \in [Words -> SUBSET Bits], NEW f \in Frames, pmalloc(bm, f),
           NEW g \in Frames \ Used(bm)
    PROVE  f <= g
<1>0. WordBits \in Int /\ 0 < WordBits
  BY PhysAssumption
<1>1. Index(f) \in Words /\ Shift(f) \in Bits /\ f = Index(f) * WordBits + Shift(f)
  BY Division
<1>2. Index(g) \in Words /\ Shift(g) \in Bits /\ g = Index(g) * WordBits + Shift(g)
  BY Division
<1>3. Shift(g) \notin bm[Index(g)]
  BY DEF Used
<1>4. ~ (Index(g) < Index(f))
  BY <1>2, <1>3 DEF pmalloc
<1>5. Index(g) = Index(f) => ~ (Shift(g) < Shift(f))
  BY <1>2, <1>3 DEF pmalloc
<1> DEFINE i == Index(f)
           j == Index(g)
           s == Shift(f)
           t == Shift(g)
<1> HIDE DEF i, j, s, t
<1>6. /\ i \in Int /\ j \in Int /\ s \in Int /\ t \in Int
      /\ 0 <= s /\ s < WordBits /\ 0 <= t /\ t < WordBits
      /\ i <= j /\ (i = j => s <= t)
      /\ f = i * WordBits + s /\ g = j * WordBits + t
  BY <1>0, <1>1, <1>2, <1>4, <1>5 DEF Words, Bits, i, j, s, t
<1>7. CASE i = j
  BY <1>0, <1>6, <1>7
<1>8. CASE i < j
  <2>1. PICK k \in Int : j = i + k /\ 1 <= k
    BY <1>6, <1>8
  <2>2. j * WordBits = i * WordBits + k * WordBits /\ WordBits <= k * WordBits
    BY <1>0, <1>6, <2>1
  <2>3. i * WordBits \in Int /\ k * WordBits \in Int
    BY <1>0, <1>6, <2>1
  <2> QED
    BY <1>0, <1>6, <2>2, <2>3
<1> QED
  BY <1>6, <1>7, <1>8

----------------------------------------------------------------------------
\* A used slot is present.
UsedPresent == \A s \in used : entry[s] # NoFrame

\* The inductive invariant. UsedPresent is needed where a heap page's frame is
\* handed to an address space: it is a frame.
Inv == TypeOK /\ NoAlias /\ Accounted /\ TlbCoherent /\ UsedPresent

LEMMA InitInv == Init => Inv
<1> SUFFICES ASSUME Init PROVE Inv
  OBVIOUS
<1>1. HeapFrames = {}
  BY HeapAssumption DEF Init, HeapFrames
<1>2. TypeOK
  BY BitmapInit DEF Init, TypeOK
<1>3. NoAlias /\ Accounted /\ TlbCoherent /\ UsedPresent
  BY <1>1, BitmapInit DEF Init, NoAlias, Accounted, TlbCoherent, UsedPresent
<1> QED
  BY <1>2, <1>3 DEF Inv

\* A slot that was not used is neither cached nor mapped to a device.
LEMMA UnusedSlot ==
    ASSUME Inv, NEW s \in Slots, s \notin used
    PROVE  s \notin device /\ tlb[s] = NoFrame
BY DEF Inv, TypeOK, TlbCoherent

LEMMA NextInv == Inv /\ [Next]_vars => Inv'
<1> SUFFICES ASSUME Inv, [Next]_vars PROVE Inv'
  OBVIOUS
<1>0. TypeOK /\ NoAlias /\ Accounted /\ TlbCoherent /\ UsedPresent
  BY DEF Inv
<1>1. ASSUME NEW s \in Slots, KmallocPresent(s) PROVE Inv'
  <2>1. HeapFrames' = HeapFrames
    BY <1>1 DEF KmallocPresent, HeapFrames
  <2> QED
    BY <1>0, <1>1, <2>1 DEF KmallocPresent, Inv, TypeOK, NoAlias, Accounted, TlbCoherent, UsedPresent
<1>2. ASSUME NEW s \in Slots, NEW f \in Frames, KmallocFresh(s, f) PROVE Inv'
  <2>0. /\ entry[s] = NoFrame /\ s \notin used /\ pmalloc(pf_bitmap, f)
        /\ pf_bitmap' = puse(pf_bitmap, f)
        /\ entry' = [entry EXCEPT ![s] = f]
        /\ used' = used \cup {s}
        /\ UNCHANGED <<device, tlb, user, lost, panicked>>
    BY <1>2 DEF KmallocFresh, FirstUnused
  <2>1. f \notin Used(pf_bitmap) /\ f # NoFrame
    BY <2>0, PmallocLemma, HeapAssumption
  <2>2. s \notin device /\ tlb[s] = NoFrame
    BY <2>0, UnusedSlot
  <2>3. HeapFrames' = HeapFrames \cup {f}
    BY <1>0, <2>0, <2>1, <2>2 DEF HeapFrames, TypeOK
  <2>4. pf_bitmap' \in [Words -> SUBSET Bits] /\ Used(pf_bitmap') = Used(pf_bitmap) \cup {f}
    BY <1>0, <2>0, PuseLemma DEF TypeOK
  <2>5. TypeOK'
    BY <1>0, <2>0, <2>4 DEF TypeOK
  <2>6. NoAlias'
    <3>1. f \notin HeapFrames /\ f \notin user /\ f \notin Reserved
      BY <1>0, <2>1 DEF Accounted
    <3>2. \A t \in Slots \ device : t # s => entry[t] # f
      BY <2>1, <3>1 DEF HeapFrames
    <3> QED
      BY <1>0, <2>0, <2>3, <3>1, <3>2 DEF NoAlias, TypeOK
  <2>7. Accounted' /\ TlbCoherent' /\ UsedPresent'
    BY <1>0, <2>0, <2>1, <2>2, <2>3, <2>4 DEF Accounted, TlbCoherent, TypeOK, UsedPresent
  <2> QED
    BY <2>5, <2>6, <2>7 DEF Inv
<1>3. ASSUME NEW s \in Slots, Kfree(s) PROVE Inv'
  <2>1. HeapFrames' = HeapFrames
    BY <1>3 DEF Kfree, HeapFrames
  <2>2. TypeOK' /\ NoAlias' /\ Accounted'
    BY <1>0, <1>3, <2>1 DEF Kfree, Flush, TypeOK, NoAlias, Accounted
  <2>3. TlbCoherent' /\ UsedPresent'
    BY <1>0, <1>3 DEF Kfree, Flush, TypeOK, TlbCoherent, UsedPresent
  <2> QED
    BY <2>2, <2>3 DEF Inv
<1>4. ASSUME NEW s \in Slots, NEW d \in Mmio, MmioMalloc(s, d) PROVE Inv'
  <2>0. /\ s \notin used
        /\ entry' = [entry EXCEPT ![s] = d]
        /\ used' = used \cup {s}
        /\ device' = device \cup {s}
        /\ UNCHANGED <<tlb, user, lost, panicked>>
    BY <1>4 DEF MmioMalloc, FirstUnused
  <2>1. d \in Frames /\ s \notin device /\ tlb[s] = NoFrame
    BY <2>0, UnusedSlot, HeapAssumption
  <2>2. /\ pf_bitmap' \in [Words -> SUBSET Bits]
        /\ Used(pf_bitmap') = Used(pf_bitmap) \ {entry[s]}
    <3>1. CASE entry[s] # NoFrame
      BY <1>0, <1>4, <3>1, PfreeLemma DEF MmioMalloc, MmioFree, TypeOK
    <3>2. CASE entry[s] = NoFrame
      <4>1. PICK f \in Frames : pmalloc(pf_bitmap, f) /\ pf_bitmap' = pfree(puse(pf_bitmap, f), f)
        BY <1>4, <3>2 DEF MmioMalloc, MmioFree
      <4>2. puse(pf_bitmap, f) \in [Words -> SUBSET Bits] /\ Used(puse(pf_bitmap, f)) = Used(pf_bitmap) \cup {f}
        BY <1>0, PuseLemma DEF TypeOK
      <4>3. pf_bitmap' \in [Words -> SUBSET Bits] /\ Used(pf_bitmap') = (Used(pf_bitmap) \cup {f}) \ {f}
        BY <4>1, <4>2, PfreeLemma
      <4>4. f \notin Used(pf_bitmap) /\ NoFrame \notin Used(pf_bitmap)
        BY <4>1, PmallocLemma, HeapAssumption DEF Used
      <4> QED
        BY <3>2, <4>3, <4>4
    <3> QED
      BY <3>1, <3>2
  <2>3. HeapFrames' = HeapFrames \ {entry[s]}
    <3>1. \A t \in Slots \ device : t # s /\ entry[t] # NoFrame => entry[t] # entry[s]
      BY <1>0, <2>1 DEF NoAlias
    <3> QED
      BY <1>0, <2>0, <2>1, <3>1 DEF HeapFrames, TypeOK
  <2>4. entry[s] \notin user /\ entry[s] \notin Reserved /\ entry[s] \notin lost
    <3>1. CASE entry[s] = NoFrame
      <4>1. Reserved \subseteq Frames /\ user \subseteq Frames /\ lost \subseteq Frames
        BY <1>0, BitmapInit DEF Used, TypeOK
      <4> QED
        BY <3>1, <4>1, HeapAssumption
    <3>2. CASE entry[s] # NoFrame
      BY <1>0, <2>1, <3>2 DEF HeapFrames, NoAlias, Accounted
    <3> QED
      BY <3>1, <3>2
  <2>5. TypeOK'
    BY <1>0, <2>0, <2>1, <2>2 DEF TypeOK
  <2>6. NoAlias'
    BY <1>0, <2>0, <2>3 DEF NoAlias, TypeOK
  <2>7. Accounted'
    BY <1>0, <2>0, <2>2, <2>3, <2>4 DEF Accounted
  <2>8. TlbCoherent' /\ UsedPresent'
    BY <1>0, <2>0, <2>1, HeapAssumption DEF TlbCoherent, TypeOK, UsedPresent
  <2> QED
    BY <2>5, <2>6, <2>7, <2>8 DEF Inv
<1>5. ASSUME NEW s \in Slots, Donate(s) PROVE Inv'
  <2>0. /\ s \in used /\ s \notin device
        /\ user' = user \cup {entry[s]}
        /\ entry' = [entry EXCEPT ![s] = NoFrame]
        /\ used' = used \ {s}
        /\ tlb' = [tlb EXCEPT ![s] = NoFrame]
        /\ UNCHANGED <<pf_bitmap, device, lost, panicked>>
    BY <1>5 DEF Donate, DonatedEntry, Flush
  <2>1. entry[s] \in Frames
    BY <1>0, <2>0 DEF UsedPresent, TypeOK
  <2>2. HeapFrames' = HeapFrames \ {entry[s]}
    <3>1. \A t \in Slots \ device : t # s /\ entry[t] # NoFrame => entry[t] # entry[s]
      BY <1>0, <2>0 DEF NoAlias
    <3> QED
      BY <1>0, <2>0, <3>1 DEF HeapFrames, TypeOK
  <2>3. entry[s] \in HeapFrames
    BY <2>0, <2>1, HeapAssumption DEF HeapFrames
  <2>4. TypeOK' /\ Accounted' /\ TlbCoherent' /\ UsedPresent'
    BY <1>0, <2>0, <2>1, <2>2, <2>3 DEF TypeOK, Accounted, TlbCoherent, UsedPresent
  <2>5. NoAlias'
    BY <1>0, <2>0, <2>2, <2>3 DEF NoAlias, TypeOK
  <2> QED
    BY <2>4, <2>5 DEF Inv
<1>6. ASSUME NEW s \in Slots, Touch(s) PROVE Inv'
  <2>1. HeapFrames' = HeapFrames
    BY <1>6 DEF Touch, HeapFrames
  <2> QED
    BY <1>0, <1>6, <2>1 DEF Touch, Inv, TypeOK, NoAlias, Accounted, TlbCoherent, UsedPresent
<1>7. ASSUME NEW f \in Frames, UserFrame(f) PROVE Inv'
  <2>1. f \notin Used(pf_bitmap)
    BY <1>7, PmallocLemma DEF UserFrame
  <2>2. pf_bitmap' \in [Words -> SUBSET Bits] /\ Used(pf_bitmap') = Used(pf_bitmap) \cup {f}
    BY <1>0, <1>7, PuseLemma DEF TypeOK, UserFrame
  <2>3. HeapFrames' = HeapFrames
    BY <1>7 DEF UserFrame, HeapFrames
  <2> QED
    BY <1>0, <1>7, <2>1, <2>2, <2>3 DEF UserFrame, Inv, TypeOK, NoAlias, Accounted, TlbCoherent, UsedPresent
<1>8. CASE KmallocPanics \/ UserFramePanics \/ UNCHANGED vars
  <2>1. UNCHANGED <<pf_bitmap, entry, used, device, tlb, user, lost>> /\ panicked' \in BOOLEAN
    BY <1>0, <1>8 DEF KmallocPanics, UserFramePanics, kpanic, vars, TypeOK
  <2>2. HeapFrames' = HeapFrames
    BY <2>1 DEF HeapFrames
  <2> QED
    BY <1>0, <2>1, <2>2 DEF Inv, TypeOK, NoAlias, Accounted, TlbCoherent, UsedPresent
<1>9. ASSUME NEW fs \in SUBSET user, UserDrops(fs) PROVE Inv'
  <2>1. HeapFrames' = HeapFrames
    BY <1>9 DEF UserDrops, HeapFrames
  <2>2. TypeOK' /\ TlbCoherent' /\ UsedPresent'
    BY <1>0, <1>9 DEF UserDrops, TypeOK, TlbCoherent, UsedPresent
  <2>3. NoAlias' /\ Accounted'
    BY <1>0, <1>9, <2>1 DEF UserDrops, NoAlias, Accounted
  <2> QED
    BY <2>2, <2>3 DEF Inv
<1> QED
  BY <1>1, <1>2, <1>3, <1>4, <1>5, <1>6, <1>7, <1>8, <1>9 DEF Next, Halted

----------------------------------------------------------------------------
\* The invariant holds in every reachable state of the allocators.
THEOREM Invariance == Spec => []Inv
BY InitInv, NextInv, PTL DEF Spec

\* No frame is handed out twice, whatever the order of kmalloc, kfree,
\* mmiomalloc, mmap and copy-on-write.
THEOREM NoAliasTheorem == Spec => []NoAlias
<1>1. Inv => NoAlias
  BY DEF Inv
<1> QED
  BY <1>1, Invariance, PTL

\* The bitmap marks exactly the frames somebody holds and those the address spaces
\* have dropped: of the others none is lost, and of these none comes back.
THEOREM AccountedTheorem == Spec => []Accounted
<1>1. Inv => Accounted
  BY DEF Inv
<1> QED
  BY <1>1, Invariance, PTL

\* A cached translation of a heap page is never stale.
THEOREM TlbTheorem == Spec => []TlbCoherent
<1>1. Inv => TlbCoherent
  BY DEF Inv
<1> QED
  BY <1>1, Invariance, PTL

\* Every frame the bitmap newly marks is the lowest that was free, whichever of
\* kmalloc, mmap and the page fault handler asks for it; mmiomalloc() marks none.
THEOREM TakesLowestTheorem == Spec => TakesLowest
<1> DEFINE Lowest == \A f \in Used(pf_bitmap') \ Used(pf_bitmap) :
                        \A g \in Frames \ Used(pf_bitmap) : f <= g
<1>1. Inv /\ [Next]_vars => [Lowest]_vars
  <2> SUFFICES ASSUME Inv, Next PROVE Lowest
    OBVIOUS
  <2>0. pf_bitmap \in [Words -> SUBSET Bits]
    BY DEF Inv, TypeOK
  <2>1. ASSUME NEW f \in Frames, pmalloc(pf_bitmap, f), pf_bitmap' = puse(pf_bitmap, f)
        PROVE  Lowest
    <3>1. Used(pf_bitmap') = Used(pf_bitmap) \cup {f}
      BY <2>0, <2>1, PuseLemma
    <3> QED
      BY <2>0, <2>1, <3>1, PmallocLowest
  <2>2. ASSUME NEW s \in Slots, NEW d \in Mmio, MmioMalloc(s, d)
        PROVE  Lowest
    <3>1. CASE entry[s] # NoFrame
      <4>1. entry[s] \in Frames
        BY <3>1 DEF Inv, TypeOK
      <4>2. Used(pf_bitmap') = Used(pf_bitmap) \ {entry[s]}
        BY <2>0, <2>2, <3>1, <4>1, PfreeLemma DEF MmioMalloc, MmioFree
      <4> QED
        BY <4>2
    <3>2. CASE entry[s] = NoFrame
      <4>1. PICK f \in Frames : pmalloc(pf_bitmap, f) /\ pf_bitmap' = pfree(puse(pf_bitmap, f), f)
        BY <2>2, <3>2 DEF MmioMalloc, MmioFree
      <4>2. /\ puse(pf_bitmap, f) \in [Words -> SUBSET Bits]
            /\ Used(puse(pf_bitmap, f)) = Used(pf_bitmap) \cup {f}
        BY <2>0, PuseLemma
      <4>3. Used(pf_bitmap') = (Used(pf_bitmap) \cup {f}) \ {f}
        BY <4>1, <4>2, PfreeLemma
      <4> QED
        BY <4>3
    <3> QED
      BY <3>1, <3>2
  <2>3. ASSUME pf_bitmap' = pf_bitmap PROVE Lowest
    BY <2>3
  <2>4. CASE \E s \in Slots : KmallocPresent(s) \/ Kfree(s) \/ Donate(s) \/ Touch(s)
    BY <2>3, <2>4 DEF KmallocPresent, Kfree, Donate, Touch
  <2>5. CASE \E s \in Slots, f \in Frames : KmallocFresh(s, f)
    BY <2>1, <2>5 DEF KmallocFresh
  <2>6. CASE \E f \in Frames : UserFrame(f)
    BY <2>1, <2>6 DEF UserFrame
  <2>7. CASE KmallocPanics \/ UserFramePanics \/ Halted
    BY <2>3, <2>7 DEF KmallocPanics, UserFramePanics, Halted, kpanic, vars
  <2>8. CASE \E fs \in SUBSET user : UserDrops(fs)
    BY <2>3, <2>8 DEF UserDrops
  <2> HIDE DEF Lowest
  <2> QED
    BY <2>2, <2>4, <2>5, <2>6, <2>7, <2>8 DEF Next
<1> QED
  BY <1>1, Invariance, PTL DEF Spec, TakesLowest

----------------------------------------------------------------------------
(* libc: malloc() and free(). *)

\* C is the set of the blocks of the list: they tile the heap.
Listed(C) ==
    /\ Base \in C
    /\ \A b \in C : /\ mem[b] % 4 \in {0, 1}
                    /\ mem[b + 4] \in C \cup {NULL}
                    /\ b + Desc + Bytes(b) = IF mem[b + 4] = NULL THEN End ELSE mem[b + 4]
    /\ \A c \in C \ {Base} : \E b \in C : mem[b + 4] = c
    /\ \A b, c \in C : b < c => b + Desc + Bytes(b) <= c
    /\ \A b \in C : b + Desc + Bytes(b) <= End

\* A block is used exactly while the program holds its memory.
Held(C) ==
    /\ \A g \in given : g[1] - Desc \in C /\ ~Free(g[1] - Desc) /\ g[2] <= Bytes(g[1] - Desc)
    /\ \A g, h \in given : g[1] = h[1] => g = h
    /\ \A c \in C : ~Free(c) => \E g \in given : g[1] = c + Desc

\* The blocks malloc() has passed do not fit.
Searched(C) ==
    /\ pc = "search" => /\ block \in C /\ asked \in Requests
                        /\ want >= 8 /\ asked <= want
                        /\ \A b \in C : b < block => ~Fits(b)
    /\ pc = "hang" => \A b \in C : ~Fits(b)

MallocInv == MallocTypeOK /\ \E C \in SUBSET Addresses : Listed(C) /\ Held(C) /\ Searched(C)

\* A set of numbers has a least one: what induction rests on.
LEMMA LeastNumber ==
    ASSUME NEW T \in SUBSET Nat, T # {}
    PROVE  \E m \in T : \A k \in T : m <= k
<1> DEFINE R == {ss \in Nat \X Nat : ss[1] < ss[2]}
<1>1. IsWellFoundedOn(R, Nat)
    BY NatLessThanWellFounded DEF OpToRel
<1> HIDE DEF R
<1>2. PICK x \in T : \A y \in T : ~ (<<y, x>> \in R)
    BY <1>1, WFMin
<1>3. \A y \in T : ~ (y < x)
    BY <1>2 DEF R
<1> QED BY <1>3

\* A number has a property in S if 0 has it and a number's successor does
\* whenever the number does.
LEMMA UpTo ==
    ASSUME NEW n \in Nat, NEW S, 0 \in S, \A k \in 0..(n - 1) : k \in S => k + 1 \in S
    PROVE  \A k \in 0..n : k \in S
<1> SUFFICES ASSUME {k \in 0..n : k \notin S} # {} PROVE FALSE
    OBVIOUS
<1> DEFINE T == {k \in 0..n : k \notin S}
<1>1. T \in SUBSET Nat /\ T # {}
    OBVIOUS
<1>2. PICK m \in T : \A k \in T : m <= k
    BY ONLY <1>1, LeastNumber
<1>3. m \in 0..n /\ m # 0 /\ m \notin S
    BY <1>2
<1>4. m - 1 \in 0..(n - 1) /\ m - 1 \in 0..n /\ ~ (m <= m - 1) /\ m = (m - 1) + 1
    BY <1>3
<1>5. m - 1 \in S
    BY <1>2, <1>4
<1>6. (m - 1) + 1 \in S
    BY <1>4, <1>5
<1> QED BY <1>3, <1>4, <1>6

\* A function that starts at a and goes on by F exists.
LEMMA Iteration ==
    ASSUME NEW S, NEW a \in S, NEW F \in [S -> S], NEW n \in Nat
    PROVE  \E f : f = [k \in 0..n |-> IF k = 0 THEN a ELSE F[f[k - 1]]]
<1> DEFINE Runs(f, m) == f[0] = a /\ \A k \in 1..m : f[k] = F[f[k - 1]]
<1> DEFINE T == {m \in Nat : \E f \in [0..m -> S] : Runs(f, m)}
<1>1. 0 \in T
    <2> DEFINE f == [k \in 0..0 |-> a]
    <2>1. f \in [0..0 -> S] /\ Runs(f, 0)
        OBVIOUS
    <2> QED BY <2>1
<1>2. ASSUME NEW k \in 0..(n - 1), k \in T PROVE k + 1 \in T
    <2>1. PICK f \in [0..k -> S] : Runs(f, k)
        BY <1>2
    <2>2. k \in Nat /\ k \in 0..k
        OBVIOUS
    <2> DEFINE g == [j \in 0..(k + 1) |-> IF j = k + 1 THEN F[f[k]] ELSE f[j]]
    <2>3. \A j \in 0..(k + 1) : j = k + 1 \/ j \in 0..k
        BY <2>2
    <2>4. f[k] \in S /\ F[f[k]] \in S
        BY <2>2
    <2>5. g \in [0..(k + 1) -> S]
        BY <2>3, <2>4
    <2>6. \A j \in 0..k : g[j] = f[j]
        BY <2>2
    <2>7. g[k + 1] = F[f[k]] /\ g[0] = a
        BY <2>1, <2>2
    <2>8. ASSUME NEW j \in 1..(k + 1) PROVE g[j] = F[g[j - 1]]
        <3>1. CASE j = k + 1
            <4>1. j - 1 = k
                BY <3>1, <2>2
            <4> QED BY <3>1, <4>1, <2>2, <2>6, <2>7
        <3>2. CASE j # k + 1
            <4>1. j \in 1..k /\ j \in 0..k /\ j - 1 \in 0..k
                BY <3>2, <2>2
            <4> HIDE DEF g
            <4> QED BY <4>1, <2>1, <2>6
        <3> QED BY <3>1, <3>2
    <2> HIDE DEF g
    <2>9. Runs(g, k + 1)
        BY <2>7, <2>8
    <2> QED BY <2>2, <2>5, <2>9
<1> HIDE DEF T
<1>3. \A k \in 0..n : k \in T
    BY <1>1, <1>2, UpTo
<1>4. n \in T
    BY <1>3
<1>5. PICK f \in [0..n -> S] : Runs(f, n)
    BY <1>4 DEF T
<1>6. \A k \in 0..n : f[k] = IF k = 0 THEN a ELSE F[f[k - 1]]
    BY <1>5
<1>7. f = [k \in 0..n |-> IF k = 0 THEN a ELSE F[f[k - 1]]]
    BY <1>6
<1> QED BY <1>7

----------------------------------------------------------------------------
LEMMA AddressFacts ==
    /\ Base \in Nat /\ Base > 0 /\ Base % 4 = 0 /\ HEAP_SIZE \in Nat /\ HEAP_SIZE % 4 = 0
    /\ Word \in Nat /\ Word % 4 = 0 /\ Word > Base + HEAP_SIZE + 24
    /\ \A a \in Addresses : a \in Nat /\ a % 4 = 0 /\ Base <= a
    /\ \A a \in Nat : a % 4 = 0 /\ Base <= a /\ a <= Base + HEAP_SIZE + 20 => a \in Addresses
    /\ \A n \in Requests : n \in 0..(Word - 4)
BY MallocAssumption DEF Addresses, Desc

LEMMA BlockFacts ==
    ASSUME MallocTypeOK, NEW C \in SUBSET Addresses, Listed(C), NEW b \in C
    PROVE  /\ b \in Nat /\ b % 4 = 0 /\ Base <= b /\ b + Desc <= End
           /\ b \in Addresses /\ b + 4 \in Addresses /\ b + 8 \in Addresses
           /\ mem[b] \in Nat /\ mem[b + 4] \in Nat
           /\ Bytes(b) \in Nat /\ Bytes(b) % 4 = 0
           /\ Free(b) => mem[b] = Bytes(b)
           /\ ~Free(b) => mem[b] = Bytes(b) + 1
           /\ b + Desc + Bytes(b) <= End
<1>1. b \in Addresses /\ b \in Nat /\ b % 4 = 0 /\ Base <= b /\ Base \in Nat /\ HEAP_SIZE \in Nat
    BY AddressFacts
<1>2. mem[b] \in Nat /\ mem[b] % 4 \in {0, 1} /\ b + Desc + Bytes(b) <= End
    BY <1>1, AddressFacts DEF MallocTypeOK, Listed
<1>3. /\ Bytes(b) \in Nat /\ Bytes(b) % 4 = 0
      /\ Free(b) => mem[b] = Bytes(b)
      /\ ~Free(b) => mem[b] = Bytes(b) + 1
    BY <1>2 DEF Bytes, Free, size
<1>4. b + Desc <= End
    BY <1>1, <1>2, <1>3 DEF Desc, End
<1>5. b + 4 \in Addresses /\ b + 8 \in Addresses
    BY <1>1, <1>4, AddressFacts DEF Desc, End
<1>6. mem[b + 4] \in Nat
    BY <1>5, AddressFacts DEF MallocTypeOK
<1> QED BY <1>1, <1>2, <1>3, <1>4, <1>5, <1>6

\* The walk along the fd pointers reaches the blocks and nothing else.
LEMMA Walk ==
    ASSUME MallocTypeOK, NEW C \in SUBSET Addresses, Listed(C)
    PROVE  Blocks = C
<1> DEFINE Further(R) == R \cup {mem[b + 4] : b \in {c \in R : mem[c + 4] # NULL}}
<1> DEFINE F == [R \in SUBSET C |-> Further(R)]
<1> DEFINE Equation(f) == f = [k \in 0..HEAP_SIZE |-> IF k = 0 THEN {Base} ELSE Further(f[k - 1])]
<1>1. \A R \in SUBSET C : Further(R) \in SUBSET C
    BY DEF Listed
<1>2. F \in [SUBSET C -> SUBSET C]
    BY <1>1
<1>3. HEAP_SIZE \in Nat /\ {Base} \in SUBSET C
    BY AddressFacts DEF Listed
<1> HIDE DEF Further
<1>4. \E f : Equation(f)
    <2>1. PICK f : f = [k \in 0..HEAP_SIZE |-> IF k = 0 THEN {Base} ELSE F[f[k - 1]]]
        <3> PICK S : S = SUBSET C
            OBVIOUS
        <3> PICK a : a = {Base}
            OBVIOUS
        <3> HIDE DEF F
        <3>1. F \in [S -> S] /\ a \in S
            BY <1>2, <1>3
        <3>2. \E f : f = [k \in 0..HEAP_SIZE |-> IF k = 0 THEN a ELSE F[f[k - 1]]]
            BY ONLY <1>3, <3>1, Iteration
        <3> QED BY <3>2
    <2> DEFINE T == {k \in Nat : f[k] \in SUBSET C}
    <2>2. 0 \in T
        BY <1>3, <2>1
    <2>3. ASSUME NEW k \in 0..(HEAP_SIZE - 1), k \in T PROVE k + 1 \in T
        <3>1. k + 1 \in 0..HEAP_SIZE /\ k + 1 # 0 /\ (k + 1) - 1 = k /\ k \in Nat
            BY <1>3
        <3>2. f[k + 1] = F[f[k]]
            BY <2>1, <3>1
        <3> HIDE DEF F
        <3> QED BY <3>1, <3>2, <2>3, <1>2
    <2> HIDE DEF T
    <2>4. \A k \in 0..HEAP_SIZE : k \in T
        BY <1>3, <2>2, <2>3, UpTo
    <2>5. ASSUME NEW k \in 0..HEAP_SIZE, k # 0 PROVE F[f[k - 1]] = Further(f[k - 1])
        <3>1. k - 1 \in 0..HEAP_SIZE
            BY <2>5, <1>3
        <3>2. f[k - 1] \in SUBSET C
            BY <3>1, <2>4 DEF T
        <3> QED BY <3>2
    <2>6. Equation(f)
        BY <2>1, <2>5
    <2> QED BY <2>6
<1>5. PICK reach : Equation(reach) /\ Blocks = reach[HEAP_SIZE \div Desc]
    <2> DEFINE Reach == CHOOSE f : Equation(f)
    <2>1. Equation(Reach)
        BY <1>4
    <2>2. Blocks = Reach[HEAP_SIZE \div Desc]
        BY DEF Blocks, Further, fd
    <2> HIDE DEF Reach
    <2> QED BY <2>1, <2>2
<1>6. /\ reach[0] = {Base}
      /\ \A k \in 0..(HEAP_SIZE - 1) : reach[k + 1] = Further(reach[k])
    <2>1. \A k \in 0..(HEAP_SIZE - 1) : k + 1 \in 0..HEAP_SIZE /\ k + 1 # 0 /\ (k + 1) - 1 = k
        BY <1>3
    <2>2. 0 \in 0..HEAP_SIZE
        BY <1>3
    <2> QED BY <1>5, <2>1, <2>2
<1> HIDE DEF Equation
<1>7. \A k \in 0..HEAP_SIZE : reach[k] \in SUBSET C
    <2> DEFINE T == {k \in Nat : reach[k] \in SUBSET C}
    <2>1. 0 \in T
        BY <1>3, <1>6
    <2>2. ASSUME NEW k \in 0..(HEAP_SIZE - 1), k \in T PROVE k + 1 \in T
        BY <2>2, <1>1, <1>6
    <2> HIDE DEF T
    <2>3. \A k \in 0..HEAP_SIZE : k \in T
        BY <1>3, <2>1, <2>2, UpTo
    <2> QED BY <2>3 DEF T
\* A later set holds what an earlier one does.
<1>8. ASSUME NEW c, NEW i \in 0..HEAP_SIZE, c \in reach[i], NEW m \in 0..HEAP_SIZE, i <= m
      PROVE  c \in reach[m]
    <2> DEFINE T == {k \in Nat : k < i \/ c \in reach[k]}
    <2>1. 0 \in T
        BY <1>8
    <2>2. ASSUME NEW k \in 0..(HEAP_SIZE - 1), k \in T PROVE k + 1 \in T
        <3>1. k \in Nat /\ i \in Nat /\ k + 1 \in Nat
            BY <1>3
        <3>2. CASE k + 1 < i
            BY <3>1, <3>2
        <3>3. CASE k + 1 = i
            BY <3>1, <3>3, <1>8
        <3>4. CASE i < k + 1
            <4>1. c \in reach[k]
                BY <3>1, <3>4, <2>2
            <4> QED BY <3>1, <4>1, <1>6 DEF Further
        <3> QED BY <3>1, <3>2, <3>3, <3>4
    <2> HIDE DEF T
    <2>3. \A k \in 0..HEAP_SIZE : k \in T
        BY <1>3, <2>1, <2>2, UpTo
    <2>4. m \in T
        BY <2>3
    <2> QED BY <2>4, <1>8, <1>3 DEF T
\* A block that lies k descriptors or more above the first is reached in k steps.
<1>9. \A c \in C : \E k \in 0..HEAP_SIZE : Base + 12 * k <= c /\ c \in reach[k]
    <2> DEFINE Reached(c) == \E k \in 0..HEAP_SIZE : Base + 12 * k <= c /\ c \in reach[k]
    <2> DEFINE T == {c \in C : ~Reached(c)}
    <2> SUFFICES ASSUME T # {} PROVE FALSE
        OBVIOUS
    <2>1. T \in SUBSET Nat
        BY AddressFacts
    <2>2. PICK c \in T : \A d \in T : c <= d
        <3> HIDE DEF T
        <3> QED BY <2>1, LeastNumber
    <2>3. c \in C /\ c \in Nat /\ Base \in Nat /\ Base <= c
        BY AddressFacts
    <2>4. CASE c = Base
        <3>1. 0 \in 0..HEAP_SIZE /\ Base + 12 * 0 <= c /\ c \in reach[0]
            BY <2>3, <2>4, <1>3, <1>6
        <3> QED BY <3>1, <2>2
    <2>5. CASE c # Base
        <3>1. PICK b \in C : mem[b + 4] = c
            BY <2>3, <2>5 DEF Listed
        <3>2. c # NULL
            BY <2>3, AddressFacts DEF NULL
        <3> HIDE DEF T
        <3>3. b \in Nat /\ Bytes(b) \in Nat /\ b + Desc + Bytes(b) = c /\ b + 12 <= c
            <4>1. b + Desc + Bytes(b) = c
                BY <3>1, <3>2 DEF Listed
            <4>2. b \in Nat /\ Bytes(b) \in Nat
                BY BlockFacts
            <4> QED BY <4>1, <4>2 DEF Desc
        <3> USE DEF T
        <3>4. Reached(b)
            BY <2>2, <3>3, <2>3
        <3>5. PICK k \in 0..HEAP_SIZE : Base + 12 * k <= b /\ b \in reach[k]
            BY <3>4
        <3>6. c + 12 <= Base + 12 + HEAP_SIZE
            BY <2>3, BlockFacts DEF Desc, End
        <3>7. k \in 0..(HEAP_SIZE - 1) /\ Base + 12 * (k + 1) <= c /\ k + 1 \in 0..HEAP_SIZE
            BY <3>3, <3>5, <3>6, <2>3, <1>3
        <3>8. c \in reach[k + 1]
            BY <3>1, <3>2, <3>5, <3>7, <1>6 DEF Further
        <3> QED BY <3>7, <3>8, <2>2
    <2> QED BY <2>4, <2>5
<1>10. HEAP_SIZE \div Desc \in 0..HEAP_SIZE
    BY <1>3 DEF Desc
<1>11. ASSUME NEW c \in C PROVE c \in reach[HEAP_SIZE \div Desc]
    <2>1. PICK k \in 0..HEAP_SIZE : Base + 12 * k <= c /\ c \in reach[k]
        BY <1>9
    <2>2. c \in Nat /\ Base \in Nat /\ c + 12 <= Base + 12 + HEAP_SIZE
        <3>1. c \in Nat /\ c + Desc <= End
            BY BlockFacts
        <3> QED BY <3>1, AddressFacts DEF Desc, End
    <2>3. k <= HEAP_SIZE \div Desc
        BY <2>1, <2>2, <1>3, AddressFacts DEF Desc
    <2> QED BY <2>1, <2>3, <1>8, <1>10
<1>12. reach[HEAP_SIZE \div Desc] \in SUBSET C
    BY <1>7, <1>10
<1> QED BY <1>5, <1>11, <1>12
----------------------------------------------------------------------------
LEMMA Apart ==
    ASSUME MallocTypeOK, NEW C \in SUBSET Addresses, Listed(C), NEW b \in C, NEW c \in C
    PROVE  /\ b # c => b + Desc + Bytes(b) <= c \/ c + Desc + Bytes(c) <= b
           /\ b # c + 4
<1>1. /\ b \in Nat /\ Bytes(b) \in Nat /\ c \in Nat /\ Bytes(c) \in Nat
    BY BlockFacts
<1>2. /\ b < c => b + Desc + Bytes(b) <= c
      /\ c < b => c + Desc + Bytes(c) <= b
    BY DEF Listed
<1> QED BY <1>1, <1>2 DEF Desc

\* Setting or clearing a used bit leaves the list as it is.
LEMMA Remarked ==
    ASSUME MallocTypeOK, NEW C \in SUBSET Addresses, Listed(C), NEW b \in C,
           NEW v \in 0..(Word - 1), v % 4 \in {0, 1}, v - (v % 2) = Bytes(b),
           mem' = [mem EXCEPT ![b] = v]
    PROVE  /\ Listed(C)'
           /\ mem' \in [Addresses -> 0..(Word - 1)]
           /\ \A c \in C : Bytes(c)' = Bytes(c) /\ (c # b => mem'[c] = mem[c])
           /\ mem'[b] = v
<1>1. mem \in [Addresses -> 0..(Word - 1)] /\ \A c \in C : c \in Addresses /\ c + 4 \in Addresses /\ b # c + 4
    BY Apart, BlockFacts DEF MallocTypeOK
<1>2. mem' \in [Addresses -> 0..(Word - 1)]
    BY <1>1
<1>3. \A c \in C : /\ mem'[c + 4] = mem[c + 4] /\ (c # b => mem'[c] = mem[c])
                   /\ mem'[c] % 4 \in {0, 1}
    BY <1>1 DEF Listed
<1>4. \A c \in C : Bytes(c)' = Bytes(c)
    BY <1>1, <1>3 DEF Bytes, size
<1>5. Listed(C)'
    BY <1>3, <1>4 DEF Listed, End
<1> QED BY <1>1, <1>2, <1>3, <1>4, <1>5

\* Requests are rounded up to words, without overflow.
LEMMA Rounded ==
    ASSUME NEW n \in Requests, n > 4
    PROVE  /\ RoundUp(n) \in 0..(Word - 1) /\ RoundUp(n) % 4 = 0
           /\ RoundUp(n) >= 8 /\ n <= RoundUp(n)
<1>1. n \in Nat /\ n <= Word - 4 /\ Word \in Nat /\ Word % 4 = 0
    BY AddressFacts
<1> DEFINE m == n + (IF n % 4 = 0 THEN 0 ELSE 4 - (n % 4))
<1>2. m \in 0..(Word - 1) /\ m % 4 = 0 /\ m >= 8 /\ n <= m
    BY <1>1
<1>3. \A k \in 0..(Word - 1) : k % Word = k
    BY <1>1
<1>4. RoundUp(n) = m
    BY <1>2, <1>3 DEF RoundUp
<1> QED BY <1>2, <1>4

----------------------------------------------------------------------------
LEMMA MallocStart == MallocInit => MallocInv
<1> SUFFICES ASSUME MallocInit PROVE MallocInv
    OBVIOUS
<1>1. /\ Base \in Addresses /\ Base + 4 \in Addresses /\ Base # Base + 4
      /\ HEAP_SIZE \in 0..(Word - 1) /\ 0 \in 0..(Word - 1) /\ 0 % 4 = 0
      /\ HEAP_SIZE % 4 = 0 /\ HEAP_SIZE % 2 = 0 /\ Base \in Nat
    BY AddressFacts
<1>2. MallocTypeOK
    BY <1>1 DEF MallocInit, MallocTypeOK, NULL
<1>3. mem[Base] = HEAP_SIZE /\ mem[Base + 4] = 0
    BY <1>1 DEF MallocInit
<1>4. Bytes(Base) = HEAP_SIZE /\ Free(Base)
    BY <1>1, <1>3 DEF Bytes, Free, size
<1>5. Listed({Base})
    BY <1>1, <1>3, <1>4 DEF Listed, NULL, Desc, End
<1>6. Held({Base}) /\ Searched({Base})
    BY <1>4 DEF Held, Searched, MallocInit
<1> QED BY <1>1, <1>2, <1>5, <1>6 DEF MallocInv

LEMMA CallStep ==
    ASSUME MallocInv, NEW n \in Requests, n > 4, Call(n)
    PROVE  MallocInv'
<1>1. PICK C \in SUBSET Addresses : Listed(C) /\ Held(C) /\ Searched(C)
    BY DEF MallocInv
<1>2. MallocTypeOK /\ mem' = mem /\ given' = given /\ pc' = "search" /\ block' = Base
      /\ asked' = n /\ want' = RoundUp(n)
    BY DEF Call, SearchFrom, MallocInv
<1>3. MallocTypeOK'
    BY <1>2, Rounded, AddressFacts DEF MallocTypeOK
<1>4. Listed(C)' /\ Held(C)'
    BY <1>1, <1>2 DEF Listed, Held, Bytes, Free, size, End
<1>5. Searched(C)'
    <2>1. \A b \in C : ~ (b < Base)
        BY AddressFacts
    <2> QED BY <1>1, <1>2, <2>1, Rounded DEF Searched, Listed
<1> QED BY <1>3, <1>4, <1>5 DEF MallocInv

LEMMA SkipStep ==
    ASSUME MallocInv, Skip
    PROVE  MallocInv'
<1>1. PICK C \in SUBSET Addresses : Listed(C) /\ Held(C) /\ Searched(C)
    BY DEF MallocInv
<1>2. /\ MallocTypeOK /\ mem' = mem /\ given' = given /\ want' = want /\ asked' = asked
      /\ pc = "search" /\ block \in C /\ ~Fits(block)
      /\ \A b \in C : b < block => ~Fits(b)
    BY <1>1 DEF Skip, MallocInv, Searched
<1>3. /\ block \in Nat /\ Bytes(block) \in Nat /\ mem[block + 4] \in C \cup {NULL}
      /\ block + Desc + Bytes(block) = IF mem[block + 4] = NULL THEN End ELSE mem[block + 4]
    BY <1>1, <1>2, BlockFacts DEF Listed
<1>4. Listed(C)' /\ Held(C)'
    BY <1>1, <1>2 DEF Listed, Held, Bytes, Free, size, End
<1>5. \A b \in C : /\ b \in Nat /\ b + Desc <= End
                   /\ block < b => block + Desc + Bytes(block) <= b
    BY <1>1, <1>2, BlockFacts DEF Listed
<1>6. CASE mem[block + 4] = NULL
    <2>1. pc' = "hang" /\ block' = block
        BY <1>6 DEF Skip, fd
    <2>2. \A b \in C : b < block \/ b = block
        BY <1>3, <1>5, <1>6, AddressFacts DEF Desc, End
    <2>3. \A b \in C : ~Fits(b)'
        BY <1>2, <2>2 DEF Fits, Free, size
    <2>4. Searched(C)'
        BY <2>1, <2>3 DEF Searched
    <2>5. MallocTypeOK'
        BY <1>2, <2>1 DEF MallocTypeOK
    <2> QED BY <1>4, <2>4, <2>5 DEF MallocInv
<1>7. CASE mem[block + 4] # NULL
    <2>1. pc' = pc /\ block' = mem[block + 4] /\ mem[block + 4] \in C
        BY <1>3, <1>7 DEF Skip, fd
    <2>2. \A b \in C : b < block' => b < block \/ b = block
        BY <1>3, <1>5, <1>7, <2>1
    <2>3. \A b \in C : b < block' => ~Fits(b)'
        BY <1>2, <2>2 DEF Fits, Free, size
    <2>4. Searched(C)'
        BY <1>1, <1>2, <2>1, <2>3 DEF Searched
    <2>5. block + 4 \in Addresses
        BY <1>1, <1>2, BlockFacts
    <2>6. MallocTypeOK'
        BY <1>2, <2>1, <2>5 DEF MallocTypeOK
    <2> QED BY <1>4, <2>4, <2>6 DEF MallocInv
<1> QED BY <1>6, <1>7

LEMMA FreeStep ==
    ASSUME MallocInv, NEW g \in given, FreeBlock(g)
    PROVE  MallocInv'
<1>1. PICK C \in SUBSET Addresses : Listed(C) /\ Held(C) /\ Searched(C)
    BY DEF MallocInv
<1>2. /\ MallocTypeOK /\ pc = "idle" /\ given' = given \ {g}
      /\ pc' = pc /\ block' = block /\ want' = want /\ asked' = asked
    BY DEF FreeBlock, MallocInv
<1>3. PICK b \in C : b = g[1] - Desc /\ ~Free(b)
    BY <1>1 DEF Held
<1>4. /\ Bytes(b) \in Nat /\ Bytes(b) % 4 = 0 /\ mem[b] = Bytes(b) + 1 /\ b \in Addresses /\ b \in Nat
    BY <1>1, <1>2, <1>3, BlockFacts
<1>5. mem[b] \in 0..(Word - 1) /\ Word \in Nat /\ mem \in [Addresses -> 0..(Word - 1)]
    BY <1>2, <1>4, AddressFacts DEF MallocTypeOK
<1>6. mem' = [mem EXCEPT ![b] = Bytes(b)]
    <2>1. mem[b] - (mem[b] % 2) = Bytes(b)
        BY DEF Bytes, size
    <2> QED BY <1>3, <2>1 DEF FreeBlock
<1>7. Bytes(b) \in 0..(Word - 1) /\ Bytes(b) % 4 \in {0, 1} /\ Bytes(b) - (Bytes(b) % 2) = Bytes(b)
    BY <1>4, <1>5
<1>8. /\ Listed(C)'
      /\ mem' \in [Addresses -> 0..(Word - 1)]
      /\ \A c \in C : Bytes(c)' = Bytes(c) /\ (c # b => mem'[c] = mem[c])
      /\ mem'[b] = Bytes(b)
    BY <1>1, <1>2, <1>6, <1>7, Remarked
<1>9. Free(b)' /\ \A c \in C : c # b => (Free(c)' <=> Free(c))
    BY <1>4, <1>8 DEF Free, size
<1>10. MallocTypeOK'
    BY <1>2, <1>8 DEF MallocTypeOK
<1>11. \A h \in given : h[1] \in Nat /\ g[1] \in Nat
    BY <1>2, AddressFacts DEF MallocTypeOK
<1>12. \A h \in given' : h \in given /\ h[1] - Desc # b
    BY <1>1, <1>2, <1>3, <1>11 DEF Held, Desc
<1>13. Held(C)'
    <2>1. \A h \in given' : h[1] - Desc \in C /\ (~Free(h[1] - Desc))' /\ h[2] <= Bytes(h[1] - Desc)'
        BY <1>1, <1>8, <1>9, <1>12 DEF Held
    <2>2. ASSUME NEW c \in C, (~Free(c))' PROVE \E h \in given' : h[1] = c + Desc
        <3>1. c # b /\ ~Free(c)
            BY <2>2, <1>9
        <3>2. PICK h \in given : h[1] = c + Desc
            BY <1>1, <3>1 DEF Held
        <3>3. h # g
            BY <3>1, <3>2, <1>3, <1>11, <1>4, <1>1, <1>2, BlockFacts DEF Desc
        <3> QED BY <1>2, <3>2, <3>3
    <2> QED BY <1>1, <1>12, <2>1, <2>2 DEF Held
<1>14. Searched(C)'
    BY <1>2 DEF Searched
<1> QED BY <1>8, <1>10, <1>13, <1>14 DEF MallocInv

\* malloc() takes the whole block.
LEMMA TakeWhole ==
    ASSUME MallocInv, Take, ~(want < size(block) \div 2)
    PROVE  MallocInv'
<1>1. PICK C \in SUBSET Addresses : Listed(C) /\ Held(C) /\ Searched(C)
    BY DEF MallocInv
<1>2. /\ MallocTypeOK /\ block \in C /\ Fits(block) /\ asked \in Requests /\ asked <= want
      /\ given' = given \cup {<<block + Desc, asked>>}
      /\ pc' = "idle" /\ block' = NULL /\ want' = 0 /\ asked' = 0
      /\ mem' = [mem EXCEPT ![block] = mem[block] + 1]
    BY <1>1 DEF Take, MallocInv, Searched, Marked
<1>3. PICK b \in C : b = block
    BY <1>2
<1>4. /\ Bytes(b) \in Nat /\ Bytes(b) % 4 = 0 /\ mem[b] = Bytes(b) /\ b \in Addresses
      /\ b \in Nat /\ b % 4 = 0 /\ Base <= b /\ b + Desc + Bytes(b) <= End /\ Free(b)
      /\ want <= Bytes(b) /\ want \in Nat /\ asked \in Nat
    BY <1>1, <1>2, <1>3, BlockFacts, AddressFacts DEF Fits, size, MallocTypeOK
<1>5. mem[b] \in 0..(Word - 1) /\ Word \in Nat /\ Word % 4 = 0
    BY <1>2, <1>4, AddressFacts DEF MallocTypeOK
<1> DEFINE v == Bytes(b) + 1
<1>6. v \in 0..(Word - 1) /\ v % 4 \in {0, 1} /\ v - (v % 2) = Bytes(b) /\ v % 2 = 1
    BY <1>4, <1>5
<1>7. mem' = [mem EXCEPT ![b] = v]
    BY <1>2, <1>3, <1>4
<1>8. /\ Listed(C)'
      /\ mem' \in [Addresses -> 0..(Word - 1)]
      /\ \A c \in C : Bytes(c)' = Bytes(c) /\ (c # b => mem'[c] = mem[c])
      /\ mem'[b] = v
    <2> HIDE DEF v
    <2> QED BY <1>1, <1>2, <1>6, <1>7, Remarked
<1>9. (~Free(b))' /\ \A c \in C : c # b => (Free(c)' <=> Free(c))
    BY <1>6, <1>8 DEF Free, size
<1>10. want >= 8
    BY <1>1 DEF Searched, Take
<1>11. b + Desc \in Addresses
    BY <1>4, <1>10, AddressFacts DEF Desc, End
<1>12. MallocTypeOK'
    <2>1. given' \in SUBSET (Addresses \X Requests)
        BY <1>2, <1>3, <1>11 DEF MallocTypeOK
    <2>2. 0 \in 0..(Word - 1) /\ 0 % 4 = 0
        BY AddressFacts
    <2> QED BY <1>2, <1>8, <2>1, <2>2 DEF MallocTypeOK, NULL
<1>13. \A g \in given : g[1] - Desc \in C /\ g[1] - Desc # b /\ g[1] # b + Desc
    BY <1>1, <1>2, <1>4, AddressFacts DEF Held, MallocTypeOK, Desc
<1>14. Held(C)'
    <2>1. ASSUME NEW h \in given' PROVE h[1] - Desc \in C /\ (~Free(h[1] - Desc))' /\ h[2] <= Bytes(h[1] - Desc)'
        <3>1. CASE h \in given
            BY <3>1, <1>1, <1>8, <1>9, <1>13 DEF Held
        <3>2. CASE h = <<b + Desc, asked>>
            <4>1. h[1] - Desc = b /\ h[2] = asked /\ asked <= Bytes(b)
                BY <3>2, <1>2, <1>4 DEF Desc
            <4> QED BY <4>1, <1>8, <1>9
        <3> QED BY <3>1, <3>2, <1>2, <1>3
    <2>2. \A g, h \in given' : g[1] = h[1] => g = h
        BY <1>1, <1>2, <1>3, <1>13 DEF Held
    <2>3. ASSUME NEW c \in C, (~Free(c))' PROVE \E h \in given' : h[1] = c + Desc
        <3>1. CASE c = b
            <4>1. <<b + Desc, asked>> \in given' /\ <<b + Desc, asked>>[1] = c + Desc
                BY <3>1, <1>2, <1>3
            <4> QED BY <4>1
        <3>2. CASE c # b
            <4>1. ~Free(c)
                BY <2>3, <3>2, <1>9
            <4>2. PICK h \in given : h[1] = c + Desc
                BY <4>1, <1>1 DEF Held
            <4> QED BY <4>2, <1>2
        <3> QED BY <3>1, <3>2
    <2> QED BY <2>1, <2>2, <2>3 DEF Held
<1>15. Searched(C)'
    BY <1>2 DEF Searched
<1> QED BY <1>8, <1>12, <1>14, <1>15 DEF MallocInv

\* The stores of a split, which do not overlap.
LEMMA SplitStores ==
    ASSUME mem \in [Addresses -> 0..(Word - 1)], NEW b \in Addresses, NEW s \in Addresses,
           b + 4 \in Addresses, s + 4 \in Addresses, s + 8 \in Addresses,
           b + 8 < s, s < Word, want \in 0..(Word - 1), want % 4 = 0,
           NEW n \in 0..(Word - 1), SplitSize(b) = n,
           mem' = Linked(b, s)
    PROVE  /\ mem' \in [Addresses -> 0..(Word - 1)]
           /\ mem'[b] = want + 1 /\ mem'[b + 4] = s
           /\ mem'[s] = n /\ mem'[s + 4] = mem[b + 4]
           /\ \A a \in Addresses : a \notin {b, b + 4, s, s + 4, s + 8} => mem'[a] = mem[a]
<1> DEFINE sized == [mem EXCEPT ![s] = n]
           cut == [sized EXCEPT ![b] = want]
           back == [cut EXCEPT ![s + 8] = b]
           forth == [back EXCEPT ![s + 4] = back[b + 4]]
           linked == [forth EXCEPT ![b + 4] = s]
           v == linked[b] + 1 - (linked[b] % 2)
<1>1. mem' = [linked EXCEPT ![b] = v]
    BY DEF Linked
<1>2. /\ b \in Nat /\ s \in Nat /\ Word \in Nat /\ Word % 4 = 0 /\ b < Word
      /\ b # b + 4 /\ b # s /\ b # s + 4 /\ b # s + 8
      /\ b + 4 # s /\ b + 4 # s + 4 /\ b + 4 # s + 8
      /\ s # s + 4 /\ s # s + 8 /\ s + 4 # s + 8
    BY AddressFacts
<1>3. sized \in [Addresses -> 0..(Word - 1)] /\ cut \in [Addresses -> 0..(Word - 1)]
    OBVIOUS
<1>4. back \in [Addresses -> 0..(Word - 1)] /\ back[b + 4] = mem[b + 4]
    BY <1>2
<1>5. forth \in [Addresses -> 0..(Word - 1)]
    BY <1>4
<1>6. linked \in [Addresses -> 0..(Word - 1)] /\ linked[b] = want
    BY <1>2, <1>5
<1>7. v = want + 1 /\ v \in 0..(Word - 1)
    BY <1>2, <1>6
<1>8. mem' \in [Addresses -> 0..(Word - 1)] /\ mem'[b] = want + 1
    <2> HIDE DEF linked, v
    <2> QED BY <1>1, <1>6, <1>7
<1>9. mem'[b + 4] = s /\ mem'[s] = n /\ mem'[s + 4] = mem[b + 4]
    BY <1>1, <1>2, <1>4
<1>10. \A a \in Addresses : a \notin {b, b + 4, s, s + 4, s + 8} => mem'[a] = mem[a]
    BY <1>1
<1> QED BY <1>8, <1>9, <1>10

\* malloc() takes the first part of the block and makes a block of the rest.
LEMMA TakeSplit ==
    ASSUME MallocInv, Take, want < size(block) \div 2
    PROVE  MallocInv'
<1>1. PICK C \in SUBSET Addresses : Listed(C) /\ Held(C) /\ Searched(C)
    BY DEF MallocInv
<1>2. /\ MallocTypeOK /\ block \in C /\ Fits(block) /\ asked \in Requests /\ asked <= want
      /\ given' = given \cup {<<block + Desc, asked>>} /\ want >= 8
      /\ pc' = "idle" /\ block' = NULL /\ want' = 0 /\ asked' = 0
      /\ mem' = Linked(block, block + Desc + want)
    BY <1>1 DEF Take, MallocInv, Searched
<1>3. PICK b \in C : b = block
    BY <1>2
<1>4. /\ Bytes(b) \in Nat /\ Bytes(b) % 4 = 0 /\ mem[b] = Bytes(b)
      /\ b \in Addresses /\ b + 4 \in Addresses
      /\ b \in Nat /\ b % 4 = 0 /\ Base <= b /\ b + Desc + Bytes(b) <= End /\ Free(b)
      /\ mem[b + 4] \in Nat /\ Base \in Nat /\ HEAP_SIZE \in Nat
    BY <1>1, <1>2, <1>3, BlockFacts, AddressFacts DEF Fits
<1>5. /\ mem \in [Addresses -> 0..(Word - 1)] /\ mem[b] \in 0..(Word - 1)
      /\ Word \in Nat /\ Word % 4 = 0 /\ want \in Nat /\ want % 4 = 0
      /\ want \in 0..(Word - 1) /\ asked \in Nat
    BY <1>2, <1>4, AddressFacts DEF MallocTypeOK
<1>6. want < Bytes(b) \div 2
    BY <1>3, <1>4 DEF size
<1> PICK B : B = Bytes(b)
    OBVIOUS
<1> PICK s : s = b + Desc + want
    OBVIOUS
<1> PICK n : n = B - want - Desc
    OBVIOUS
<1>7. n \in Nat /\ n % 4 = 0 /\ n \in 0..(Word - 1) /\ n % Word = n
    <2>1. n \in Nat /\ n % 4 = 0 /\ n \in 0..(Word - 1)
        BY <1>2, <1>4, <1>5, <1>6 DEF Desc
    <2>2. \A k \in 0..(Word - 1) : k % Word = k
        BY <1>5
    <2> QED BY <2>1, <2>2
<1>8. SplitSize(b) = n
    BY <1>4, <1>7 DEF SplitSize, size
<1>9. /\ s \in Nat /\ s % 4 = 0 /\ b + Desc + want = s
      /\ s + Desc + n = b + Desc + B /\ s + Desc <= b + Desc + B /\ b + 8 < s /\ b + 20 <= s
    BY <1>4, <1>5, <1>7, <1>2 DEF Desc
<1>10. /\ s \in Addresses /\ s + 4 \in Addresses /\ s + 8 \in Addresses /\ s < Word
       /\ b + Desc \in Addresses
    <2>1. s + Desc <= End
        BY <1>4, <1>9 DEF End, Desc
    <2> QED BY <2>1, <1>4, <1>9, AddressFacts DEF End, Desc
<1>11. B \in Nat /\ B = Bytes(b)
    BY <1>4
<1>12. /\ mem' \in [Addresses -> 0..(Word - 1)]
       /\ mem'[b] = want + 1 /\ mem'[b + 4] = s
       /\ mem'[s] = n /\ mem'[s + 4] = mem[b + 4]
       /\ \A a \in Addresses : a \notin {b, b + 4, s, s + 4, s + 8} => mem'[a] = mem[a]
    <2>1. mem' = Linked(b, s)
        BY <1>2, <1>3
    <2> QED BY <2>1, <1>4, <1>5, <1>7, <1>8, <1>9, <1>10, SplitStores
\* The other blocks keep their descriptors.
<1>13. ASSUME NEW c \in C, c # b
       PROVE  /\ mem'[c] = mem[c] /\ mem'[c + 4] = mem[c + 4]
              /\ c \in Nat /\ Bytes(c) \in Nat
              /\ c + Desc + Bytes(c) <= b \/ (s + Desc <= c /\ b + Desc + B <= c)
    <2>1. c \in Nat /\ Bytes(c) \in Nat /\ c \in Addresses /\ c + 4 \in Addresses
        BY <1>1, <1>2, BlockFacts
    <2>2. b + Desc + B <= c \/ c + Desc + Bytes(c) <= b
        BY <1>1, <1>2, <1>11, <1>13, Apart
    <2>3. s + Desc <= c \/ c + Desc + Bytes(c) <= b
        BY <1>4, <1>9, <1>11, <2>1, <2>2 DEF Desc
    <2>4. c \notin {b, b + 4, s, s + 4, s + 8} /\ c + 4 \notin {b, b + 4, s, s + 4, s + 8}
        BY <1>4, <1>9, <2>1, <2>3 DEF Desc
    <2> QED BY <1>4, <1>9, <1>11, <1>12, <2>1, <2>2, <2>3, <2>4 DEF Desc
<1>14. s \notin C /\ s # b /\ s # NULL /\ s > b
    <2>1. s # b /\ s > b /\ s # NULL
        BY <1>4, <1>9, AddressFacts DEF NULL
    <2>2. ASSUME s \in C PROVE FALSE
        BY <2>1, <2>2, <1>13, <1>4, <1>9 DEF Desc
    <2> QED BY <2>1, <2>2
<1> PICK D : D = C \cup {s}
    OBVIOUS
<1>15. D \in SUBSET Addresses
    BY <1>10
<1>16. Bytes(b)' = want /\ Bytes(s)' = n /\ \A c \in C : c # b => Bytes(c)' = Bytes(c)
    <2>1. (want + 1) - ((want + 1) % 2) = want /\ n - (n % 2) = n
        BY <1>5, <1>7
    <2>2. \A c \in C : c # b => mem'[c] = mem[c]
        BY <1>13
    <2> QED BY <2>1, <2>2, <1>12 DEF Bytes, size
<1>17. (~Free(b))' /\ Free(s)' /\ \A c \in C : c # b => (Free(c)' <=> Free(c))
    <2>1. (want + 1) % 2 = 1 /\ n % 2 = 0
        BY <1>5, <1>7
    <2>2. \A c \in C : c # b => mem'[c] = mem[c]
        BY <1>13
    <2> QED BY <2>1, <2>2, <1>12 DEF Free, size
<1>18. Listed(D)'
    <2>1. /\ \A c \in C : /\ mem[c] % 4 \in {0, 1} /\ mem[c + 4] \in C \cup {NULL}
                          /\ c + Desc + Bytes(c) = IF mem[c + 4] = NULL THEN End ELSE mem[c + 4]
                          /\ c + Desc + Bytes(c) <= End
          /\ Base \in C
          /\ \A c \in C \ {Base} : \E p \in C : mem[p + 4] = c
          /\ \A c, d \in C : c < d => c + Desc + Bytes(c) <= d
        BY <1>1 DEF Listed
    <2>2. ASSUME NEW c \in D
          PROVE  /\ mem'[c] % 4 \in {0, 1} /\ mem'[c + 4] \in D \cup {NULL}
                 /\ c + Desc + Bytes(c)' = IF mem'[c + 4] = NULL THEN End ELSE mem'[c + 4]
                 /\ c + Desc + Bytes(c)' <= End
        <3>1. CASE c = b
            <4>1. mem'[c] % 4 = 1
                BY <3>1, <1>12, <1>5
            <4>2. s <= End
                BY <1>9, <2>1, <1>11, <1>4 DEF Desc, End
            <4> QED BY <3>1, <4>1, <4>2, <1>12, <1>16, <1>9, <1>14
        <3>2. CASE c = s
            <4>1. mem'[c] % 4 = 0
                BY <3>2, <1>12, <1>7
            <4>2. c + Desc + Bytes(c)' = b + Desc + B
                BY <3>2, <1>9, <1>16
            <4> QED BY <3>2, <4>1, <4>2, <1>11, <1>12, <2>1
        <3>3. CASE c \in C /\ c # b
            BY <3>3, <1>13, <1>16, <2>1
        <3> QED BY <3>1, <3>2, <3>3
    <2>3. ASSUME NEW c \in D \ {Base} PROVE \E p \in D : mem'[p + 4] = c
        <3>1. CASE c = s
            BY <3>1, <1>12
        <3>2. CASE c \in C
            <4>1. PICK p \in C : mem[p + 4] = c
                BY <3>2, <2>1
            <4>2. CASE p = b
                BY <4>1, <4>2, <1>12
            <4>3. CASE p # b
                BY <4>1, <4>3, <1>13
            <4> QED BY <4>2, <4>3
        <3> QED BY <3>1, <3>2
    <2>4. ASSUME NEW c \in D, NEW d \in D, c < d PROVE c + Desc + Bytes(c)' <= d
        <3>1. CASE c = b
            <4>1. d = s \/ (d \in C /\ d # b)
                BY <2>4, <3>1, <1>4
            <4>2. CASE d = s
                BY <3>1, <4>2, <1>9, <1>16
            <4>3. CASE d \in C /\ d # b
                <5>1. d \in Nat /\ Bytes(d) \in Nat /\ (d + Desc + Bytes(d) <= b \/ s + Desc <= d)
                    BY <4>3, <1>13
                <5>2. s + Desc <= d
                    BY <2>4, <3>1, <5>1, <1>4 DEF Desc
                <5>3. c + Desc + Bytes(c)' = s
                    BY <3>1, <1>9, <1>16
                <5> QED BY <5>1, <5>2, <5>3, <1>9 DEF Desc
            <4> QED BY <4>1, <4>2, <4>3
        <3>2. CASE c = s
            <4>1. d \in C /\ d # b
                BY <2>4, <3>2, <1>14, <1>9, <1>4
            <4>2. d \in Nat /\ (d + Desc + Bytes(d) <= b \/ b + Desc + B <= d) /\ Bytes(d) \in Nat
                BY <4>1, <1>13
            <4>3. b + Desc + B <= d
                BY <2>4, <3>2, <4>2, <1>4, <1>14, <1>9 DEF Desc
            <4> QED BY <3>2, <4>3, <1>9, <1>16
        <3>3. CASE c \in C /\ c # b
            <4>1. CASE d = s
                <5>1. /\ c \in Nat /\ (c + Desc + Bytes(c) <= b \/ s + Desc <= c)
                      /\ Bytes(c) \in Nat /\ Bytes(c)' = Bytes(c)
                    BY <3>3, <1>13, <1>16
                <5>2. c + Desc + Bytes(c) <= b
                    BY <2>4, <4>1, <5>1, <1>9 DEF Desc
                <5> QED BY <4>1, <5>1, <5>2, <1>4, <1>9, <1>14 DEF Desc
            <4>2. CASE d \in C
                BY <2>4, <3>3, <4>2, <2>1, <1>16
            <4> QED BY <4>1, <4>2
        <3> QED BY <3>1, <3>2, <3>3
    <2>5. Base \in D
        BY <2>1
    <2> QED BY <2>2, <2>3, <2>4, <2>5 DEF Listed, End
<1>19. MallocTypeOK'
    <2>1. given' \in SUBSET (Addresses \X Requests)
        BY <1>2, <1>3, <1>10 DEF MallocTypeOK
    <2>2. 0 \in 0..(Word - 1) /\ 0 % 4 = 0
        BY AddressFacts
    <2> QED BY <1>2, <1>12, <2>1, <2>2 DEF MallocTypeOK, NULL
<1>20. \A g \in given : g[1] - Desc \in C /\ g[1] - Desc # b /\ g[1] # b + Desc
    BY <1>1, <1>2, <1>4, AddressFacts DEF Held, MallocTypeOK, Desc
<1>21. Held(D)'
    <2>1. ASSUME NEW h \in given' PROVE h[1] - Desc \in D /\ (~Free(h[1] - Desc))' /\ h[2] <= Bytes(h[1] - Desc)'
        <3>1. CASE h \in given
            BY <3>1, <1>1, <1>16, <1>17, <1>20 DEF Held
        <3>2. CASE h = <<b + Desc, asked>>
            <4>1. h[1] - Desc = b /\ h[2] = asked /\ asked <= want
                BY <3>2, <1>2, <1>4 DEF Desc
            <4> QED BY <4>1, <1>16, <1>17
        <3> QED BY <3>1, <3>2, <1>2, <1>3
    <2>2. \A g, h \in given' : g[1] = h[1] => g = h
        BY <1>1, <1>2, <1>3, <1>20 DEF Held
    <2>3. ASSUME NEW c \in D, (~Free(c))' PROVE \E h \in given' : h[1] = c + Desc
        <3>1. CASE c = b
            <4>1. <<b + Desc, asked>> \in given' /\ <<b + Desc, asked>>[1] = c + Desc
                BY <3>1, <1>2, <1>3
            <4> QED BY <4>1
        <3>2. CASE c # b
            <4>1. c \in C /\ ~Free(c)
                BY <2>3, <3>2, <1>17
            <4>2. PICK h \in given : h[1] = c + Desc
                BY <4>1, <1>1 DEF Held
            <4> QED BY <4>2, <1>2
        <3> QED BY <3>1, <3>2
    <2> QED BY <2>1, <2>2, <2>3 DEF Held
<1>22. Searched(D)'
    BY <1>2 DEF Searched
<1> QED BY <1>15, <1>18, <1>19, <1>21, <1>22 DEF MallocInv

----------------------------------------------------------------------------
(* The theorems on malloc() and free(), for requests of at least two words:  *)
(* a smaller one may split a block that has no room for a descriptor.        *)

\* The invariant of the list, what is held, and the search in progress.
THEOREM MallocInvariance ==
    ASSUME \A n \in Requests : n > 4
    PROVE  MallocSpec => []MallocInv
<1>1. ASSUME MallocInv, [MallocNext]_mallocVars PROVE MallocInv'
    <2>1. CASE \E n \in Requests : Call(n)
        BY <1>1, <2>1, CallStep
    <2>2. CASE Skip
        BY <1>1, <2>2, SkipStep
    <2>3. CASE Take
        BY <1>1, <2>3, TakeWhole, TakeSplit
    <2>4. CASE \E g \in given : FreeBlock(g)
        BY <1>1, <2>4, FreeStep
    <2>5. CASE UNCHANGED mallocVars
        BY <1>1, <2>5 DEF MallocInv, mallocVars, MallocTypeOK, Listed, Held, Searched,
            Fits, Free, Bytes, size, End
    <2> QED BY <1>1, <2>1, <2>2, <2>3, <2>4, <2>5 DEF MallocNext, Stuck
<1> QED BY <1>1, MallocStart, PTL DEF MallocSpec

\* The blocks tile the heap, whatever sequence of malloc() and free() split it.
THEOREM TilingTheorem ==
    ASSUME \A n \in Requests : n > 4
    PROVE  MallocSpec => []Tiling
<1>1. ASSUME MallocInv PROVE Tiling
    <2>1. PICK C \in SUBSET Addresses : Listed(C)
        BY <1>1 DEF MallocInv
    <2>2. Blocks = C
        BY <1>1, <2>1, Walk DEF MallocInv
    <2> QED BY <2>1, <2>2 DEF Tiling, Listed, fd
<1> QED BY <1>1, MallocInvariance, PTL

\* What the program holds overlaps nothing else it holds and no descriptor, and
\* a block is used exactly while it is held.
THEOREM HeldApartTheorem ==
    ASSUME \A n \in Requests : n > 4
    PROVE  MallocSpec => []HeldApart
<1>1. ASSUME MallocInv PROVE HeldApart
    <2>1. PICK C \in SUBSET Addresses : Listed(C) /\ Held(C)
        BY <1>1 DEF MallocInv
    <2>2. MallocTypeOK /\ Blocks = C
        BY <1>1, <2>1, Walk DEF MallocInv
    <2>3. ASSUME NEW g \in given
          PROVE  /\ g[1] - Desc \in C /\ g[1] \in Nat /\ g[2] \in Nat
                 /\ g[2] <= Bytes(g[1] - Desc) /\ Bytes(g[1] - Desc) \in Nat
        <3>1. g[1] - Desc \in C /\ g[2] <= Bytes(g[1] - Desc)
            BY <2>1 DEF Held
        <3>2. g[1] \in Nat /\ g[2] \in Nat
            BY <2>2, AddressFacts DEF MallocTypeOK
        <3> QED BY <2>1, <2>2, <3>1, <3>2, BlockFacts
    <2>4. ASSUME NEW g \in given, NEW b \in C, b # g[1] - Desc
          PROVE  g[1] + g[2] <= b \/ (b + Desc + Bytes(b) <= g[1] - Desc /\ b + Desc <= g[1])
        <3>1. PICK c \in C : c = g[1] - Desc
            BY <2>3
        <3>2. c + Desc + Bytes(c) <= b \/ b + Desc + Bytes(b) <= c
            BY <2>1, <2>2, <2>4, <3>1, Apart
        <3>3. b \in Nat /\ Bytes(b) \in Nat
            BY <2>1, <2>2, BlockFacts
        <3> QED BY <2>3, <3>1, <3>2, <3>3 DEF Desc
    <2>5. ASSUME NEW g \in given, NEW h \in given \ {g}
          PROVE  g[1] + g[2] <= h[1] \/ h[1] + h[2] <= g[1]
        <3>1. g[1] # h[1]
            BY <2>1 DEF Held
        <3>2. PICK b \in C : b = h[1] - Desc
            BY <2>3
        <3>3. h[2] <= Bytes(b) /\ h[1] \in Nat /\ h[2] \in Nat /\ Bytes(b) \in Nat /\ b + Desc = h[1] /\ b \in Int
            BY <2>3, <3>2 DEF Desc
        <3>4. b # g[1] - Desc /\ g[1] \in Nat /\ g[2] \in Nat
            BY <2>3, <3>1, <3>3 DEF Desc
        <3>5. g[1] + g[2] <= b \/ b + Desc + Bytes(b) <= g[1] - Desc
            BY <2>4, <3>4
        <3> QED BY <3>3, <3>4, <3>5 DEF Desc
    <2>6. ASSUME NEW g \in given, NEW b \in C PROVE g[1] + g[2] <= b \/ b + Desc <= g[1]
        <3>1. CASE b = g[1] - Desc
            BY <2>3, <3>1 DEF Desc
        <3>2. CASE b # g[1] - Desc
            BY <2>4, <3>2
        <3> QED BY <3>1, <3>2
    <2>7. {b + Desc : b \in {c \in C : ~Free(c)}} = {g[1] : g \in given}
        <3>1. ASSUME NEW c \in C, ~Free(c) PROVE c + Desc \in {g[1] : g \in given}
            BY <2>1, <3>1 DEF Held
        <3>2. ASSUME NEW g \in given PROVE \E c \in C : ~Free(c) /\ g[1] = c + Desc
            <4>1. g[1] - Desc \in C /\ ~Free(g[1] - Desc)
                BY <2>1 DEF Held
            <4>2. g[1] = (g[1] - Desc) + Desc
                BY <2>3 DEF Desc
            <4> QED BY <4>1, <4>2
        <3> QED BY <3>1, <3>2
    <2> QED BY <2>2, <2>5, <2>6, <2>7 DEF HeldApart
<1> QED BY <1>1, MallocInvariance, PTL

\* malloc() spins for ever only when no free block is as large as the request.
THEOREM SpinsOnlyFullTheorem ==
    ASSUME \A n \in Requests : n > 4
    PROVE  MallocSpec => []SpinsOnlyFull
<1>1. ASSUME MallocInv PROVE SpinsOnlyFull
    <2>1. PICK C \in SUBSET Addresses : Listed(C) /\ Searched(C)
        BY <1>1 DEF MallocInv
    <2>2. MallocTypeOK /\ Blocks = C
        BY <1>1, <2>1, Walk DEF MallocInv
    <2>3. ASSUME pc = "hang", NEW b \in C, Free(b) PROVE Bytes(b) < want
        <3>1. ~ (mem[b] >= want)
            BY <2>1, <2>3 DEF Searched, Fits, size
        <3>2. mem[b] = Bytes(b) /\ Bytes(b) \in Nat
            BY <2>1, <2>2, <2>3, BlockFacts
        <3>3. want \in Int
            BY <2>2, AddressFacts DEF MallocTypeOK
        <3> QED BY <3>1, <3>2, <3>3
    <2> QED BY <2>2, <2>3 DEF SpinsOnlyFull
<1> QED BY <1>1, MallocInvariance, PTL
=============================================================================
