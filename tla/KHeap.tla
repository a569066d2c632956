------------------------------- MODULE KHeap -------------------------------
(***************************************************************************)
(* The kernel heap of kernel/vmm.c: one page per slot between HEAP_BASE and*)
(* HEAP_LIMIT, a "used" bit in each page table entry, frames from pmalloc()*)
(* that stay in their slot when it is freed, slots remapped to device      *)
(* memory, slots whose frame is handed to a user address space, and the    *)
(* TLB, which kfree() and the copy-on-write path flush but mmiomalloc()    *)
(* does not.                                                               *)
(***************************************************************************)
EXTENDS PhysMem

CONSTANTS
    NSlots,     \* pages of the heap (1024)
    Mmio,       \* device frames (the bitmap covers all 4 GiB, hence these too)
    NoFrame     \* an entry that is not present

ASSUME HeapAssumption == /\ NSlots \in Nat
                         /\ Mmio \subseteq Frames \ Reserved
                         /\ NoFrame \notin Frames

VARIABLES
    pf_bitmap,  \* pmm.c
    entry,      \* entry[s]: frame of slot s, NoFrame when not present
    used,       \* slots whose entry has bit 0x800
    device,     \* slots mapped by mmiomalloc()
    tlb,        \* tlb[s]: translation of s the processor has cached
    user,       \* frames that belong to user address spaces
    lost,       \* frames that did and that nobody points to any more
    panicked    \* kpanic() was called

vars == <<pf_bitmap, entry, used, device, tlb, user, lost, panicked>>

Slots == 0..(NSlots - 1)

TypeOK ==
    /\ pf_bitmap \in [Words -> SUBSET Bits]
    /\ entry \in [Slots -> Frames \cup {NoFrame}]
    /\ used \in SUBSET Slots
    /\ device \in SUBSET used
    /\ tlb \in [Slots -> Frames \cup {NoFrame}]
    /\ user \in SUBSET Frames
    /\ lost \in SUBSET Frames
    /\ panicked \in BOOLEAN

\* init_vmm() leaves the heap's page table as the boot loader made it: empty.
Init ==
    /\ pf_bitmap = init_pf_bitmap
    /\ entry = [s \in Slots |-> NoFrame]
    /\ used = {}
    /\ device = {}
    /\ tlb = [s \in Slots |-> NoFrame]
    /\ user = {}
    /\ lost = {}
    /\ panicked = FALSE

\* The search loop of kmalloc(): the lowest slot with the used bit clear.
FirstUnused(s) == s \notin used /\ \A t \in Slots : t < s => t \in used

kpanic ==
    /\ panicked' = TRUE
    /\ UNCHANGED <<pf_bitmap, entry, used, device, tlb, user, lost>>

\* kmalloc() on a slot that is still present: only the used bit is set.
KmallocPresent(s) ==
    /\ ~panicked
    /\ FirstUnused(s)
    /\ entry[s] # NoFrame
    /\ used' = used \cup {s}
    /\ UNCHANGED <<pf_bitmap, entry, device, tlb, user, lost, panicked>>

\* kmalloc() on an empty slot: a frame from pmalloc().
KmallocFresh(s, f) ==
    /\ ~panicked
    /\ FirstUnused(s)
    /\ entry[s] = NoFrame
    /\ pmalloc(pf_bitmap, f)
    /\ pf_bitmap' = puse(pf_bitmap, f)
    /\ entry' = [entry EXCEPT ![s] = f]
    /\ used' = used \cup {s}
    /\ UNCHANGED <<device, tlb, user, lost, panicked>>

\* kmalloc() with every slot used, or with an empty slot and no frame left.
KmallocPanics ==
    /\ ~panicked
    /\ \/ used = Slots
       \/ OutOfFrames(pf_bitmap) /\ \E s \in Slots : FirstUnused(s) /\ entry[s] = NoFrame
    /\ kpanic

Flush_None(s) == tlb

\* invlpg on the page of slot s.
Flush(s) == [tlb EXCEPT ![s] = NoFrame]

\* kfree() of an ordinary page (no caller frees a device page): the used bit
\* goes, the frame stays.
Kfree(s) ==
    /\ ~panicked
    /\ s \in used \ device
    /\ used' = used \ {s}
    /\ tlb' = Flush(s)
    /\ UNCHANGED <<pf_bitmap, entry, device, user, lost, panicked>>

MmioFree_Keeps(bm, f) == bm

\* mmiomalloc() frees the frame kmalloc() had put, or left, in the slot.
MmioFree(bm, f) == pfree(bm, f)

\* mmiomalloc(d): a page from kmalloc(), its frame given back, its entry
\* pointed at the device, without an invlpg.
MmioMalloc(s, d) ==
    /\ ~panicked
    /\ FirstUnused(s)
    /\ \/ entry[s] # NoFrame /\ pf_bitmap' = MmioFree(pf_bitmap, entry[s])
       \/ entry[s] = NoFrame /\ \E f \in Frames :
            pmalloc(pf_bitmap, f) /\ pf_bitmap' = MmioFree(puse(pf_bitmap, f), f)
    /\ entry' = [entry EXCEPT ![s] = d]
    /\ used' = used \cup {s}
    /\ device' = device \cup {s}
    /\ UNCHANGED <<tlb, user, lost, panicked>>

DonatedEntry_Kept(s) == entry

\* *page_entry(newpage) = 0
DonatedEntry(s) == [entry EXCEPT ![s] = NoFrame]

\* The copy-on-write path moves the frame of a heap page to a user page table
\* or directory entry, clears the heap entry and flushes it.
Donate(s) ==
    /\ ~panicked
    /\ s \in used \ device
    /\ user' = user \cup {entry[s]}
    /\ entry' = DonatedEntry(s)
    /\ used' = used \ {s}
    /\ tlb' = Flush(s)
    /\ UNCHANGED <<pf_bitmap, device, lost, panicked>>

\* mmap() and the not-present path of page_fault() take user frames from
\* pmalloc() directly.
UserFrame(f) ==
    /\ ~panicked
    /\ pmalloc(pf_bitmap, f)
    /\ pf_bitmap' = puse(pf_bitmap, f)
    /\ user' = user \cup {f}
    /\ UNCHANGED <<entry, used, device, tlb, lost, panicked>>

\* exec() empties the directory, mmap() overwrites an entry, the copy-on-write
\* path repoints one: the last pointer to a frame may go. No pfree() follows.
UserDrops(fs) ==
    /\ ~panicked
    /\ fs # {}
    /\ user' = user \ fs
    /\ lost' = lost \cup fs
    /\ UNCHANGED <<pf_bitmap, entry, used, device, tlb, panicked>>

UserFramePanics == ~panicked /\ OutOfFrames(pf_bitmap) /\ kpanic

\* The holder of a page uses it: the processor caches its translation.
Touch(s) ==
    /\ ~panicked
    /\ s \in used
    /\ tlb[s] = NoFrame
    /\ tlb' = [tlb EXCEPT ![s] = entry[s]]
    /\ UNCHANGED <<pf_bitmap, entry, used, device, user, lost, panicked>>

Halted == panicked /\ UNCHANGED vars

Next ==
    \/ \E s \in Slots :
        \/ KmallocPresent(s)
        \/ \E f \in Frames : KmallocFresh(s, f)
        \/ Kfree(s)
        \/ \E d \in Mmio : MmioMalloc(s, d)
        \/ Donate(s)
        \/ Touch(s)
    \/ KmallocPanics
    \/ \E f \in Frames : UserFrame(f)
    \/ \E fs \in SUBSET user : UserDrops(fs)
    \/ UserFramePanics
    \/ Halted

Spec == Init /\ [][Next]_vars

----------------------------------------------------------------------------
(* Properties *)

\* Frames of memory that back heap slots, freed slots included.
HeapFrames == {entry[s] : s \in Slots \ device} \ {NoFrame}

\* No frame backs two pages: not two heap slots, not a heap slot and a user
\* page, and none of them a frame reserved for the kernel image.
NoAlias ==
    /\ \A s, t \in Slots \ device : entry[s] = entry[t] /\ entry[s] # NoFrame => s = t
    /\ HeapFrames \cap user = {}
    /\ (HeapFrames \cup user) \cap Reserved = {}

\* The bitmap accounts for every frame: what it marks used is exactly what the
\* kernel image, the heap slots (freed ones included) and the address spaces
\* hold, and what the address spaces have dropped. Nothing in use can be handed
\* out again, the heap loses nothing itself, and a dropped frame is lost for good:
\* user memory is never given back (scheduler.c:169-171, vmm.c:148, 166, 192).
Accounted ==
    /\ Used(pf_bitmap) = Reserved \cup HeapFrames \cup user \cup lost
    /\ lost \cap (Reserved \cup HeapFrames \cup user) = {}

\* What the processor has cached for a page in use is what its entry says,
\* although mmiomalloc() rewrites an entry without a flush: the slot it gets
\* was flushed when it was last freed.
TlbCoherent == \A s \in Slots : tlb[s] # NoFrame => s \in used /\ tlb[s] = entry[s]

\* The two-level search takes the lowest free frame of all, as a search of the
\* frames one by one would.
TakesLowest ==
    [][\A f \in Used(pf_bitmap') \ Used(pf_bitmap) :
        \A g \in Frames \ Used(pf_bitmap) : f <= g]_vars

\* pmm.c:20 says the bitmap reserves "space for mmio": no frame of a device is
\* ever handed out as memory.
DeviceFramesReserved == (HeapFrames \cup user) \cap Mmio = {}
=============================================================================
