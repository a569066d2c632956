------------------------------ MODULE PhysMem ------------------------------
(***************************************************************************)
(* The physical frame allocator of kernel/pmm.c: a bitmap of words, one bit*)
(* per frame, searched word by word and then bit by bit.                   *)
(***************************************************************************)
EXTENDS Integers

CONSTANTS
    WordBits,   \* bits of a bitmap word (32 in the code)
    NWords,     \* words of the bitmap (0x8000)
    NReserved   \* frames init_pf_bitmap() marks used (the first 8 MiB)

ASSUME PhysAssumption == /\ WordBits \in Nat \ {0}
                         /\ NWords \in Nat
                         /\ NReserved \in 0..(NWords * WordBits)

Words == 0..(NWords - 1)
Bits == 0..(WordBits - 1)
Frames == 0..(NWords * WordBits - 1)
Reserved == 0..(NReserved - 1)

\* index = page / 32, shift = page % 32
Index(f) == f \div WordBits
Shift(f) == f % WordBits

\* The frames a bitmap marks used.
Used(bm) == {f \in Frames : Shift(f) \in bm[Index(f)]}

puse(bm, f) == [bm EXCEPT ![Index(f)] = @ \cup {Shift(f)}]

pfree(bm, f) == [bm EXCEPT ![Index(f)] = @ \ {Shift(f)}]

\* All words zero, then puse() of every reserved frame.
init_pf_bitmap == [w \in Words |-> {b \in Bits : w * WordBits + b \in Reserved}]

pmalloc_LastBit(bm, f) ==
    /\ Shift(f) \notin bm[Index(f)]
    /\ \A w \in Words : w < Index(f) => bm[w] = Bits
    /\ \A b \in Bits : b > Shift(f) => b \in bm[Index(f)]

\* pmalloc() returns f: the first word that is not all ones, and in it the
\* first bit that is clear. No f satisfies this when it panics.
pmalloc(bm, f) ==
    /\ Shift(f) \notin bm[Index(f)]
    /\ \A w \in Words : w < Index(f) => bm[w] = Bits
    /\ \A b \in Bits : b < Shift(f) => b \in bm[Index(f)]

\* Every word is all ones: kpanic("Out of memory!").
OutOfFrames(bm) == \A w \in Words : bm[w] = Bits
=============================================================================
