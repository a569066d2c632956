------------------------------- MODULE Malloc -------------------------------
(***************************************************************************)
(* malloc() and free() of libc/stdlib.c on the heap init_libc() maps: a    *)
(* list of blocks in the heap itself, first fit, split in two when the     *)
(* request is less than half of the block. Addresses and sizes are bytes,  *)
(* memory is words; a descriptor is three words: size (bit 0: used), fd    *)
(* and bk.                                                                 *)
(***************************************************************************)
EXTENDS Integers

CONSTANTS
    Base,       \* where mmap() put the heap (0x10000000)
    HEAP_SIZE,  \* bytes mapped (40960)
    Word,       \* values of a uint32_t (2^32)
    Requests    \* sizes the program asks for

ASSUME MallocAssumption == /\ Base \in Nat \ {0} /\ Base % 4 = 0
                           /\ HEAP_SIZE \in Nat /\ HEAP_SIZE % 4 = 0
                           /\ Word \in Nat /\ Word % 4 = 0
                           /\ Word > Base + HEAP_SIZE + 24
                           /\ Requests \subseteq 0..(Word - 4)

VARIABLES
    mem,        \* the words of the heap and of what follows it
    pc,         \* "idle", "search" (in malloc's loop), "hang"
    block,      \* malloc's cursor
    want,       \* malloc's request, rounded
    asked,      \* and as it was asked for
    given       \* <<address, bytes asked for>> handed out and not freed

mallocVars == <<mem, pc, block, want, asked, given>>

NULL == 0
Desc == 12      \* sizeof(mem_block_t)
Addresses == {a \in Base..(Base + HEAP_SIZE + 2 * Desc - 4) : a % 4 = 0}

size(b) == mem[b]
fd(b) == mem[b + 4]
bk(b) == mem[b + 8]
Free(b) == size(b) % 2 = 0
Bytes(b) == size(b) - (size(b) % 2)

MallocTypeOK ==
    /\ mem \in [Addresses -> 0..(Word - 1)]
    /\ pc \in {"idle", "search", "hang"}
    /\ block \in 0..(Word - 1)
    /\ want \in 0..(Word - 1) /\ want % 4 = 0
    /\ asked \in Requests \cup {0}
    /\ given \in SUBSET (Addresses \X Requests)

\* init_libc(): one free block whose size is that of the whole mapping.
MallocInit ==
    /\ mem = [a \in Addresses |-> IF a = Base THEN HEAP_SIZE ELSE 0]
    /\ pc = "idle"
    /\ block = NULL
    /\ want = 0
    /\ asked = 0
    /\ given = {}

\* size += (size % 4 == 0) ? 0 : 4 - size % 4
RoundUp(n) == (n + (IF n % 4 = 0 THEN 0 ELSE 4 - (n % 4))) % Word

SearchFrom_Second == IF fd(Base) = NULL THEN Base ELSE fd(Base)

\* The search starts at the first block.
SearchFrom == Base

\* malloc(n), up to the search loop.
Call(n) ==
    /\ pc = "idle"
    /\ pc' = "search"
    /\ block' = SearchFrom
    /\ asked' = n
    /\ want' = RoundUp(n)
    /\ UNCHANGED <<mem, given>>

Fits_UsedToo(b) == size(b) >= want

\* The loop condition of the search, negated.
Fits(b) == Free(b) /\ size(b) >= want

\* block = block->fd, and the endless loop at the end of the list.
Skip ==
    /\ pc = "search"
    /\ ~Fits(block)
    /\ IF fd(block) = NULL THEN pc' = "hang" /\ UNCHANGED block
                           ELSE block' = fd(block) /\ UNCHANGED pc
    /\ UNCHANGED <<mem, want, asked, given>>

SplitSize_NoDescriptor(b) == (size(b) - want) % Word

\* split->size, in 32-bit arithmetic, with the low bits cleared.
SplitSize(b) == LET s == (size(b) - want - Desc) % Word IN s - (s % 4)

\* The stores of a split, in their order (they may overlap), and the used bit.
Linked(b, split) ==
    LET sized == [mem EXCEPT ![split] = SplitSize(b)]
        cut == [sized EXCEPT ![b] = want]
        back == [cut EXCEPT ![split + 8] = b]
        forth == [back EXCEPT ![split + 4] = back[b + 4]]
        linked == [forth EXCEPT ![b + 4] = split]
    IN  [linked EXCEPT ![b] = linked[b] + 1 - (linked[b] % 2)]

Marked(b) == [mem EXCEPT ![b] = @ + 1]

\* The block is taken, whole or its first part.
Take ==
    /\ pc = "search"
    /\ Fits(block)
    /\ IF want < size(block) \div 2
       THEN mem' = Linked(block, block + Desc + want)
       ELSE mem' = Marked(block)
    /\ given' = given \cup {<<block + Desc, asked>>}
    /\ pc' = "idle"
    /\ block' = NULL /\ want' = 0 /\ asked' = 0

\* free() of something malloc() returned.
FreeBlock(g) ==
    /\ pc = "idle"
    /\ g \in given
    /\ mem' = [mem EXCEPT ![g[1] - Desc] = @ - (@ % 2)]
    /\ given' = given \ {g}
    /\ UNCHANGED <<pc, block, want, asked>>

Stuck == pc = "hang" /\ UNCHANGED mallocVars

MallocNext ==
    \/ \E n \in Requests : Call(n)
    \/ Skip
    \/ Take
    \/ \E g \in given : FreeBlock(g)
    \/ Stuck

MallocSpec == MallocInit /\ [][MallocNext]_mallocVars

----------------------------------------------------------------------------
(* Properties *)

\* The blocks, in address order: the descriptors the fd pointers lead to.
Blocks == LET Reach[k \in 0..HEAP_SIZE] ==
                IF k = 0 THEN {Base}
                ELSE LET R == Reach[k - 1] IN R \cup {fd(b) : b \in {c \in R : fd(c) # NULL}}
          IN  Reach[HEAP_SIZE \div Desc]
End == Base + Desc + HEAP_SIZE

\* The blocks tile the heap: each one ends where the next begins and the last
\* ends where the first, unsplit, ended. No byte is lost by any sequence of
\* malloc() and free(), and no descriptor lies in another block. (For requests
\* of at least two words.)
Tiling ==
    \A b \in Blocks : LET end == b + Desc + Bytes(b) IN
        end = IF fd(b) = NULL THEN End ELSE fd(b)

\* What the program holds overlaps neither anything else it holds nor a
\* descriptor: storing to it cannot damage the list. And a block counts as used
\* exactly while the program holds it: a freed one can be found again.
HeldApart ==
    /\ \A g \in given :
        /\ \A h \in given \ {g} : g[1] + g[2] <= h[1] \/ h[1] + h[2] <= g[1]
        /\ \A b \in Blocks : g[1] + g[2] <= b \/ b + Desc <= g[1]
    /\ {b + Desc : b \in {c \in Blocks : ~Free(c)}} = {g[1] : g \in given}

\* malloc() gives up for ever only when it must: then no free part of the heap,
\* wherever splits and frees have left it, is as large as the request.
SpinsOnlyFull ==
    pc = "hang" => \A b \in Blocks : Free(b) => Bytes(b) < want

\* stdlib.h:4: the size of a block is "excluding this descriptor". What malloc()
\* hands out therefore lies in the memory init_libc() mapped.
HeldMapped == \A g \in given : g[1] + g[2] <= Base + HEAP_SIZE

\* stdlib.c:33: a split puts its descriptor at the "appropriate address": no
\* two descriptors overlap, whatever is asked for.
DescriptorsApart == \A b, c \in Blocks : b < c => b + Desc <= c

\* stdlib.c:38: a split block is to be linked "into list": the bk of a block's
\* successor is the block.
BackLinked == \A b \in Blocks : fd(b) # NULL => bk(fd(b)) = b
=============================================================================
