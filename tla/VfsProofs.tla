----------------------------- MODULE VfsProofs -----------------------------
(***************************************************************************)
(* Proofs about the two halves of kernel/vfs.c. Lookup, for any tree of    *)
(* directories and any paths: what getnode() returns is the file the path  *)
(* names, although the directories of the disk are cleared and read anew   *)
(* at every comparison, and the nodes that descriptors point to stay the   *)
(* files they were. Files, for tables of any size: an open descriptor      *)
(* stays on its file, although the kernel itself opens and closes files in *)
(* the caller's table, and a child inherits its parent's.                  *)
(***************************************************************************)
EXTENDS Lookup, Files, SequenceTheorems, FiniteSetTheorems, WellFoundedInduction, TLAPS

----------------------------------------------------------------------------
(* LOOKUP *)

\* The directory the n-th part of a path is looked for in.
DirOf(p, n) == IF n = 1 THEN Root ELSE p[n - 1]
FoundPart(p, n) == DirOf(p, n) \in DOMAIN Kids /\ \E e \in DOMAIN Kids[DirOf(p, n)] : Kids[DirOf(p, n)][e] = p[n]

\* The entries s are those of directory d.
ListingOf(s, d) ==
    /\ Len(s) = Len(Kids[d])
    /\ \A e \in 1..Len(s) : s[e].file = Kids[d][e]

\* Every page of entries belongs to one file for ever: a page that is filled
\* holds the listing of that file, and whatever entry leads to it is an entry
\* of that file. Pages of the heap's rest belong to files of the disk.
Owned(own) ==
    /\ dirents \in [Pages -> Seq(Entries)]
    /\ own \in [Pages -> Nodes] /\ \A x \in Nodes : own[x] = x
    /\ \A p \in Pages : dirents[p] # <<>> =>
        /\ p \in Nodes \/ p \in 1..heap
        /\ own[p] \in DOMAIN Kids /\ ListingOf(dirents[p], own[p])
    /\ \A p \in Pages : \A e \in 1..Len(dirents[p]) :
        LET v == dirents[p][e] IN
        /\ own[v.page] = v.file
        /\ v.page \in Nodes \/ (v.page \in 1..heap /\ v.file \notin DOMAIN Kids \ Ext2)
    /\ \A d \in DOMAIN Kids \ Ext2 : ListingOf(dirents[d], d)

\* A place holds an entry.
Valid(n) == n = <<>> \/ \E p \in Pages : \E e \in 1..Len(dirents[p]) : n = <<p, e>>

\* t is what follows the first k parts of p.
IsRest(t, p, k) ==
    /\ t \in Seq(Names)
    /\ Len(t) = Len(p) - k
    /\ \A x \in 1..Len(t) : t[x] = p[k + x]

\* The walk: the node is the directory in which the next part is looked for,
\* the parts before were found, the entries before the i-th are others.
Walked ==
    /\ path \in Paths /\ matched \in 0..Len(path)
    /\ File = DirOf(path, matched + 1)
    /\ \A n \in 1..matched : FoundPart(path, n)
    /\ pathpart # NULL => matched < Len(path) /\ pathpart = <<path[matched + 1]>>
    /\ token # NULL => pathpart # NULL /\ IsRest(token, path, matched + 1)
    /\ pathpart # NULL /\ File \in DOMAIN Kids =>
        \A e \in 1..(i - 1) : e <= Len(Kids[File]) => Kids[File][e] # pathpart[1]

\* strtok has lost parts of the path only when a directory of the disk was
\* looked into.
Lost ==
    /\ pathpart = NULL /\ matched < Len(path) => \E n \in 1..matched : DirOf(path, n) \in Ext2
    /\ pathpart # NULL /\ token = NULL /\ matched + 1 < Len(path) =>
        \E n \in 1..(matched + 1) : DirOf(path, n) \in Ext2

Outcomes ==
    /\ outcome # "ok" => path # <<>>
    /\ outcome \in {"missing", "notdir"} => ~ Exists(path)
    /\ outcome = "critical" => pathpart = NULL /\ matched < Len(path)

\* Memory: the pages, and the places that the walk and descriptors point to.
Stored ==
    /\ heap \in 0..NPages
    /\ \E own \in [Pages -> Nodes] : Owned(own)
    /\ Valid(node)
    /\ \A o \in opened : Valid(o[1]) /\ Vnode(o[1]).file = o[2]

\* The inductive invariant.
Inv ==
    /\ Stored
    /\ i \in Nat \ {0}
    /\ path # <<>> => Walked /\ Lost
    /\ Outcomes

----------------------------------------------------------------------------
(* The tree *)

\* A function on 1..n is a sequence of length n.
LEMMA FunctionSeq ==
    ASSUME NEW S, NEW n \in Nat, NEW f \in [1..n -> S]
    PROVE  f \in Seq(S) /\ Len(f) = n
<1>1. f \in Seq(S)
    BY SeqDef
<1> QED BY <1>1, LenProperties

LEMMA TreeFacts ==
    /\ Root \in Nodes /\ Nodes \subseteq Pages /\ DOMAIN Kids \subseteq Nodes
    /\ \A d \in DOMAIN Kids : /\ Len(Kids[d]) \in Nat /\ DOMAIN Kids[d] = 1..Len(Kids[d])
                              /\ \A e \in 1..Len(Kids[d]) : Kids[d][e] \in Nodes
    /\ \A n \in 1..NPages : n \notin Nodes /\ n \in Pages
<1> USE LookupAssumption, TreeAssumption
<1>1. Root \in Nodes
    BY DEF Nodes
<1>2. Nodes \subseteq Pages /\ \A n \in 1..NPages : n \notin Nodes /\ n \in Pages
    BY DEF Pages
<1> HIDE DEF Nodes
<1>3. ASSUME NEW d \in DOMAIN Kids
      PROVE  /\ Len(Kids[d]) \in Nat /\ DOMAIN Kids[d] = 1..Len(Kids[d])
             /\ \A e \in 1..Len(Kids[d]) : Kids[d][e] \in Nodes
    <2>1. Kids[d] \in Seq(Nodes)
        OBVIOUS
    <2>2. Len(Kids[d]) \in Nat /\ Kids[d] \in [1..Len(Kids[d]) -> Nodes]
        BY <2>1, LenProperties
    <2> QED BY <2>2
<1> QED BY <1>1, <1>2, <1>3

\* A path exists when each of its parts was found.
LEMMA ExistsParts == \A p : Exists(p) <=> \A n \in 1..Len(p) : FoundPart(p, n)
BY DEF Exists, FoundPart, DirOf

\* What the entry at a valid place is.
LEMMA PlaceFacts ==
    ASSUME NEW own, Owned(own), NEW n, Valid(n)
    PROVE  /\ Vnode(n).file \in Nodes /\ Vnode(n).page \in Pages
           /\ own[Vnode(n).page] = Vnode(n).file
           /\ Vnode(n).page \in Nodes \/ (Vnode(n).page \in 1..heap /\ Vnode(n).file \notin DOMAIN Kids \ Ext2)
<1>1. CASE n = <<>>
    BY <1>1, TreeFacts DEF Vnode, Owned
<1>2. ASSUME NEW p \in Pages, NEW e \in 1..Len(dirents[p]), n = <<p, e>>
      PROVE  /\ Vnode(n).file \in Nodes /\ Vnode(n).page \in Pages
             /\ own[Vnode(n).page] = Vnode(n).file
             /\ Vnode(n).page \in Nodes \/ (Vnode(n).page \in 1..heap /\ Vnode(n).file \notin DOMAIN Kids \ Ext2)
    <2>1. n # <<>> /\ n[1] = p /\ n[2] = e
        BY <1>2
    <2>2. Vnode(n) = dirents[p][e]
        BY <2>1 DEF Vnode
    <2>3. dirents[p][e] \in Entries
        BY DEF Owned
    <2>4. dirents[p][e].file \in Nodes /\ dirents[p][e].page \in Pages
        BY <2>3 DEF Entries
    <2> QED BY <2>2, <2>4 DEF Owned
<1> QED BY <1>1, <1>2 DEF Valid

----------------------------------------------------------------------------
(* Reading a directory anew *)

\* Every entry is still there, for the same file.
Keeps == \A p \in Pages : \A e \in 1..Len(dirents[p]) :
    e \in 1..Len(dirents'[p]) /\ dirents'[p][e].file = dirents[p][e].file

\* ext2_enum() fills the page of the directory with the listing it had, or
\* that a page never read gets, and the new entries lead to new pages.
LEMMA DiskEnumerated ==
    ASSUME NEW own \in [Pages -> Nodes], Owned(own), heap \in 0..NPages,
           NEW file \in Ext2, NEW dir \in Pages, own[dir] = file,
           dir \in Nodes \/ dir \in 1..heap,
           heap + (2 * Len(Kids[file]) + 7) <= NPages,
           NEW s, s = [e \in 1..Len(Kids[file]) |-> [file |-> Kids[file][e], page |-> heap + e]],
           dirents' = [dirents EXCEPT ![dir] = s],
           heap' = heap + 2 * Len(Kids[file]) + 1
    PROVE  /\ heap' \in 0..NPages
           /\ \E new \in [Pages -> Nodes] : Owned(new)'
           /\ ListingOf(dirents'[dir], file)
           /\ Keeps
<1> DEFINE L == Len(Kids[file])
<1> DEFINE owner == [p \in Pages |-> IF p \in (heap + 1)..(heap + L) THEN Kids[file][p - heap] ELSE own[p]]
<1>1. /\ file \in DOMAIN Kids /\ file \in Nodes /\ L \in Nat /\ NPages \in Nat
      /\ \A e \in 1..L : Kids[file][e] \in Nodes
    BY LookupAssumption, TreeFacts
<1>2. /\ heap \in Nat /\ heap' \in Nat /\ heap + L < heap' /\ heap' \in 0..NPages
      /\ \A e \in 1..L : heap + e \in 1..heap' /\ heap + e \in 1..NPages
    BY <1>1
<1>3. \A e \in 1..L : heap + e \in Pages
    BY <1>2, TreeFacts
<1>4. s \in Seq(Entries) /\ Len(s) = L
    <2>1. \A e \in 1..L : [file |-> Kids[file][e], page |-> heap + e] \in Entries
        BY <1>1, <1>3 DEF Entries
    <2>2. s \in [1..L -> Entries]
        BY <2>1
    <2> PICK l \in Nat : l = L
        BY <1>1
    <2>3. s \in [1..l -> Entries]
        BY <2>2
    <2> HIDE DEF L
    <2>4. s \in Seq(Entries) /\ Len(s) = l
        BY ONLY l \in Nat, <2>3, FunctionSeq
    <2> QED BY <2>4
<1>5. \A e \in 1..L : s[e].file = Kids[file][e] /\ s[e].page = heap + e
    OBVIOUS
<1>6. ListingOf(s, file)
    BY <1>4, <1>5 DEF ListingOf
<1>7. dirents \in [Pages -> Seq(Entries)]
    BY DEF Owned
<1>8. dirents' \in [Pages -> Seq(Entries)] /\ dirents'[dir] = s
      /\ \A p \in Pages : p # dir => dirents'[p] = dirents[p]
    BY <1>4, <1>7
<1>9. owner \in [Pages -> Nodes]
    <2>1. ASSUME NEW p \in Pages, p \in (heap + 1)..(heap + L) PROVE Kids[file][p - heap] \in Nodes
        <3>1. p - heap \in 1..L
            BY <2>1, <1>1, <1>2
        <3> QED BY <3>1, <1>1
    <2> QED BY <2>1
<1> PICK new \in [Pages -> Nodes] : new = owner
    BY <1>9
<1>10. \A p \in Pages : p \in Nodes \/ p \in 1..heap => new[p] = own[p]
    <2>1. ASSUME NEW p \in Nodes PROVE p \notin (heap + 1)..(heap + L)
        BY <1>1, <1>2, TreeFacts
    <2>2. \A p \in 1..heap : p \notin (heap + 1)..(heap + L)
        BY <1>1, <1>2
    <2> QED BY <2>1, <2>2
<1>11. \A e \in 1..L : new[heap + e] = Kids[file][e]
    <2> TAKE e \in 1..L
    <2>1. heap + e \in (heap + 1)..(heap + L) /\ (heap + e) - heap = e
        BY <1>1, <1>2
    <2> QED BY <2>1, <1>3
<1>12. file \in Ext2 /\ \A e \in 1..L : Kids[file][e] \notin DOMAIN Kids \ Ext2
    BY <1>1, TreeFacts, TreeAssumption
<1> HIDE DEF owner, L
<1>13. Owned(new)'
    <2>1. \A x \in Nodes : new[x] = x
        BY <1>10, TreeFacts DEF Owned
    <2>2. ASSUME NEW p \in Pages, dirents'[p] # <<>>
          PROVE  /\ p \in Nodes \/ p \in 1..heap'
                 /\ new[p] \in DOMAIN Kids /\ ListingOf(dirents'[p], new[p])
        <3>1. CASE p = dir
            BY <3>1, <1>1, <1>2, <1>6, <1>8, <1>10
        <3>2. CASE p # dir
            <4>1. /\ p \in Nodes \/ p \in 1..heap
                  /\ own[p] \in DOMAIN Kids /\ ListingOf(dirents[p], own[p])
                BY <3>2, <2>2, <1>8 DEF Owned
            <4>2. p \in Nodes \/ p \in 1..heap'
                BY <4>1, <1>2, <1>1 DEF L
            <4> QED BY <4>1, <4>2, <3>2, <1>8, <1>10
        <3> QED BY <3>1, <3>2
    <2>3. ASSUME NEW p \in Pages, NEW e \in 1..Len(dirents'[p])
          PROVE  /\ new[dirents'[p][e].page] = dirents'[p][e].file
                 /\ \/ dirents'[p][e].page \in Nodes
                    \/ dirents'[p][e].page \in 1..heap' /\ dirents'[p][e].file \notin DOMAIN Kids \ Ext2
        <3>1. CASE p = dir
            <4>1. e \in 1..L /\ dirents'[p][e] = s[e]
                BY <3>1, <1>4, <1>8
            <4>2. s[e].file = Kids[file][e] /\ s[e].page = heap + e /\ heap + e \in 1..heap'
                BY <4>1, <1>2, <1>5
            <4>3. new[heap + e] = Kids[file][e] /\ Kids[file][e] \notin DOMAIN Kids \ Ext2
                BY <4>1, <1>11, <1>12
            <4> QED BY <4>1, <4>2, <4>3
        <3>2. CASE p # dir
            <4>1. dirents'[p] = dirents[p] /\ e \in 1..Len(dirents[p])
                BY <3>2, <1>8
            <4>2. /\ own[dirents[p][e].page] = dirents[p][e].file
                  /\ \/ dirents[p][e].page \in Nodes
                     \/ dirents[p][e].page \in 1..heap /\ dirents[p][e].file \notin DOMAIN Kids \ Ext2
                BY <4>1 DEF Owned
            <4>3. dirents[p][e] \in Entries
                BY <4>1, <1>7
            <4>4. dirents[p][e].page \in Pages
                BY <4>3 DEF Entries
            <4>5. 1..heap \subseteq 1..heap'
                BY <1>1, <1>2 DEF L
            <4> QED BY <4>1, <4>2, <4>4, <4>5, <1>10
        <3> QED BY <3>1, <3>2
    <2>4. ASSUME NEW d \in DOMAIN Kids \ Ext2 PROVE ListingOf(dirents'[d], d)
        <3>1. d \in Nodes /\ own[d] = d /\ ListingOf(dirents[d], d) /\ d \in Pages
            BY TreeFacts DEF Owned
        <3>2. d # dir
            BY <3>1
        <3> QED BY <3>1, <3>2, <1>8
    <2> QED BY <2>1, <2>2, <2>3, <2>4, <1>8, <1>9 DEF Owned
<1>14. Keeps
    <2>1. ASSUME NEW p \in Pages, NEW e \in 1..Len(dirents[p])
          PROVE  e \in 1..Len(dirents'[p]) /\ dirents'[p][e].file = dirents[p][e].file
        <3>1. CASE p = dir
            <4>1. dirents[p] \in Seq(Entries) /\ dirents[p] # <<>>
                BY <1>7
            <4>2. ListingOf(dirents[p], file)
                BY <4>1, <3>1 DEF Owned
            <4>3. e \in 1..L /\ dirents[p][e].file = Kids[file][e]
                BY <4>2 DEF ListingOf, L
            <4> QED BY <4>3, <3>1, <1>4, <1>5, <1>8
        <3>2. CASE p # dir
            BY <3>2, <1>8
        <3> QED BY <3>1, <3>2
    <2> QED BY <2>1 DEF Keeps
<1> QED BY <1>2, <1>6, <1>8, <1>9, <1>13, <1>14

\* One reading of the current directory, of the disk or not.
LEMMA Enumerated ==
    ASSUME heap \in 0..NPages, NEW own \in [Pages -> Nodes], Owned(own), Valid(node),
           File \in DOMAIN Kids, Enumerates => heap + Peak <= NPages, Enumerate
    PROVE  /\ heap' \in 0..NPages
           /\ \E new \in [Pages -> Nodes] : Owned(new)'
           /\ Dir \in Pages /\ ListingOf(dirents'[Dir], File)
           /\ Keeps
<1>1. /\ File \in Nodes /\ Dir \in Pages /\ own[Dir] = File
      /\ Dir \in Nodes \/ (Dir \in 1..heap /\ File \notin DOMAIN Kids \ Ext2)
    BY PlaceFacts DEF File, Dir
<1>2. CASE Enumerates
    <2>1. File \in Ext2
        BY <1>2 DEF Enumerates
    <2>2. dirents' = [dirents EXCEPT ![Dir] = Listing] /\ heap' = heap + 2 * Len(Kids[File]) + 1
        BY <1>2 DEF Enumerate
    <2>3. heap + (2 * Len(Kids[File]) + 7) <= NPages
        BY <1>2 DEF Peak
    <2>4. PICK file \in Ext2, dir \in Pages : file = File /\ dir = Dir
        BY <1>1, <2>1
    <2>5. Listing = [e \in 1..Len(Kids[file]) |-> [file |-> Kids[file][e], page |-> heap + e]]
        BY <2>4 DEF Listing
    <2> HIDE DEF Listing, File, Dir
    <2> QED BY <1>1, <2>2, <2>3, <2>4, <2>5, DiskEnumerated
<1>3. CASE ~ Enumerates
    <2>1. File \in DOMAIN Kids \ Ext2
        BY <1>3 DEF Enumerates
    <2>2. dirents' = dirents /\ heap' = heap
        BY <1>3 DEF Enumerate
    <2>3. Dir \in Nodes /\ own[Dir] = Dir
        BY <1>1, <2>1 DEF Owned
    <2>4. Dir = File
        BY <1>1, <2>3
    <2>5. ListingOf(dirents[Dir], File)
        BY <2>1, <2>4 DEF Owned
    <2>6. Owned(own)'
        BY <2>2 DEF Owned
    <2> QED BY <1>1, <2>2, <2>5, <2>6 DEF Keeps
<1> QED BY <1>2, <1>3

\* A place keeps its file when the directories do.
LEMMA PlacesKept ==
    ASSUME Keeps, NEW n, Valid(n)
    PROVE  Valid(n)' /\ Vnode(n)'.file = Vnode(n).file
<1>1. CASE n = <<>>
    BY <1>1 DEF Valid, Vnode
<1>2. ASSUME NEW p \in Pages, NEW e \in 1..Len(dirents[p]), n = <<p, e>>
      PROVE  Valid(n)' /\ Vnode(n)'.file = Vnode(n).file
    <2>1. n # <<>> /\ n[1] = p /\ n[2] = e
        BY <1>2
    <2>2. Vnode(n) = dirents[p][e] /\ Vnode(n)' = dirents'[p][e]
        BY <2>1 DEF Vnode
    <2>3. e \in 1..Len(dirents'[p]) /\ dirents'[p][e].file = dirents[p][e].file
        BY DEF Keeps
    <2> QED BY <1>2, <2>2, <2>3 DEF Valid
<1> QED BY <1>1, <1>2 DEF Valid

\* Where a step that reads the directory may leave the walk: at the same node,
\* or at an entry of the directory.
LEMMA StoredKept ==
    ASSUME Stored, File \in DOMAIN Kids, Enumerates => heap + Peak <= NPages, Enumerate,
           opened' = opened,
           node' = node \/ \E e \in 1..Len(dirents'[Dir]) : node' = <<Dir, e>>
    PROVE  /\ Stored'
           /\ ListingOf(dirents'[Dir], File)
           /\ node' = node => File' = File
           /\ \A e \in 1..Len(dirents'[Dir]) : node' = <<Dir, e>> => File' = dirents'[Dir][e].file
<1>1. PICK own \in [Pages -> Nodes] : Owned(own)
    BY DEF Stored
<1>2. /\ heap' \in 0..NPages
      /\ \E new \in [Pages -> Nodes] : Owned(new)'
      /\ Dir \in Pages /\ ListingOf(dirents'[Dir], File)
      /\ Keeps
    BY <1>1, Enumerated DEF Stored
<1>3. \A o \in opened' : Valid(o[1])' /\ Vnode(o[1])'.file = o[2]
    <2> SUFFICES ASSUME NEW o \in opened PROVE Valid(o[1])' /\ Vnode(o[1])'.file = o[2]
        OBVIOUS
    <2>1. Valid(o[1]) /\ Vnode(o[1]).file = o[2]
        BY DEF Stored
    <2> QED BY <2>1, <1>2, PlacesKept
<1>4. ASSUME node' = node PROVE Valid(node)' /\ File' = File
    <2>1. PICK n : n = node
        OBVIOUS
    <2>2. Valid(n)' /\ Vnode(n)'.file = Vnode(n).file
        BY <2>1, <1>2, PlacesKept DEF Stored
    <2>3. Valid(node)'
        BY <2>1, <2>2, <1>4 DEF Valid
    <2>4. File' = Vnode(n)'.file
        BY <2>1, <1>4 DEF File, Vnode
    <2> QED BY <2>1, <2>2, <2>3, <2>4 DEF File
<1>5. ASSUME NEW e \in 1..Len(dirents'[Dir]), node' = <<Dir, e>>
      PROVE  Valid(node)' /\ File' = dirents'[Dir][e].file
    <2>1. PICK dir \in Pages : dir = Dir
        BY <1>2
    <2> HIDE DEF Dir
    <2>2. node' # <<>> /\ node'[1] = dir /\ node'[2] = e
        BY <1>5, <2>1
    <2>3. File' = dirents'[dir][e].file
        BY <2>2 DEF File, Vnode
    <2>4. Valid(node)'
        BY <1>5, <2>1 DEF Valid
    <2> QED BY <2>1, <2>3, <2>4
<1> QED BY <1>2, <1>3, <1>4, <1>5 DEF Stored

----------------------------------------------------------------------------
(* strtok() *)

LEMMA WholePath ==
    ASSUME NEW p \in Paths
    PROVE  IsRest(p, p, 0) /\ p # NULL /\ Len(p) \in Nat \ {0}
<1>1. p \in Seq(Names) /\ p # <<>>
    BY LookupAssumption
<1> QED BY <1>1, LenProperties, EmptySeq DEF IsRest, NULL

\* A call returns the next part and leaves those after it.
LEMMA NextToken ==
    ASSUME NEW p \in Paths, NEW k \in Nat, NEW t, t # NULL, IsRest(t, p, k)
    PROVE  /\ k < Len(p) /\ Part(t) # NULL /\ Part(t) = <<p[k + 1]>>
           /\ IsRest(Rest(t), p, k + 1)
           /\ Rest(t) = NULL => k + 1 = Len(p)
<1>1. t \in Seq(Names) /\ t # <<>> /\ Len(t) = Len(p) - k /\ \A x \in 1..Len(t) : t[x] = p[k + x]
    BY DEF IsRest, NULL
<1>2. Len(p) \in Nat
    BY LookupAssumption, LenProperties
<1>3. /\ Head(t) \in Names /\ Head(t) = t[1] /\ Tail(t) \in Seq(Names)
      /\ Len(Tail(t)) = Len(t) - 1 /\ \A x \in 1..Len(Tail(t)) : Tail(t)[x] = t[x + 1]
      /\ Len(t) \in Nat \ {0}
    BY <1>1, HeadTailProperties, EmptySeq, LenProperties
<1>4. Part(t) = <<p[k + 1]>>
    BY <1>1, <1>3 DEF Part, NULL
<1>5. Rest(t) = Tail(t)
    BY DEF Rest
<1>6. IsRest(Tail(t), p, k + 1)
    <2>1. ASSUME NEW x \in 1..Len(Tail(t)) PROVE Tail(t)[x] = p[(k + 1) + x]
        <3>1. Tail(t)[x] = t[x + 1] /\ x + 1 \in 1..Len(t) /\ x \in Nat
            BY <1>3
        <3>2. t[x + 1] = p[k + (x + 1)] /\ k + (x + 1) = (k + 1) + x
            BY <3>1, <1>1
        <3> QED BY <3>1, <3>2
    <2>2. Len(Tail(t)) = Len(p) - (k + 1)
        BY <1>1, <1>2, <1>3
    <2> QED BY <2>1, <2>2, <1>3 DEF IsRest
<1>7. Rest(t) = NULL => k + 1 = Len(p)
    <2> HAVE Rest(t) = NULL
    <2>1. Len(<<>>) = 0
        OBVIOUS
    <2>2. Len(Tail(t)) = 0
        BY <1>5, <2>1, Zenon DEF NULL
    <2>3. Len(t) - 1 = 0 /\ Len(t) = Len(p) - k
        BY <2>2, <1>1, <1>3, Zenon
    <2> QED BY <2>3, <1>2
<1>8. k < Len(p)
    BY <1>1, <1>2, <1>3
<1>9. <<p[k + 1]>> # NULL
    BY DEF NULL
<1> QED BY <1>4, <1>5, <1>6, <1>7, <1>8, <1>9

----------------------------------------------------------------------------
(* The invariant *)

\* It holds after init_vfs().
LEMMA InitInv == Init => Inv
<1> SUFFICES ASSUME Init PROVE Inv
    OBVIOUS
<1>1. dirents = [p \in Pages |-> IF p \in DOMAIN Kids \ Ext2 THEN AtBoot(p) ELSE <<>>] /\ heap = 0
    BY DEF Init
<1>2. ASSUME NEW d \in DOMAIN Kids
      PROVE  /\ AtBoot(d) \in Seq(Entries) /\ ListingOf(AtBoot(d), d) /\ Len(AtBoot(d)) = Len(Kids[d])
             /\ \A e \in 1..Len(Kids[d]) : AtBoot(d)[e].file \in Nodes /\ AtBoot(d)[e].page = AtBoot(d)[e].file
    <2>1. Len(Kids[d]) \in Nat /\ \A e \in 1..Len(Kids[d]) : Kids[d][e] \in Nodes /\ Kids[d][e] \in Pages
        BY TreeFacts
    <2>2. AtBoot(d) \in [1..Len(Kids[d]) -> Entries]
        BY <2>1 DEF AtBoot, Entries
    <2>3. AtBoot(d) \in Seq(Entries) /\ Len(AtBoot(d)) = Len(Kids[d])
        BY <2>1, <2>2
    <2>4. \A e \in 1..Len(Kids[d]) : AtBoot(d)[e] = [file |-> Kids[d][e], page |-> Kids[d][e]]
        BY DEF AtBoot
    <2>5. \A e \in 1..Len(Kids[d]) : AtBoot(d)[e].file = Kids[d][e] /\ AtBoot(d)[e].page = Kids[d][e]
        <3> TAKE e \in 1..Len(Kids[d])
        <3> PICK k \in Nodes : k = Kids[d][e]
            BY <2>1
        <3>1. AtBoot(d)[e] = [file |-> k, page |-> k]
            BY <2>4
        <3> QED BY <3>1
    <2>6. ListingOf(AtBoot(d), d)
        BY <2>3, <2>5 DEF ListingOf
    <2> QED BY <2>1, <2>3, <2>5, <2>6
<1>3. dirents \in [Pages -> Seq(Entries)]
    <2>1. <<>> \in Seq(Entries)
        OBVIOUS
    <2> QED BY <1>1, <1>2, <2>1
<1>4. PICK own \in [Pages -> Nodes] : own = [p \in Pages |-> IF p \in Nodes THEN p ELSE Root]
    BY TreeFacts
<1>5. \A x \in Nodes : own[x] = x
    BY <1>4, TreeFacts
<1>6. ASSUME NEW p \in Pages, dirents[p] # <<>>
      PROVE  p \in DOMAIN Kids \ Ext2 /\ dirents[p] = AtBoot(p) /\ p \in Nodes
    BY <1>1, <1>6, TreeFacts
<1>7. ASSUME NEW p \in Pages, NEW e \in 1..Len(dirents[p])
      PROVE  own[dirents[p][e].page] = dirents[p][e].file /\ dirents[p][e].page \in Nodes
    <2>1. dirents[p] # <<>>
        OBVIOUS
    <2>2. p \in DOMAIN Kids /\ dirents[p] = AtBoot(p) /\ e \in 1..Len(Kids[p])
        BY <2>1, <1>2, <1>6
    <2>3. dirents[p][e].page \in Nodes /\ dirents[p][e].page = dirents[p][e].file
        BY <2>2, <1>2
    <2> QED BY <2>3, <1>5
<1>8. \A d \in DOMAIN Kids \ Ext2 : ListingOf(dirents[d], d)
    BY <1>1, <1>2, TreeFacts
<1>9. Owned(own)
    BY <1>2, <1>3, <1>5, <1>6, <1>7, <1>8 DEF Owned
<1>10. Stored
    BY <1>1, <1>9, LookupAssumption DEF Stored, Init, Valid
<1> QED BY <1>10 DEF Inv, Init, Outcomes

\* getnode() starts a walk.
LEMMA BeginInv == ASSUME Inv, NEW p \in Paths, Begin(p) PROVE Inv'
<1> USE DEF Begin
<1>1. Stored'
    <2>1. PICK own \in [Pages -> Nodes] : Owned(own)
        BY DEF Inv, Stored
    <2>2. Owned(own)'
        BY <2>1 DEF Owned
    <2>3. \A o \in opened' : Valid(o[1])' /\ Vnode(o[1])'.file = o[2]
        BY DEF Inv, Stored, Valid, Vnode
    <2> QED BY <2>2, <2>3 DEF Inv, Stored, Valid
<1>2. /\ IsRest(Rest(p), p, 1) /\ Part(p) = <<p[1]>> /\ Part(p) # NULL /\ 0 < Len(p)
      /\ Rest(p) = NULL => 1 = Len(p)
    <2> HIDE DEF Begin
    <2>1. IsRest(p, p, 0) /\ p # NULL /\ 0 \in Nat /\ 0 + 1 = 1
        BY WholePath
    <2>2. /\ 0 < Len(p) /\ Part(p) # NULL /\ Part(p) = <<p[0 + 1]>>
          /\ IsRest(Rest(p), p, 0 + 1)
          /\ Rest(p) = NULL => 0 + 1 = Len(p)
        BY <2>1, NextToken, Zenon
    <2> QED BY <2>1, <2>2, Zenon
<1>3. Len(p) \in Nat \ {0}
    BY WholePath
<1>4. File' = Root
    BY DEF File, Vnode
<1>5. Walked'
    BY <1>2, <1>3, <1>4 DEF Walked, DirOf
<1>6. Lost'
    <2>1. pathpart' # NULL /\ matched' = 0 /\ path' = p /\ token' = Rest(p)
        BY <1>2
    <2> HIDE DEF Begin
    <2>2. Rest(p) = NULL => 1 = Len(p)
        BY <1>2, Zenon
    <2>3. pathpart' # NULL /\ token' = NULL => ~ (matched' + 1 < Len(path'))
        <3> HAVE pathpart' # NULL /\ token' = NULL
        <3>1. PICK k \in Nat : k = matched' + 1 /\ k = 1
            BY <2>1
        <3>2. Len(path') = 1
            BY <2>1, <2>2, Zenon
        <3> QED BY <3>1, <3>2
    <2> QED BY <2>1, <2>3, Zenon DEF Lost
<1> QED BY <1>1, <1>5, <1>6 DEF Inv, Outcomes

\* The kernel stops: nothing but the outcome changes.
LEMMA StopInv ==
    ASSUME Inv, Walking, NEW why, Stop(why), why \in {"missing", "notdir"} => ~ Exists(path),
           why = "critical" => pathpart = NULL
    PROVE  Inv'
<1> USE DEF Stop
<1>1. Stored'
    <2>1. PICK own \in [Pages -> Nodes] : Owned(own)
        BY DEF Inv, Stored
    <2>2. Owned(own)'
        BY <2>1 DEF Owned
    <2>3. \A o \in opened' : Valid(o[1])' /\ Vnode(o[1])'.file = o[2]
        BY DEF Inv, Stored, Valid, Vnode
    <2> QED BY <2>2, <2>3 DEF Inv, Stored, Valid
<1>2. Walked'
    BY DEF Inv, Walked, Walking, File, Vnode, IsRest
<1>3. Lost'
    BY DEF Inv, Lost, Walking
<1>4. Outcomes'
    BY DEF Inv, Outcomes, Walking, Exists
<1> QED BY <1>1, <1>2, <1>3, <1>4 DEF Inv

\* What holds while a directory is searched.
LEMMA SearchFacts ==
    ASSUME Inv, Walking, pathpart # NULL
    PROVE  /\ path \in Paths /\ matched \in Nat /\ matched < Len(path) /\ Len(path) \in Nat
           /\ File = DirOf(path, matched + 1) /\ pathpart[1] = path[matched + 1]
           /\ \A n \in 1..matched : FoundPart(path, n)
           /\ Walked /\ Lost /\ Stored /\ i \in Nat \ {0}
<1>1. Walked /\ Lost /\ Stored /\ i \in Nat \ {0}
    BY DEF Inv, Walking
<1>2. path \in Paths /\ matched \in 0..Len(path) /\ matched < Len(path) /\ pathpart = <<path[matched + 1]>>
    BY <1>1 DEF Walked
<1>3. Len(path) \in Nat
    BY <1>2, WholePath
<1> QED BY <1>1, <1>2, <1>3 DEF Walked

\* A part that is a file ends the walk of a path that does not exist.
LEMMA NotDirectoryInv == ASSUME Inv, NotDirectory PROVE Inv'
<1>1. Walking /\ pathpart # NULL /\ File \notin DOMAIN Kids /\ Stop("notdir")
    BY DEF NotDirectory
<1>2. ~ FoundPart(path, matched + 1) /\ matched + 1 \in 1..Len(path)
    BY <1>1, SearchFacts DEF FoundPart
<1>3. ~ Exists(path)
    BY <1>2, ExistsParts
<1> QED BY <1>1, <1>3, StopInv

LEMMA NoPartInv == ASSUME Inv, NoPart PROVE Inv'
BY StopInv DEF NoPart

LEMMA NoMemoryInv == ASSUME Inv, NoMemory PROVE Inv'
BY StopInv DEF NoMemory, Searching

\* A comparison that fails, and the end of the directory: token and i may
\* change, the walk stays where it is.
LEMMA StayInv ==
    ASSUME Inv, Searching, Enumerates => heap + Peak <= NPages, Enumerate,
           token' = Token, UNCHANGED <<path, matched, node, pathpart, opened>>,
           i' \in Nat \ {0},
           \A e \in 1..(i' - 1) : e <= Len(Kids[File]) => Kids[File][e] # pathpart[1]
    PROVE  Stored' /\ Walked' /\ Lost'
<1>1. Walking /\ pathpart # NULL /\ File \in DOMAIN Kids
    BY DEF Searching
<1>2. Walked /\ Lost /\ Stored /\ File = DirOf(path, matched + 1) /\ matched \in Nat
    BY <1>1, SearchFacts
<1>3. Stored' /\ File' = File
    BY <1>1, <1>2, StoredKept
<1>4. token' = NULL \/ token' = token
    BY DEF Token, Static
<1>5. Walked'
    <2>1. path' = path /\ matched' = matched /\ pathpart' = pathpart
        OBVIOUS
    <2>2. /\ path' \in Paths /\ matched' \in 0..Len(path')
          /\ File' = DirOf(path', matched' + 1)
          /\ \A n \in 1..matched' : FoundPart(path', n)
          /\ pathpart' # NULL => matched' < Len(path') /\ pathpart' = <<path'[matched' + 1]>>
        BY <2>1, <1>2, <1>3, Zenon DEF Walked
    <2>3. token' # NULL => pathpart' # NULL /\ IsRest(token', path', matched' + 1)
        BY <2>1, <1>2, <1>4, Zenon DEF Walked
    <2>4. \A e \in 1..(i' - 1) : e <= Len(Kids[File']) => Kids[File'][e] # pathpart'[1]
        BY <2>1, <1>3, Zenon
    <2> QED BY <2>2, <2>3, <2>4, Zenon DEF Walked
<1>6. Lost'
    <2>1. CASE Enumerates
        <3>1. DirOf(path, matched + 1) \in Ext2 /\ matched + 1 \in 1..(matched + 1)
            BY <2>1, <1>2 DEF Enumerates
        <3> QED BY <3>1, <1>1 DEF Lost
    <2>2. CASE ~ Enumerates
        <3>1. token' = token
            BY <2>2 DEF Token
        <3> QED BY <3>1, <1>2 DEF Lost
    <2> QED BY <2>1, <2>2
<1> QED BY <1>3, <1>5, <1>6

\* Entry i is another.
LEMMA TryNextInv == ASSUME Inv, TryNext PROVE Inv'
<1>1. /\ Searching /\ (Enumerates => heap + Peak <= NPages) /\ Enumerate
      /\ i <= Len(dirents'[Dir]) /\ dirents'[Dir][i].file # pathpart[1] /\ i' = i + 1 /\ token' = Token
      /\ UNCHANGED <<path, matched, node, pathpart, opened>> /\ outcome' = outcome
    BY DEF TryNext, NextEntry, Matches
<1>2. Walking /\ pathpart # NULL /\ File \in DOMAIN Kids
    BY <1>1 DEF Searching
<1>3. Walked /\ Stored /\ i \in Nat \ {0}
    BY <1>2, SearchFacts
<1>4. ListingOf(dirents'[Dir], File)
    BY <1>1, <1>2, <1>3, StoredKept
<1>5. Len(dirents'[Dir]) = Len(Kids[File]) /\ Len(Kids[File]) \in Nat
    BY <1>2, <1>4, TreeFacts DEF ListingOf
<1>6. Kids[File][i] # pathpart[1]
    BY <1>1, <1>3, <1>4, <1>5 DEF ListingOf
<1>7. \A e \in 1..(i - 1) : e <= Len(Kids[File]) => Kids[File][e] # pathpart[1]
    BY <1>2, <1>3, Zenon DEF Walked
<1>8. i' \in Nat \ {0} /\ \A e \in 1..(i' - 1) : e \in 1..(i - 1) \/ e = i
    BY <1>1, <1>3
<1>9. \A e \in 1..(i' - 1) : e <= Len(Kids[File]) => Kids[File][e] # pathpart[1]
    BY <1>6, <1>7, <1>8, Zenon
<1>10. Stored' /\ Walked' /\ Lost'
    BY <1>1, <1>8, <1>9, StayInv
<1>11. Outcomes'
    BY <1>1, <1>2 DEF Outcomes, Inv, Walking
<1> QED BY <1>8, <1>10, <1>11 DEF Inv

\* No entry is left to compare: the path does not exist.
LEMMA MissingInv == ASSUME Inv, Missing PROVE Inv'
<1>1. /\ Searching /\ (Enumerates => heap + Peak <= NPages) /\ Enumerate
      /\ i > Len(dirents'[Dir]) /\ i' = i /\ token' = Token
      /\ UNCHANGED <<path, matched, node, pathpart, opened>> /\ outcome' = "missing"
    BY DEF Missing
<1>2. Walking /\ pathpart # NULL /\ File \in DOMAIN Kids
    BY <1>1 DEF Searching
<1>3. /\ Walked /\ Stored /\ i \in Nat \ {0} /\ File = DirOf(path, matched + 1)
      /\ pathpart[1] = path[matched + 1] /\ matched \in Nat /\ matched < Len(path) /\ Len(path) \in Nat
    BY <1>2, SearchFacts
<1>4. ListingOf(dirents'[Dir], File)
    BY <1>1, <1>2, <1>3, StoredKept
<1>5. Len(dirents'[Dir]) = Len(Kids[File]) /\ Len(Kids[File]) \in Nat /\ DOMAIN Kids[File] = 1..Len(Kids[File])
    BY <1>2, <1>4, TreeFacts DEF ListingOf
<1>6. \A e \in 1..(i - 1) : e <= Len(Kids[File]) => Kids[File][e] # pathpart[1]
    BY <1>2, <1>3, Zenon DEF Walked
<1>7. Stored' /\ Walked' /\ Lost'
    BY <1>1, <1>3, <1>6, StayInv
<1>8. \A e \in 1..Len(Kids[File]) : e \in 1..(i - 1) /\ e <= Len(Kids[File])
    BY <1>1, <1>3, <1>5
<1>9. \A e \in DOMAIN Kids[File] : Kids[File][e] # path[matched + 1]
    BY <1>3, <1>5, <1>6, <1>8, Zenon
<1>10. ~ FoundPart(path, matched + 1)
    BY <1>3, <1>9, Zenon DEF FoundPart
<1>11. matched + 1 \in 1..Len(path)
    BY <1>3
<1>12. ~ Exists(path)
    BY <1>10, <1>11, ExistsParts
<1>13. Outcomes'
    BY <1>1, <1>2, <1>12 DEF Outcomes, Walking, Exists
<1> QED BY <1>1, <1>3, <1>7, <1>13 DEF Inv

\* Entry i is the part: the walk goes on in it.
LEMMA DescendInv == ASSUME Inv, Descend PROVE Inv'
<1>1. /\ Searching /\ (Enumerates => heap + Peak <= NPages) /\ Enumerate
      /\ i <= Len(dirents'[Dir]) /\ dirents'[Dir][i].file = pathpart[1] /\ i' = 1
      /\ node' = <<Dir, i>> /\ matched' = matched + 1 /\ pathpart' = Part(Token) /\ token' = Rest(Token)
      /\ path' = path /\ opened' = opened /\ outcome' = outcome
    BY DEF Descend, First, Matches
<1>2. Walking /\ pathpart # NULL /\ File \in DOMAIN Kids
    BY <1>1 DEF Searching
<1>3. /\ Walked /\ Lost /\ Stored /\ i \in Nat \ {0} /\ File = DirOf(path, matched + 1)
      /\ path \in Paths /\ pathpart[1] = path[matched + 1] /\ matched \in Nat /\ matched < Len(path)
      /\ Len(path) \in Nat /\ \A n \in 1..matched : FoundPart(path, n)
    BY <1>2, SearchFacts
<1>4. i \in 1..Len(dirents'[Dir])
    <2>1. ASSUME NEW own \in [Pages -> Nodes], Owned(own) PROVE ListingOf(dirents'[Dir], File)
        BY <1>1, <1>2, <1>3, <2>1, Enumerated DEF Stored
    <2>2. ListingOf(dirents'[Dir], File)
        BY <2>1, <1>3 DEF Stored
    <2>3. Len(dirents'[Dir]) \in Nat
        BY <2>2, <1>2, TreeFacts DEF ListingOf
    <2> QED BY <2>3, <1>1, <1>3
<1>5. \E e \in 1..Len(dirents'[Dir]) : node' = <<Dir, e>>
    BY <1>1, <1>4, Zenon
<1>6. /\ Stored' /\ ListingOf(dirents'[Dir], File)
      /\ \A e \in 1..Len(dirents'[Dir]) : node' = <<Dir, e>> => File' = dirents'[Dir][e].file
    BY <1>1, <1>2, <1>3, <1>5, StoredKept
<1>7. File' = path[matched + 1]
    BY <1>1, <1>3, <1>4, <1>6, Zenon
<1>8. FoundPart(path, matched + 1)
    <2>1. dirents'[Dir][i].file = Kids[File][i] /\ Len(dirents'[Dir]) = Len(Kids[File])
        BY <1>4, <1>6 DEF ListingOf
    <2>2. i \in DOMAIN Kids[File] /\ Kids[File][i] = path[matched + 1]
        BY <2>1, <1>1, <1>2, <1>3, <1>4, TreeFacts
    <2> QED BY <2>2, <1>2, <1>3, Zenon DEF FoundPart
<1>9. \A n \in 1..matched' : FoundPart(path, n)
    <2>1. \A n \in 1..matched' : n \in 1..matched \/ n = matched + 1
        BY <1>1, <1>3
    <2> QED BY <2>1, <1>3, <1>8, Zenon
<1>10. File' = DirOf(path', matched' + 1)
    <2>1. matched' + 1 # 1 /\ matched' + 1 - 1 = matched + 1
        BY <1>1, <1>3
    <2>2. DirOf(path, matched' + 1) = path[matched + 1]
        <3>1. PICK k \in Nat : k = matched' + 1 /\ k # 1 /\ k - 1 = matched + 1
            BY <2>1, <1>1, <1>3
        <3> QED BY <3>1 DEF DirOf
    <2> QED BY <2>2, <1>1, <1>7, Zenon
<1>11. matched' \in 0..Len(path') /\ matched + 1 \in Nat /\ matched' = matched + 1
    BY <1>1, <1>3
<1>12. ASSUME Token # NULL
       PROVE  /\ matched' < Len(path') /\ pathpart' # NULL /\ pathpart' = <<path'[matched' + 1]>>
              /\ IsRest(token', path', matched' + 1)
              /\ token' = NULL => matched' + 1 = Len(path')
    <2>1. Token = token /\ token # NULL
        BY <1>12 DEF Token, Static
    <2>2. IsRest(token, path, matched + 1)
        BY <2>1, <1>3, Zenon DEF Walked
    <2>3. /\ matched + 1 < Len(path) /\ Part(token) # NULL /\ Part(token) = <<path[(matched + 1) + 1]>>
          /\ IsRest(Rest(token), path, (matched + 1) + 1)
          /\ Rest(token) = NULL => (matched + 1) + 1 = Len(path)
        BY <2>1, <2>2, <1>3, <1>11, NextToken, Zenon
    <2> QED BY <2>1, <2>3, <1>1, Zenon
<1>13. ASSUME Token = NULL PROVE pathpart' = NULL /\ token' = NULL
    BY <1>1, <1>13 DEF Part, Rest
<1>14. Walked'
    <2>1. path' \in Paths /\ \A n \in 1..matched' : FoundPart(path', n)
        BY <1>1, <1>3, <1>9, Zenon
    <2>2. pathpart' # NULL => matched' < Len(path') /\ pathpart' = <<path'[matched' + 1]>>
        BY <1>12, <1>13, Zenon
    <2>3. token' # NULL => pathpart' # NULL /\ IsRest(token', path', matched' + 1)
        BY <1>12, <1>13, Zenon
    <2>4. \A e \in 1..(i' - 1) : FALSE
        BY <1>1
    <2> QED BY <2>1, <2>2, <2>3, <2>4, <1>10, <1>11, Zenon DEF Walked
<1>15. Lost'
    <2>1. CASE Token # NULL
        <3>1. pathpart' # NULL /\ (token' = NULL => matched' + 1 = Len(path')) /\ Len(path') \in Nat
            BY <2>1, <1>12, <1>1, <1>3, Zenon
        <3>2. ~ (token' = NULL /\ matched' + 1 < Len(path'))
            BY <3>1
        <3> QED BY <3>1, <3>2, Zenon DEF Lost
    <2>2. CASE Token = NULL
        <3>1. pathpart' = NULL
            BY <2>2, <1>13
        <3>2. CASE Enumerates
            <4>1. DirOf(path, matched + 1) \in Ext2 /\ matched + 1 \in 1..(matched + 1)
                BY <3>2, <1>3 DEF Enumerates
            <4> QED BY <4>1, <3>1, <1>1, Zenon DEF Lost
        <3>3. CASE ~ Enumerates
            <4>1. token = NULL
                BY <3>3, <2>2 DEF Token
            <4> QED BY <4>1, <3>1, <1>1, <1>2, <1>3, Zenon DEF Lost
        <3> QED BY <3>2, <3>3
    <2> QED BY <2>1, <2>2
<1>16. Outcomes'
    BY <1>1, <1>2 DEF Outcomes, Inv, Walking
<1> QED BY <1>1, <1>6, <1>14, <1>15, <1>16 DEF Inv

\* getnode() returns and open() keeps the node.
LEMMA ReturnInv == ASSUME Inv, Return PROVE Inv'
<1>1. /\ opened' = opened \cup {<<node, File>>} /\ path' = <<>> /\ outcome = "ok"
      /\ UNCHANGED <<dirents, heap, node, i, outcome>>
    BY DEF Return
<1>2. PICK own \in [Pages -> Nodes] : Owned(own)
    BY DEF Inv, Stored
<1>3. Owned(own)'
    BY <1>1, <1>2 DEF Owned
<1>4. \A o \in opened' : Valid(o[1])' /\ Vnode(o[1])'.file = o[2]
    <2>1. \A n : Valid(n)' = Valid(n) /\ Vnode(n)' = Vnode(n)
        BY <1>1 DEF Valid, Vnode
    <2>2. \A o \in opened : Valid(o[1]) /\ Vnode(o[1]).file = o[2]
        BY DEF Inv, Stored
    <2>3. ASSUME NEW o, o = <<node, File>> PROVE Valid(o[1]) /\ Vnode(o[1]).file = o[2]
        <3>1. o[1] = node /\ o[2] = File
            BY <2>3
        <3> QED BY <3>1, Zenon DEF Inv, Stored, File
    <2>4. \A o \in opened' : o \in opened \/ o = <<node, File>>
        BY <1>1
    <2> QED BY <2>1, <2>2, <2>3, <2>4, Zenon
<1>5. heap' \in 0..NPages /\ Valid(node)' /\ i' \in Nat \ {0}
    BY <1>1 DEF Inv, Stored, Valid
<1>6. Outcomes'
    BY <1>1 DEF Outcomes
<1> QED BY <1>1, <1>3, <1>4, <1>5, <1>6 DEF Inv, Stored

LEMMA StutterInv == ASSUME Inv, UNCHANGED vars PROVE Inv'
<1> USE DEF vars
<1>1. PICK own \in [Pages -> Nodes] : Owned(own)
    BY DEF Inv, Stored
<1>2. Owned(own)'
    BY <1>1 DEF Owned
<1>3. Stored'
    BY <1>2 DEF Inv, Stored, Valid, Vnode
<1>4. File' = File
    BY DEF File, Vnode
<1>5. path' # <<>> => Walked' /\ Lost'
    BY <1>4 DEF Inv, Walked, Lost, IsRest
<1> QED BY <1>3, <1>5 DEF Inv, Outcomes, Exists

\* Every step keeps the invariant.
LEMMA NextInv == Inv /\ [Next]_vars => Inv'
<1> SUFFICES ASSUME Inv, [Next]_vars PROVE Inv'
    OBVIOUS
<1>1. ASSUME NEW p \in Paths, Begin(p) PROVE Inv'
    BY <1>1, BeginInv
<1>2. CASE NoPart
    BY <1>2, NoPartInv
<1>3. CASE NotDirectory
    BY <1>3, NotDirectoryInv
<1>4. CASE NoMemory
    BY <1>4, NoMemoryInv
<1>5. CASE Descend
    BY <1>5, DescendInv
<1>6. CASE TryNext
    BY <1>6, TryNextInv
<1>7. CASE Missing
    BY <1>7, MissingInv
<1>8. CASE Return
    BY <1>8, ReturnInv
<1>9. CASE Halted \/ UNCHANGED vars
    BY <1>9, StutterInv DEF Halted
<1> QED BY <1>1, <1>2, <1>3, <1>4, <1>5, <1>6, <1>7, <1>8, <1>9 DEF Next

\* For any tree, any paths and any size of the heap, the walk of getnode() and
\* the pages it reads directories into are related as Inv says.
THEOREM Invariance == Spec => []Inv
<1>1. Init => Inv
    BY InitInv
<1>2. Inv /\ [Next]_vars => Inv'
    BY NextInv
<1> QED BY <1>1, <1>2, PTL DEF Spec

----------------------------------------------------------------------------
(* What getnode() promises *)

\* A lookup that returns has found the file its path names: clearing and
\* reading a directory of the disk between two comparisons never moves the
\* walk to another file.
THEOREM FindsNamedTheorem == Spec => []FindsNamed
<1>1. ASSUME Inv PROVE FindsNamed
    <2> SUFFICES ASSUME path # <<>>, matched = Len(path) PROVE Exists(path) /\ File = path[Len(path)]
        BY DEF FindsNamed
    <2>1. /\ path \in Paths /\ File = DirOf(path, matched + 1)
          /\ \A n \in 1..matched : FoundPart(path, n)
        BY <1>1, Zenon DEF Inv, Walked
    <2>2. Len(path) \in Nat \ {0}
        BY <2>1, WholePath
    <2>3. Exists(path)
        BY <2>1, ExistsParts
    <2>4. Len(path) + 1 # 1 /\ Len(path) + 1 - 1 = Len(path)
        BY <2>2
    <2>5. DirOf(path, Len(path) + 1) = path[Len(path)]
        BY <2>4 DEF DirOf
    <2> QED BY <2>1, <2>3, <2>5, Zenon
<1> QED BY <1>1, Invariance, PTL

\* The node a descriptor points to stays the file it was opened on, however
\* often the directory that holds it is cleared and read again.
THEOREM OpenStaysTheorem == Spec => []OpenStays
<1>1. ASSUME Inv PROVE OpenStays
    <2> SUFFICES ASSUME NEW o \in opened
                 PROVE  IF o[1] = <<>> THEN o[2] = Root
                        ELSE o[1][2] <= Len(dirents[o[1][1]]) /\ Vnode(o[1]).file = o[2]
        BY DEF OpenStays
    <2>1. Valid(o[1]) /\ Vnode(o[1]).file = o[2]
        BY <1>1 DEF Inv, Stored
    <2>2. CASE o[1] = <<>>
        BY <2>1, <2>2 DEF Vnode
    <2>3. ASSUME NEW p \in Pages, NEW e \in 1..Len(dirents[p]), o[1] = <<p, e>>
          PROVE  o[1] # <<>> /\ o[1][2] <= Len(dirents[o[1][1]])
        <3>1. o[1] # <<>> /\ o[1][1] = p /\ o[1][2] = e
            BY <2>3
        <3>2. PICK own : Owned(own)
            BY <1>1 DEF Inv, Stored
        <3>3. e <= Len(dirents[p])
            BY <3>2 DEF Owned
        <3> QED BY <3>1, <3>3
    <2> QED BY <2>1, <2>2, <2>3, Zenon DEF Valid
<1> QED BY <1>1, Invariance, PTL

\* Where no existing path leads through a directory of the disk, a lookup of
\* a file that exists fails only for want of memory. (The hypothesis is what
\* ResolvesPaths is violated without: reading the directory runs strtok() to
\* its end, so a part that follows one on the disk is lost.)
THEOREM ExistingFoundTheorem ==
    ASSUME \A p \in Paths : Exists(p) => \A n \in 1..(Len(p) - 1) : DirOf(p, n) \notin Ext2
    PROVE  Spec => []ExistingFound
<1>1. ASSUME Inv PROVE ExistingFound
    <2> SUFFICES ASSUME outcome \in {"missing", "notdir", "critical"} PROVE ~ Exists(path)
        BY DEF ExistingFound
    <2>1. CASE outcome \in {"missing", "notdir"}
        BY <1>1, <2>1 DEF Inv, Outcomes
    <2>2. CASE outcome = "critical"
        <3>1. path # <<>> /\ pathpart = NULL /\ matched < Len(path)
            BY <1>1, <2>2 DEF Inv, Outcomes
        <3>2. path \in Paths /\ matched \in 0..Len(path) /\ \E n \in 1..matched : DirOf(path, n) \in Ext2
            BY <1>1, <3>1, Zenon DEF Inv, Walked, Lost
        <3>3. Len(path) \in Nat
            BY <3>2, WholePath
        <3>4. 1..matched \subseteq 1..(Len(path) - 1)
            BY <3>1, <3>2, <3>3
        <3> QED BY <3>2, <3>4, Zenon
    <2> QED BY <2>1, <2>2
<1> QED BY <1>1, Invariance, PTL

----------------------------------------------------------------------------
(* FILES *)

Tab == [Fds -> Entry]

\* Every process has a table, and pids do not share one.
Separate ==
    /\ InitProc \in live
    /\ \A p \in live : fd_tables[Pid(p)] \in 1..made
    /\ fd_tables[1] # fd_tables[2]

FilesInv == FilesTypeOK /\ Separate

\* What is in use in a table is the same in another.
KeepsOpen(tab, new) == \A fd \in Fds : tab[fd].mode # 0 => new[fd] = tab[fd]

\* A set of numbers has a least one.
LEMMA LeastNumber ==
    ASSUME NEW T \in SUBSET Nat, T # {}
    PROVE  \E m \in T : \A k \in T : m <= k
<1> DEFINE R == {ss \in Nat \X Nat : ss[1] < ss[2]}
<1>1. IsWellFoundedOn(R, Nat)
    BY NatLessThanWellFounded DEF OpToRel
<1> HIDE DEF R
<1>2. PICK x \in T : \A y \in T : ~ (<<y, x>> \in R)
    BY <1>1, WFMin
<1>3. \A y \in T : ~ (y < x)
    BY <1>2 DEF R
<1> QED BY <1>3

----------------------------------------------------------------------------
(* Tables *)

LEMMA VacantFound ==
    ASSUME NEW tab, Vacant(tab) # {}
    PROVE  FirstVacant(tab) \in Fds /\ FirstVacant(tab) \in Vacant(tab) /\ tab[FirstVacant(tab)].mode = 0
<1>1. Vacant(tab) \in SUBSET Nat /\ Vacant(tab) \in SUBSET Fds
    BY FilesAssumption DEF Vacant, Fds
<1>2. \E m \in Vacant(tab) : \A k \in Vacant(tab) : m <= k
    BY <1>1, LeastNumber
<1>3. FirstVacant(tab) \in Vacant(tab)
    BY <1>2 DEF FirstVacant, Min
<1> QED BY <1>1, <1>3 DEF Vacant

LEMMA EntryFields ==
    ASSUME NEW e \in Entry
    PROVE  e.node \in FileNodes /\ e.mode \in Modes
BY DEF Entry

LEMMA EntryMade ==
    ASSUME NEW n \in FileNodes, NEW m \in Modes
    PROVE  [node |-> n, mode |-> m] \in Entry
BY DEF Entry

LEMMA FreshTab == Empty \in Tab /\ \A fresh \in Stale : fresh \in Tab
<1>1. [node |-> NoFile, mode |-> 0] \in Entry /\ [node |-> NoFile, mode |-> 1] \in Entry
    <2>1. NoFile \in FileNodes /\ 0 \in Modes /\ 1 \in Modes
        BY DEF FileNodes, Modes
    <2> QED BY <2>1, EntryMade
<1> QED BY <1>1 DEF Empty, Stale, Tab

LEMMA OpenedFacts ==
    ASSUME NEW tab \in Tab, Vacant(tab) # {}, NEW n \in FileNodes, NEW m \in Modes
    PROVE  /\ Opened(tab, n, m) \in Tab /\ KeepsOpen(tab, Opened(tab, n, m))
           /\ \A fd \in Fds : fd # FirstVacant(tab) => Opened(tab, n, m)[fd] = tab[fd]
           /\ Opened(tab, n, m)[FirstVacant(tab)].mode = m
           /\ m # 0 => Vacant(Opened(tab, n, m)) = Vacant(tab) \ {FirstVacant(tab)}
<1> DEFINE f == FirstVacant(tab)
           e == [node |-> n, mode |-> m]
<1>1. f \in Fds /\ tab[f].mode = 0
    BY VacantFound
<1>2. e \in Entry /\ e.mode = m
    BY EntryMade
<1>3. Opened(tab, n, m) = [tab EXCEPT ![f] = e]
    BY DEF Opened
<1> HIDE DEF f, e
<1>4. Opened(tab, n, m) \in Tab /\ Opened(tab, n, m)[f] = e
    BY <1>1, <1>2, <1>3 DEF Tab
<1>5. \A fd \in Fds : fd # f => Opened(tab, n, m)[fd] = tab[fd]
    BY <1>1, <1>3 DEF Tab
<1>6. KeepsOpen(tab, Opened(tab, n, m))
    BY <1>1, <1>5 DEF KeepsOpen
<1>7. m # 0 => Vacant(Opened(tab, n, m)) = Vacant(tab) \ {f}
    BY <1>1, <1>2, <1>4, <1>5 DEF Vacant
<1> QED BY <1>2, <1>4, <1>5, <1>6, <1>7 DEF f

LEMMA ClosedFacts ==
    ASSUME NEW tab \in Tab, NEW f \in Fds
    PROVE  /\ Closed(tab, f) \in Tab
           /\ \A fd \in Fds : fd # f => Closed(tab, f)[fd] = tab[fd]
           /\ Closed(tab, f)[f].mode = 0
           /\ Vacant(Closed(tab, f)) = Vacant(tab) \cup {f}
<1>1. Closed(tab, f) = [tab EXCEPT ![f] = [tab[f] EXCEPT !.mode = 0]]
    BY DEF Closed
<1>2. [tab[f] EXCEPT !.mode = 0] \in Entry /\ [tab[f] EXCEPT !.mode = 0].mode = 0
    BY DEF Tab, Entry, Modes
<1>3. /\ Closed(tab, f) \in Tab /\ Closed(tab, f)[f].mode = 0
      /\ \A fd \in Fds : fd # f => Closed(tab, f)[fd] = tab[fd]
    BY <1>1, <1>2 DEF Tab
<1> QED BY <1>3 DEF Vacant

\* The volume opened and closed again leaves everything but a vacant entry.
LEMMA ThroughVolumeFacts ==
    ASSUME NEW tab \in Tab, Vacant(tab) # {}
    PROVE  /\ ThroughVolume(tab) \in Tab /\ KeepsOpen(tab, ThroughVolume(tab))
           /\ Vacant(ThroughVolume(tab)) = Vacant(tab)
<1> DEFINE f == FirstVacant(tab)
           open == Opened(tab, Volume, 1)
<1>1. Volume \in FileNodes /\ 1 \in Modes
    BY FilesAssumption DEF FileNodes, Modes
<1>2. f \in Fds /\ f \in Vacant(tab) /\ tab[f].mode = 0
    BY VacantFound
<1>3. open \in Tab /\ Vacant(open) = Vacant(tab) \ {f} /\ \A fd \in Fds : fd # f => open[fd] = tab[fd]
    BY <1>1, OpenedFacts
<1>4. ThroughVolume(tab) = Closed(open, f)
    BY DEF ThroughVolume
<1> HIDE DEF f, open
<1>5. /\ Closed(open, f) \in Tab /\ Vacant(Closed(open, f)) = Vacant(open) \cup {f}
      /\ \A fd \in Fds : fd # f => Closed(open, f)[fd] = open[fd]
    BY <1>2, <1>3, ClosedFacts
<1>6. KeepsOpen(tab, Closed(open, f))
    BY <1>2, <1>3, <1>5 DEF KeepsOpen
<1> QED BY <1>2, <1>3, <1>4, <1>5, <1>6

\* Where there is room for a file of the disk there are two vacant entries.
LEMMA RoomFacts ==
    ASSUME NEW tab \in Tab, NEW file, Room(tab, file)
    PROVE  Vacant(tab) # {} /\ (file \in DiskFiles => Vacant(tab) \ {FirstVacant(tab)} # {})
<1>1. IsFiniteSet(Vacant(tab))
    <2>1. IsFiniteSet(Fds)
        BY FilesAssumption, FS_Interval DEF Fds
    <2>2. Vacant(tab) \in SUBSET Fds
        BY DEF Vacant
    <2> QED BY <2>1, <2>2, FS_Subset
<1>2. Cardinality(Vacant(tab)) \in Nat
    BY <1>1, FS_CardinalityType
<1>3. Vacant(tab) # {}
    BY <1>1, <1>2, FS_EmptySet DEF Room
<1>4. ASSUME file \in DiskFiles, Vacant(tab) \ {FirstVacant(tab)} = {} PROVE FALSE
    <2>1. Vacant(tab) = {FirstVacant(tab)}
        BY <1>3, <1>4
    <2>2. Cardinality(Vacant(tab)) = 1
        BY <2>1, FS_Singleton
    <2>3. Cardinality(Vacant(tab)) >= 2
        BY <1>4 DEF Room
    <2> QED BY <2>2, <2>3
<1> QED BY <1>3, <1>4

\* Looking up a file opens and closes the volume twice, one within the other.
LEMMA LookedUpFacts ==
    ASSUME NEW tab \in Tab, NEW file, Room(tab, file)
    PROVE  /\ LookedUp(tab, file) \in Tab /\ KeepsOpen(tab, LookedUp(tab, file))
           /\ Vacant(LookedUp(tab, file)) = Vacant(tab)
<1>0. CASE file \notin DiskFiles
    BY <1>0 DEF LookedUp, KeepsOpen
<1>1. CASE file \in DiskFiles
    <2> DEFINE f == FirstVacant(tab)
               outer == Opened(tab, Volume, 1)
               g == FirstVacant(outer)
               inner == Opened(outer, Volume, 1)
               once == Closed(inner, g)
               twice == Closed(once, f)
    <2>1. Volume \in FileNodes /\ 1 \in Modes /\ 1 # 0
        BY FilesAssumption DEF FileNodes, Modes
    <2>2. Vacant(tab) # {} /\ Vacant(tab) \ {f} # {}
        BY <1>1, RoomFacts
    <2>3. f \in Fds /\ f \in Vacant(tab) /\ tab[f].mode = 0
        BY <2>2, VacantFound
    <2>4. outer \in Tab /\ Vacant(outer) = Vacant(tab) \ {f} /\ \A fd \in Fds : fd # f => outer[fd] = tab[fd]
        BY <2>1, <2>2, OpenedFacts
    <2>5. LookedUp(tab, file) = twice
        BY <1>1 DEF LookedUp
    <2> HIDE DEF f, outer
    <2>6. g \in Fds /\ g \in Vacant(outer) /\ outer[g].mode = 0
        BY <2>2, <2>4, VacantFound
    <2>7. inner \in Tab /\ Vacant(inner) = Vacant(outer) \ {g} /\ \A fd \in Fds : fd # g => inner[fd] = outer[fd]
        BY <2>1, <2>2, <2>4, OpenedFacts
    <2> HIDE DEF g, inner
    <2>8. once \in Tab /\ Vacant(once) = Vacant(inner) \cup {g} /\ \A fd \in Fds : fd # g => once[fd] = inner[fd]
        BY <2>6, <2>7, ClosedFacts
    <2> HIDE DEF once
    <2>9. twice \in Tab /\ Vacant(twice) = Vacant(once) \cup {f} /\ \A fd \in Fds : fd # f => twice[fd] = once[fd]
        BY <2>3, <2>8, ClosedFacts
    <2> HIDE DEF twice
    <2>10. g # f /\ tab[g].mode = 0
        BY <2>4, <2>6
    <2>11. KeepsOpen(tab, twice)
        <3> SUFFICES ASSUME NEW fd \in Fds, tab[fd].mode # 0 PROVE twice[fd] = tab[fd]
            BY DEF KeepsOpen
        <3>1. fd # f /\ fd # g
            BY <2>3, <2>10
        <3> QED BY <2>4, <2>7, <2>8, <2>9, <3>1
    <2>12. Vacant(twice) = Vacant(tab)
        BY <2>3, <2>4, <2>6, <2>7, <2>8, <2>9
    <2> QED BY <2>5, <2>9, <2>11, <2>12
<1> QED BY <1>0, <1>1

\* exec() has the binary open only while it reads it.
LEMMA ExecutedFacts ==
    ASSUME NEW tab \in Tab, NEW file \in DiskFiles, Room(tab, file)
    PROVE  Executed(tab, file) \in Tab /\ KeepsOpen(tab, Executed(tab, file))
<1> DEFINE f == FirstVacant(tab)
           found == LookedUp(tab, file)
           open == Opened(found, file, 1)
           read == ThroughVolume(open)
<1>1. file \in FileNodes /\ 1 \in Modes /\ 1 # 0
    BY DEF FileNodes, Modes
<1>2. found \in Tab /\ KeepsOpen(tab, found) /\ Vacant(found) = Vacant(tab)
    BY LookedUpFacts
<1>3. Vacant(tab) # {} /\ Vacant(tab) \ {f} # {}
    BY RoomFacts
<1>4. FirstVacant(found) = f
    BY <1>2 DEF FirstVacant
<1>5. f \in Fds /\ tab[f].mode = 0
    BY <1>3, VacantFound
<1>6. Executed(tab, file) = Closed(read, f)
    BY DEF Executed
<1> HIDE DEF f, found
<1>7. open \in Tab /\ Vacant(open) = Vacant(found) \ {f} /\ \A fd \in Fds : fd # f => open[fd] = found[fd]
    BY <1>1, <1>2, <1>3, <1>4, OpenedFacts
<1> HIDE DEF open
<1>8. read \in Tab /\ KeepsOpen(open, read)
    BY <1>2, <1>3, <1>7, ThroughVolumeFacts
<1> HIDE DEF read
<1>9. Closed(read, f) \in Tab /\ \A fd \in Fds : fd # f => Closed(read, f)[fd] = read[fd]
    BY <1>5, <1>8, ClosedFacts
<1>10. KeepsOpen(tab, Closed(read, f))
    <2> SUFFICES ASSUME NEW fd \in Fds, tab[fd].mode # 0 PROVE Closed(read, f)[fd] = tab[fd]
        BY DEF KeepsOpen
    <2>1. fd # f
        BY <1>5
    <2>2. found[fd] = tab[fd] /\ open[fd] = found[fd]
        BY <1>2, <1>7, <2>1 DEF KeepsOpen
    <2>3. read[fd] = open[fd]
        BY <1>8, <2>2 DEF KeepsOpen
    <2> QED BY <1>9, <2>1, <2>2, <2>3
<1> QED BY <1>6, <1>9, <1>10

----------------------------------------------------------------------------
(* The system calls *)

\* A call that works on the caller's table.
Works(p) ==
    /\ p \in live
    /\ \E tab \in Tab : KeepsOpen(Table(p), tab) /\ Store(p, tab)

LEMMA LiveTable ==
    ASSUME FilesInv, NEW p \in live
    PROVE  Pid(p) \in Pids /\ fd_tables[Pid(p)] \in 1..NTables /\ Table(p) \in Tab
BY FilesAssumption DEF FilesInv, FilesTypeOK, Separate, Pid, Pids, Table, Tab

LEMMA CallKinds ==
    ASSUME FilesInv, FilesNext
    PROVE  \/ \E p \in Procs : Works(p)
           \/ \E p, c \in Procs, fresh \in Stale : Fork(p, c, fresh)
           \/ UNCHANGED <<live, fd_tables, tables, made>> /\ panicked' \in BOOLEAN
<1>1. ASSUME NEW p \in Procs, NEW file \in Devices \cup DiskFiles, NEW mode \in OpenModes, Open(p, file, mode)
      PROVE  Works(p)
    <2>1. p \in live /\ Room(Table(p), file) /\ Store(p, Opened(LookedUp(Table(p), file), file, mode))
        BY <1>1 DEF Open, Runs
    <2> DEFINE found == LookedUp(Table(p), file)
    <2>2. Table(p) \in Tab
        BY <2>1, LiveTable
    <2>3. found \in Tab /\ KeepsOpen(Table(p), found) /\ Vacant(found) = Vacant(Table(p)) /\ Vacant(Table(p)) # {}
        BY <2>1, <2>2, LookedUpFacts, RoomFacts
    <2>4. file \in FileNodes /\ mode \in Modes
        BY FilesAssumption DEF FileNodes, Modes
    <2> HIDE DEF found
    <2>5. Opened(found, file, mode) \in Tab /\ KeepsOpen(found, Opened(found, file, mode))
        BY <2>3, <2>4, OpenedFacts
    <2>6. KeepsOpen(Table(p), Opened(found, file, mode))
        BY <2>3, <2>5 DEF KeepsOpen
    <2> QED BY <2>1, <2>5, <2>6 DEF Works, found
<1>2. ASSUME NEW p \in Procs, NEW fd \in Fds, ReadDisk(p, fd) PROVE Works(p)
    <2>1. p \in live /\ Vacant(Table(p)) # {} /\ Store(p, ThroughVolume(Table(p)))
        BY <1>2 DEF ReadDisk, Runs
    <2>2. ThroughVolume(Table(p)) \in Tab /\ KeepsOpen(Table(p), ThroughVolume(Table(p)))
        BY <2>1, LiveTable, ThroughVolumeFacts
    <2> QED BY <2>1, <2>2 DEF Works
<1>3. ASSUME NEW p \in Procs, NEW file \in DiskFiles, Exec(p, file) PROVE Works(p)
    <2>1. p \in live /\ Room(Table(p), file) /\ Store(p, Executed(Table(p), file))
        BY <1>3 DEF Exec, Runs
    <2>2. Executed(Table(p), file) \in Tab /\ KeepsOpen(Table(p), Executed(Table(p), file))
        BY <2>1, LiveTable, ExecutedFacts
    <2> QED BY <2>1, <2>2 DEF Works
<1>4. ASSUME NEW p \in Procs, NEW x, ReadPanics(p, x) \/ WritePanics(p, x) \/ OpenPanics(p, x)
      PROVE  UNCHANGED <<live, fd_tables, tables, made>> /\ panicked' \in BOOLEAN
    BY <1>4, Zenon DEF ReadPanics, WritePanics, OpenPanics, kpanic
<1>5. FilesHalted => UNCHANGED <<live, fd_tables, tables, made>> /\ panicked' \in BOOLEAN
    BY Zenon DEF FilesHalted, filesVars, FilesInv, FilesTypeOK
<1> QED BY <1>1, <1>2, <1>3, <1>4, <1>5, Zenon DEF FilesNext

LEMMA FilesInitInv == FilesInit => FilesInv
<1> SUFFICES ASSUME FilesInit PROVE FilesInv
    OBVIOUS
<1>1. PICK d \in Devices : tables = [t \in 1..NTables |-> IF t = 1 THEN Opened(Empty, d, 1) ELSE Empty]
    BY DEF FilesInit
<1>2. live = {InitProc} /\ made = 1 /\ fd_tables = [q \in Pids |-> IF q = 1 THEN 1 ELSE 0]
    BY DEF FilesInit
<1>3. panicked \in BOOLEAN
    BY Zenon DEF FilesInit
<1>4. Empty \in Tab
    BY FreshTab
<1>5. Vacant(Empty) # {}
    <2>1. 0 \in Fds
        BY FilesAssumption DEF Fds
    <2> QED BY <2>1 DEF Vacant, Empty
<1>6. d \in FileNodes /\ 1 \in Modes
    BY DEF FileNodes, Modes
<1>7. Opened(Empty, d, 1) \in Tab
    BY <1>4, <1>5, <1>6, OpenedFacts
<1>8. tables \in [1..NTables -> Tab]
    BY <1>1, <1>4, <1>7
<1>9. /\ fd_tables \in [Pids -> 0..made] /\ made \in 0..NTables /\ live \in SUBSET Procs
      /\ fd_tables[1] = 1 /\ fd_tables[2] = 0
    BY <1>2, FilesAssumption DEF Pids
<1>10. FilesTypeOK
    BY <1>3, <1>8, <1>9 DEF FilesTypeOK, Tab
<1>11. Separate
    BY <1>2, <1>9 DEF Separate, Pid
<1> QED BY <1>10, <1>11 DEF FilesInv

\* What a call on the caller's table does to all tables.
LEMMA WorksFacts ==
    ASSUME FilesInv, NEW p \in Procs, Works(p)
    PROVE  /\ UNCHANGED <<live, fd_tables, made, panicked>>
           /\ tables' \in [1..NTables -> Tab]
           /\ \A q \in live : KeepsOpen(Table(q), Table(q)')
<1>1. PICK tab \in Tab : KeepsOpen(Table(p), tab) /\ Store(p, tab)
    BY DEF Works
<1>2. p \in live /\ tables \in [1..NTables -> Tab]
    BY DEF Works, FilesInv, FilesTypeOK, Tab
<1> DEFINE t == fd_tables[Pid(p)]
<1>3. t \in 1..NTables /\ tables' = [tables EXCEPT ![t] = tab] /\ UNCHANGED <<live, fd_tables, made, panicked>>
    BY <1>1, <1>2, LiveTable DEF Store
<1>4. Table(p) = tables[t]
    BY DEF Table
<1> HIDE DEF t
<1>5. tables' \in [1..NTables -> Tab] /\ tables'[t] = tab /\ \A u \in 1..NTables : u # t => tables'[u] = tables[u]
    BY <1>2, <1>3
<1>6. ASSUME NEW q \in live PROVE KeepsOpen(Table(q), Table(q)')
    <2>1. fd_tables[Pid(q)] \in 1..NTables
        BY LiveTable
    <2>2. Table(q)' = tables'[fd_tables[Pid(q)]] /\ Table(q) = tables[fd_tables[Pid(q)]]
        BY <1>3 DEF Table, Pid
    <2> QED BY <1>1, <1>4, <1>5, <2>1, <2>2 DEF KeepsOpen
<1> QED BY <1>3, <1>5, <1>6

\* What fork() does.
LEMMA ForkFacts ==
    ASSUME FilesInv, NEW p \in Procs, NEW c \in Procs, NEW fresh \in Stale, Fork(p, c, fresh)
    PROVE  /\ made' = made + 1 /\ made + 1 \in 1..NTables /\ live' = live \cup {c} /\ p \in live /\ c \notin live
           /\ fd_tables' \in [Pids -> 0..(made + 1)] /\ fd_tables'[1] = fd_tables[1] /\ fd_tables'[2] = made + 1
           /\ tables' \in [1..NTables -> Tab]
           /\ tables'[made + 1] = Source(p, fresh)
           /\ \A u \in 1..made : tables'[u] = tables[u]
           /\ panicked' = panicked
<1>1. /\ p \in live /\ c \in Procs \ live /\ made < NTables /\ live' = live \cup {c}
      /\ fd_tables' = [fd_tables EXCEPT ![2] = made + 1]
      /\ tables' = [tables EXCEPT ![made + 1] = Source(p, fresh)]
      /\ made' = made + 1 /\ panicked' = panicked
    BY DEF Fork, Runs, NewTable
<1>2. /\ fd_tables \in [Pids -> 0..made] /\ tables \in [1..NTables -> Tab] /\ made \in 0..NTables
    BY DEF FilesInv, FilesTypeOK, Tab
<1>3. fresh \in Tab
    BY FreshTab
<1>4. Source(p, fresh) \in Tab
    BY <1>1, <1>3, LiveTable DEF Source
<1>5. made + 1 \in 1..NTables
    BY <1>1, <1>2, FilesAssumption
<1>6. fd_tables' \in [Pids -> 0..(made + 1)] /\ fd_tables'[1] = fd_tables[1] /\ fd_tables'[2] = made + 1
    BY <1>1, <1>2 DEF Pids
<1>7. /\ tables' \in [1..NTables -> Tab] /\ tables'[made + 1] = Source(p, fresh)
    BY <1>1, <1>2, <1>4, <1>5
<1>8. \A u \in 1..made : tables'[u] = tables[u]
    BY <1>1, <1>2, <1>5
<1> QED BY <1>1, <1>5, <1>6, <1>7, <1>8

LEMMA FilesNextInv == FilesInv /\ [FilesNext]_filesVars => FilesInv'
<1> SUFFICES ASSUME FilesInv, [FilesNext]_filesVars PROVE FilesInv'
    OBVIOUS
<1>0. FilesTypeOK /\ Separate
    BY DEF FilesInv
<1>1. ASSUME NEW p \in Procs, Works(p) PROVE FilesInv'
    <2>1. UNCHANGED <<live, fd_tables, made, panicked>> /\ tables' \in [1..NTables -> Tab]
        BY <1>1, WorksFacts
    <2>2. FilesTypeOK'
        BY <1>0, <2>1, Zenon DEF FilesTypeOK, Tab
    <2> QED BY <1>0, <2>1, <2>2 DEF FilesInv, Separate, Pid
<1>2. ASSUME NEW p \in Procs, NEW c \in Procs, NEW fresh \in Stale, Fork(p, c, fresh) PROVE FilesInv'
    <2>1. /\ made' = made + 1 /\ made + 1 \in 1..NTables /\ live' = live \cup {c}
          /\ fd_tables' \in [Pids -> 0..(made + 1)] /\ fd_tables'[1] = fd_tables[1] /\ fd_tables'[2] = made + 1
          /\ tables' \in [1..NTables -> Tab] /\ panicked' = panicked
        BY <1>2, ForkFacts
    <2>2. made \in Nat /\ live \in SUBSET Procs /\ panicked \in BOOLEAN /\ fd_tables[1] \in 1..made
        <3>1. Pid(InitProc) = 1 /\ InitProc \in live
            BY <1>0 DEF Pid, Separate
        <3> QED BY <1>0, <3>1 DEF FilesTypeOK, Separate
    <2>3. made' \in 0..NTables
        BY <2>1, FilesAssumption
    <2>4. FilesTypeOK'
        BY <2>1, <2>2, <2>3, Zenon DEF FilesTypeOK, Tab
    <2>5. \A q \in live' : fd_tables'[Pid(q)] \in 1..made'
        BY <2>1, <2>2 DEF Pid
    <2>6. fd_tables'[1] # fd_tables'[2] /\ InitProc \in live'
        BY <1>0, <2>1, <2>2 DEF Separate
    <2> QED BY <2>4, <2>5, <2>6 DEF FilesInv, Separate, Pid
<1>3. CASE UNCHANGED <<live, fd_tables, tables, made>> /\ panicked' \in BOOLEAN
    <2>1. FilesTypeOK'
        BY <1>0, <1>3, Zenon DEF FilesTypeOK
    <2> QED BY <1>0, <1>3, <2>1 DEF FilesInv, Separate, Pid
<1>4. CASE UNCHANGED filesVars
    <2>1. panicked \in BOOLEAN /\ panicked' = panicked
        BY <1>0, <1>4, Zenon DEF FilesTypeOK, filesVars
    <2> QED BY <1>3, <1>4, <2>1 DEF filesVars
<1> QED BY <1>1, <1>2, <1>3, <1>4, CallKinds

\* Every process has a table and the two pids never share one.
THEOREM FilesInvariance == FilesSpec => []FilesInv
BY FilesInitInv, FilesNextInv, PTL DEF FilesSpec

\* An open descriptor stays on its file, whatever read(), exec() and fork() do
\* with the tables, for any number of processes, entries, files and opens; but
\* a fork() takes away those of the children there are (vfs.c:203-215,
\* ext2.c:27-31, scheduler.c:133-181).
THEOREM DescriptorsKeptTheorem == FilesSpec => DescriptorsKept
<1> DEFINE A == \A q \in live, fd \in Fds :
                    Table(q)[fd].mode # 0 /\ (Pid(q) = 1 \/ live' = live) => (Table(q)[fd])' = Table(q)[fd]
<1>1. FilesInv /\ [FilesNext]_filesVars => [A]_filesVars
    <2> SUFFICES ASSUME FilesInv, FilesNext, NEW q \in live, Pid(q) = 1 \/ live' = live
                 PROVE  KeepsOpen(Table(q), Table(q)')
        BY DEF KeepsOpen, Fds
    <2>1. ASSUME NEW p \in Procs, Works(p) PROVE KeepsOpen(Table(q), Table(q)')
        BY <2>1, WorksFacts
    <2>2. ASSUME NEW p \in Procs, NEW c \in Procs, NEW fresh \in Stale, Fork(p, c, fresh)
          PROVE  KeepsOpen(Table(q), Table(q)')
        <3>1. /\ c \notin live /\ live' = live \cup {c} /\ made + 1 \in 1..NTables
              /\ fd_tables'[1] = fd_tables[1]
              /\ \A u \in 1..made : tables'[u] = tables[u]
            BY <2>2, ForkFacts
        <3>2. Pid(q) = 1
            BY <3>1
        <3>3. fd_tables[1] \in 1..made /\ Table(q) = tables[fd_tables[1]] /\ Table(q)' = tables'[fd_tables'[1]]
            BY <3>2 DEF FilesInv, Separate, Pid, Table
        <3> QED BY <3>1, <3>3 DEF KeepsOpen
    <2>3. CASE UNCHANGED <<live, fd_tables, tables, made>>
        BY <2>3 DEF KeepsOpen, Table, Pid
    <2> QED BY <2>1, <2>2, <2>3, CallKinds
<1> QED BY <1>1, FilesInvariance, PTL DEF FilesSpec, DescriptorsKept
==============================================================================
