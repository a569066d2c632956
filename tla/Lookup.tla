------------------------------- MODULE Lookup -------------------------------
(***************************************************************************)
(* Path lookup of kernel/vfs.c: getnode() walks from the root, one path    *)
(* part at a time, over directories held in memory; before every comparison*)
(* in a directory of the disk, ext2_enum() clears it and reads it anew. The*)
(* parts come from strtok(), whose position is static, and ext2_enum()     *)
(* opens /dev/nvme5 through getnode() itself.                              *)
(*                                                                         *)
(* A file is named by the last part of its path. A page of directory       *)
(* entries is named by the directory when it was made at boot, else by a   *)
(* number; pages of directories are never freed.                           *)
(***************************************************************************)
EXTENDS Integers, Sequences

CONSTANTS
    Kids,       \* Kids[d]: the files in directory d, in their order on disk
    Ext2,       \* directories whose file system has an enumdir function
    Root,
    Names,      \* the names of files, and one that no file has
    Paths,      \* paths that are looked up, as sequences of names
    NPages      \* pages of the kernel heap beyond those taken at boot

Nodes == {Root} \cup UNION {{Kids[d][n] : n \in DOMAIN Kids[d]} : d \in DOMAIN Kids}
NULL == <<>>

ASSUME LookupAssumption == /\ Root \in DOMAIN Kids
                           /\ DOMAIN Kids \subseteq Nodes
                           /\ Ext2 \subseteq DOMAIN Kids
                           /\ Nodes \subseteq Names
                           /\ \A p \in Paths : p \in Seq(Names) /\ p # <<>>
                           /\ NPages \in Nat

\* A directory of the disk has the disk's functions (new_vnode() in ext2.c), and
\* the pages taken at boot are not those of the heap's rest.
ASSUME TreeAssumption == /\ \A d \in DOMAIN Kids : Kids[d] \in Seq(Nodes)
                         /\ \A d \in Ext2 : \A n \in DOMAIN Kids[d] :
                                Kids[d][n] \in DOMAIN Kids => Kids[d][n] \in Ext2
                         /\ \A n \in 1..NPages : n \notin Nodes

VARIABLES
    dirents,    \* dirents[page]: its entries, each with its own dirents page
    heap,       \* pages of the heap that stay allocated
    inodes,     \* pages from get_inode() that nobody freed
    token,      \* strtok's static state: the parts still to come, NULL at the end
    path,       \* getnode's argument, <<>> when no lookup runs
    matched,    \* parts of it in currentpath
    node,       \* currentnode: the page and number of its entry, <<>> for the root
    pathpart,   \* the part to match, as a sequence of one, or NULL
    i,          \* the entry to compare
    opened,     \* nodes that descriptors point to, with the file each was
    outcome     \* "ok", or why the kernel stopped

vars == <<dirents, heap, inodes, token, path, matched, node, pathpart, i, opened, outcome>>

Pages == Nodes \cup (1..NPages)
Entries == [file : Nodes, page : Pages]
Places == {<<>>} \cup (Pages \X Nat)

TypeOK ==
    /\ \A p \in Pages : dirents[p] \in Seq(Entries)
    /\ heap \in 0..NPages
    /\ inodes \in 0..heap
    /\ token \in Seq(Names)
    /\ path \in Paths \cup {<<>>}
    /\ matched \in 0..Len(path)
    /\ node \in Places
    /\ pathpart \in Seq(Names)
    /\ i \in Nat
    /\ opened \subseteq Places \X Nodes
    /\ outcome \in {"ok", "nomem", "critical", "notdir", "missing"}

\* *currentnode
Vnode(n) == IF n = <<>> THEN [file |-> Root, page |-> Root] ELSE dirents[n[1]][n[2]]
File == Vnode(node).file
Dir == Vnode(node).page

AtBoot(d) == [n \in 1..Len(Kids[d]) |-> [file |-> Kids[d][n], page |-> Kids[d][n]]]

\* init_vfs() and mount(): tmpfs and devfs directories are filled at boot, a
\* mounted one when it is first looked into.
Init ==
    /\ dirents = [p \in Pages |-> IF p \in DOMAIN Kids \ Ext2 THEN AtBoot(p) ELSE <<>>]
    /\ heap = 0
    /\ inodes = 0
    /\ token = NULL
    /\ path = <<>>
    /\ matched = 0
    /\ node = <<>>
    /\ pathpart = NULL
    /\ i = 1
    /\ opened = {}
    /\ outcome = "ok"

\* strtok(NULL, "/"): the part that follows, and what is left after it.
Part(t) == IF t = NULL THEN NULL ELSE <<Head(t)>>
Rest(t) == IF t = NULL THEN NULL ELSE Tail(t)

\* getnode(p), up to its loop.
Begin(p) ==
    /\ outcome = "ok" /\ path = <<>>
    /\ path' = p
    /\ matched' = 0
    /\ node' = <<>>
    /\ pathpart' = Part(p)
    /\ token' = Rest(p)
    /\ i' = 1
    /\ UNCHANGED <<dirents, heap, inodes, opened, outcome>>

Walking == outcome = "ok" /\ path # <<>> /\ matched < Len(path)

Stop(why) ==
    /\ outcome' = why
    /\ UNCHANGED <<dirents, heap, inodes, token, path, matched, node, pathpart, i, opened>>

\* kpanic("Critical error in open()"): the path goes on, strtok does not.
NoPart == Walking /\ pathpart = NULL /\ Stop("critical")

\* kpanic("Part of path is not a directory").
NotDirectory == Walking /\ pathpart # NULL /\ File \notin DOMAIN Kids /\ Stop("notdir")

Searching == Walking /\ pathpart # NULL /\ File \in DOMAIN Kids
Enumerates == File \in Ext2

Listing_OnlyWanted ==
    IF \E e \in DOMAIN Kids[File] : Kids[File][e] = pathpart[1]
    THEN <<[file |-> pathpart[1], page |-> heap + 1]>> ELSE <<>>

\* What ext2_enum() fills the cleared directory with: new_vnode() gives every
\* file a fresh page of its own.
Listing == [e \in 1..Len(Kids[File]) |->
    [file |-> Kids[File][e], page |-> heap + e]]

\* Most pages an enumeration holds at a time: two per entry, and those of the
\* directory, of the lookup and of the lookup of the volume.
Peak == 2 * Len(Kids[File]) + 7

\* kpanic("Kernel heap out of memory").
NoMemory == Searching /\ Enumerates /\ heap + Peak > NPages /\ Stop("nomem")

\* ext2_enum() opens the volume: a lookup that runs strtok to its end.
Static(t) == NULL

\* clear dirents; ext2_enum(currentnode). The page of each entry's inode and
\* the page of the directory's block are not freed.
Enumerate ==
    IF Enumerates
    THEN /\ dirents' = [dirents EXCEPT ![Dir] = Listing]
         /\ heap' = heap + 2 * Len(Kids[File]) + 1
         /\ inodes' = inodes + Len(Kids[File])
    ELSE UNCHANGED <<dirents, heap, inodes>>

Token == IF Enumerates THEN Static(token) ELSE token

First_Kept == i

\* i = 0
First == 1

Matches_Inverted(e) == e.file # pathpart[1]

\* strcmp(currentnode->dirents[i].name, pathpart) == 0
Matches(e) == e.file = pathpart[1]

NextEntry_Same == i

\* i++
NextEntry == i + 1

\* One pass of "navigate": entry i is the part looked for.
Descend ==
    /\ Searching
    /\ Enumerates => heap + Peak <= NPages
    /\ Enumerate
    /\ i <= Len(dirents'[Dir])
    /\ Matches(dirents'[Dir][i])
    /\ node' = <<Dir, i>>
    /\ matched' = matched + 1
    /\ pathpart' = Part(Token)
    /\ token' = Rest(Token)
    /\ i' = First
    /\ UNCHANGED <<path, opened, outcome>>

\* It is another entry.
TryNext ==
    /\ Searching
    /\ Enumerates => heap + Peak <= NPages
    /\ Enumerate
    /\ i <= Len(dirents'[Dir])
    /\ ~Matches(dirents'[Dir][i])
    /\ i' = NextEntry
    /\ token' = Token
    /\ UNCHANGED <<path, matched, node, pathpart, opened, outcome>>

\* There is none: "could not find", an endless loop.
Missing ==
    /\ Searching
    /\ Enumerates => heap + Peak <= NPages
    /\ Enumerate
    /\ i > Len(dirents'[Dir])
    /\ outcome' = "missing"
    /\ token' = Token
    /\ UNCHANGED <<path, matched, node, pathpart, i, opened>>

\* currentpath is the path: open() keeps a pointer to the node.
Return ==
    /\ outcome = "ok" /\ path # <<>> /\ matched = Len(path)
    /\ opened' = opened \cup {<<node, File>>}
    /\ path' = <<>>
    /\ matched' = 0
    /\ UNCHANGED <<dirents, heap, inodes, token, node, pathpart, i, outcome>>

Halted == outcome # "ok" /\ UNCHANGED vars

Next ==
    \/ \E p \in Paths : Begin(p)
    \/ NoPart \/ NotDirectory \/ NoMemory
    \/ Descend \/ TryNext \/ Missing
    \/ Return
    \/ Halted

Spec == Init /\ [][Next]_vars
FairSpec == Spec /\ WF_vars(Next)

----------------------------------------------------------------------------
(* Properties *)

\* A path that exists: every part is in the directory the part before names.
Exists(p) == \A n \in 1..Len(p) :
    LET d == IF n = 1 THEN Root ELSE p[n - 1] IN
    d \in DOMAIN Kids /\ \E e \in DOMAIN Kids[d] : Kids[d][e] = p[n]

\* A lookup that returns has found the file the path names, although the
\* directories were rewritten under it on the way.
FindsNamed == path # <<>> /\ matched = Len(path) => Exists(path) /\ File = path[Len(path)]

\* The node an open descriptor points to stays the file it was opened on: a
\* directory read anew has the same file in the same place (vfs.c:95, 213).
OpenStays == \A o \in opened :
    IF o[1] = <<>> THEN o[2] = Root
    ELSE o[1][2] <= Len(dirents[o[1][1]]) /\ Vnode(o[1]).file = o[2]

\* Every lookup ends: with a node, or with the kernel stopped.
LookupEnds == path # <<>> ~> path = <<>> \/ outcome # "ok"

\* A lookup of a file that exists fails only for want of memory (as long as no
\* path leads through a directory of the disk, see ResolvesPaths).
ExistingFound == outcome \in {"missing", "notdir", "critical"} => ~Exists(path)

\* vfs.c:72: getnode() is to "find node corresponding to filepath". It finds
\* every file there is.
ResolvesPaths == outcome = "critical" => ~Exists(path)

\* ext2.c:137: "make sure to kfree the pointer returned by this function".
\* No inode page is left allocated when no lookup runs.
InodesFreed == path = <<>> => inodes = 0
=============================================================================
