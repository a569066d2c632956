------------------------------- MODULE MCExt2 -------------------------------
(* Disks of two partitions with a tree of a directory, a subdirectory and two *)
(* files: two groups of three inodes, two to a block, wherever the inodes and  *)
(* the tables lie, with and without a removed entry and an empty file. Names   *)
(* have room for five bytes, and directories for three nodes.                  *)
EXTENDS Ext2

Entry(name, length, offset, words, inode, type, removed) ==
    [name |-> name, cut |-> IF name = "subdir" THEN "subdi" ELSE name, name_length |-> length, offset |-> offset, words |-> words,
     inode |-> inode, type |-> type, removed |-> removed]

\* A file of two blocks, the second wherever; the contents of its first.
File(at) == [type |-> "file", size |-> 2 * BlockBytes - 1, at |-> at,
             entries |-> <<>>, data |-> [file |-> at]]
Empty == [File(0) EXCEPT !.size = 0]
Directory(at, entries) == [type |-> "directory", size |-> BlockBytes, at |-> at,
                           entries |-> entries, data |-> Nothing]

\* The root is inode 2; sub, f and g are the inodes of the others; more is behind
\* the entries of the root.
Tree(sub, f, g, removed, empty, more) == [i \in {2, sub, f, g} |->
    CASE i = 2   -> Directory(7, <<Entry(".", 1, 0, 3, 2, "directory", FALSE),
                                   Entry("..", 2, 3, 3, 2, "directory", FALSE),
                                   Entry("file", 4, 6, 3, f, "file", FALSE),
                                   Entry("a.bin", 5, 9, 4, g, "file", removed),
                                   Entry("subdir", 6, 13, 4, sub, "directory", FALSE)>> \o more)
      [] i = sub -> Directory(8, <<Entry(".", 1, 0, 3, sub, "directory", FALSE),
                                   Entry("..", 2, 3, 3, 2, "directory", FALSE),
                                   Entry("link", 4, 6, 3, f, "file", FALSE)>>)
      [] i = f   -> File(6)
      [] i = g   -> IF empty THEN Empty ELSE File(9)]

\* The entries where they belong, zeros elsewhere.
Laid(entries) ==
    [o \in 0..24 |->
        IF \E k \in DOMAIN entries : entries[k].offset = o
        THEN LET e == entries[CHOOSE k \in DOMAIN entries : entries[k].offset = o]
             IN  [inode |-> IF e.removed THEN 0 ELSE e.inode, name |-> e.name, cut |-> e.cut,
                  name_length |-> e.name_length, type |-> e.type]
        ELSE [inode |-> 0]]

\* The inodes of a group, two to a block.
Unused == [size_lo |-> 0, block_pointer |-> <<0>>]
Record(t, n) == IF n \in DOMAIN t THEN [size_lo |-> t[n].size, block_pointer |-> <<t[n].at>>] ELSE Unused
Disk(t, tables, first, last) ==
    [pci |-> <<"other", "none", "nvme", "nvme">>, slot |-> 3,
     gpt |-> TRUE,
     part |-> [i \in 0..1 |-> IF i = 0 THEN [used |-> TRUE, first |-> 1, last |-> 2]
                              ELSE [used |-> TRUE, first |-> first, last |-> first + last]],
     super |-> [ext2_sig |-> TRUE, group_inode_count |-> 3, block_size |-> BlockBytes, inode_size |-> BlockBytes \div 2],
     tree |-> t,
     block |-> [b \in 1..9 |->
        CASE b = 1 -> tables
          [] b = tables[1] -> <<Record(t, 1), Record(t, 2)>>
          [] b = tables[1] + 1 -> <<Record(t, 3), Unused>>
          [] b = tables[2] -> <<Record(t, 4), Record(t, 5)>>
          [] b = tables[2] + 1 -> <<Record(t, 6), Unused>>
          [] \E i \in DOMAIN t : t[i].at = b ->
                LET x == t[CHOOSE i \in DOMAIN t : t[i].at = b]
                IN  IF x.type = "directory" THEN Laid(x.entries) ELSE x.data
          [] OTHER -> Nothing]]

Whole == {Disk(Tree(x[1], x[2], x[3], removed, empty, <<>>), tables, first, last) :
            x \in {y \in (3..6) \X (3..6) \X (3..6) : y[1] # y[2] /\ y[1] # y[3] /\ y[2] # y[3]},
            removed \in BOOLEAN, empty \in BOOLEAN, tables \in {<<2, 4>>, <<4, 2>>}, first \in {3, 8},
            last \in {10 * BLOCK_FACTOR - 1, 11 * BLOCK_FACTOR - 1}}
One == CHOOSE d \in Whole : TRUE

\* A node too many; a name that is what is left of a longer one.
Crowded == {Disk(Tree(3, 4, 5, FALSE, FALSE, <<Entry(name, 5, 17, 4, 4, "file", FALSE)>>), <<2, 4>>, 3, 11 * BLOCK_FACTOR - 1) :
               name \in {"other", "subdi"}}

\* Volumes that end before their last block.
Short == {[One EXCEPT !.part[1].last = One.part[1].first + n] : n \in 0..(8 * BLOCK_FACTOR)}

MCImages == Whole \cup Crowded \cup Short
            \cup {[One EXCEPT !.pci = <<"other", "none">>], [One EXCEPT !.gpt = FALSE],
                  [One EXCEPT !.part[1].used = FALSE], [One EXCEPT !.super.ext2_sig = FALSE]}
=============================================================================
