-------------------------------- MODULE Ext2 --------------------------------
(***************************************************************************)
(* From a name to the bytes of a file: the controller init_pci() and       *)
(* detect_nvme() find (drivers/pci.c), the partition table dev_enum()      *)
(* reads (drivers/filesystems/devfs.c), the superblock and the group       *)
(* descriptors read by ext2_mount(), the inode found by get_inode(), the   *)
(* directory walked by ext2_enum() and the file read by ext2_read()        *)
(* (ext2.c), all through read() of /dev/nvme5 in sectors (kernel/vfs.c).   *)
(*                                                                         *)
(* The kernel does all this with interrupts off, one call after the other. *)
(* A block is what it holds: a superblock, group descriptors, inodes, a    *)
(* directory or a part of a file. A directory is a function from offsets,  *)
(* in words, to the entry whose inode number is stored there. A file is    *)
(* read to the start of a page: the command names no second page, so what  *)
(* exceeds the first does not reach the buffer (Nvme).                     *)
(***************************************************************************)
EXTENDS Integers, Sequences, FiniteSets

CONSTANTS
    BLOCK_FACTOR,   \* sectors of a block (8)
    BlockBytes,     \* bytes of a block and of a page (4096)
    SuperSector,    \* where the superblock is (2)
    HeaderWords,    \* words of a dirent_t (2)
    Volume,         \* the partition that is mounted (5)
    NParts,         \* entries looked at in the partition table (8)
    RootInode,      \* 2
    MaxPci,         \* entries of pci_devices (32)
    MaxEntries,     \* entries a directory of one block has room for (341)
    NodeBytes,      \* bytes of a vnode_t (60)
    NameBytes,      \* bytes of its name (32)
    Images          \* the disks

ASSUME Ext2Assumption ==
    /\ BLOCK_FACTOR \in Nat /\ SuperSector \in Nat /\ SuperSector + 1 < BLOCK_FACTOR
    /\ BlockBytes \in Nat \ {0} /\ HeaderWords \in Nat \ {0}
    /\ NParts \in Nat /\ Volume \in 0..(NParts - 1)
    /\ MaxEntries \in Nat /\ NodeBytes \in Nat /\ NameBytes \in Nat
    /\ \A d \in Images : Cardinality({i \in DOMAIN d.pci : d.pci[i] # "none"}) < MaxPci

----------------------------------------------------------------------------
(* Disks (external): the volumes ext2.c is written for. The tree they were made *)
(* from is part of the image, so that what the code finds can be compared with *)
(* it. An entry has a name and the first NameBytes bytes of it.                *)

PerBlock(sb) == sb.block_size \div sb.inode_size

\* The inode in group g, block b of the group's table, place i.
InodeNumber(sb, g, b, i) == (g - 1) * sb.group_inode_count + b * PerBlock(sb) + i

\* A block has inode n at place i.
HasInode(d, block, i, n) ==
    /\ block \in DOMAIN d.block
    /\ d.block[block][i].size_lo = d.tree[n].size
    /\ d.block[block][i].block_pointer[1] = d.tree[n].at

\* The inode tables.
InodesLaid(d) ==
    LET sb == d.super
        table == d.block[1]
    IN  /\ sb.group_inode_count \in Nat \ {0} /\ PerBlock(sb) \in Nat \ {0}
        /\ 1 \in DOMAIN d.block /\ table \in Seq(Nat \ {0})
        /\ DOMAIN d.tree \subseteq 1..(Len(table) * sb.group_inode_count)
        /\ \A g \in DOMAIN table, b \in 0..sb.group_inode_count, i \in 1..PerBlock(sb) :
              LET n == InodeNumber(sb, g, b, i) IN
              b * PerBlock(sb) + i <= sb.group_inode_count /\ n \in DOMAIN d.tree =>
                  HasInode(d, table[g] + b, i, n)

\* A directory: entries one behind the other, names padded to words, zeros behind
\* the last. A removed entry keeps its place and has inode 0.
DirectoryLaid(d, n) ==
    LET all == d.tree[n].entries
        block == d.block[d.tree[n].at]
    IN  /\ DOMAIN all = 1..Len(all) /\ Len(all) \in 1..MaxEntries /\ all[1].offset = 0
        /\ \A k \in DOMAIN all :
              LET e == all[k] IN
              /\ e.offset \in Nat /\ e.name_length \in Nat /\ e.removed \in BOOLEAN
              /\ e.words \in Nat
              /\ e.name_length <= 4 * (e.words - HeaderWords) /\ 4 * (e.words - HeaderWords) < e.name_length + 4
              /\ IF k = Len(all) THEN block[e.offset + e.words].inode = 0
                                 ELSE all[k + 1].offset = e.offset + e.words
              /\ block[e.offset] = [inode |-> IF e.removed THEN 0 ELSE e.inode, name |-> e.name, cut |-> e.cut,
                                     name_length |-> e.name_length, type |-> e.type]
              /\ ~e.removed => e.inode \in DOMAIN d.tree /\ e.type = d.tree[e.inode].type

\* The disk is on the first of the controllers.
Attached(d) ==
    /\ DOMAIN d.pci \subseteq Nat /\ d.part[Volume].first \in Nat
    /\ d.slot \in DOMAIN d.pci /\ d.pci[d.slot] = "nvme"
    /\ \A i \in DOMAIN d.pci : d.pci[i] = "nvme" => d.slot <= i

\* An ext2 volume with the files and directories of the tree. ext2.c takes it to
\* have blocks of 4096 bytes, and so the group descriptors in block 1. A file
\* that is not empty starts with a block, one that is has no blocks.
Formatted(d) ==
    /\ d.super.block_size = BlockBytes
    /\ DOMAIN d.block \subseteq Nat \ {0}
    /\ InodesLaid(d)
    /\ RootInode \in DOMAIN d.tree /\ d.tree[RootInode].type = "directory"
    /\ \A n \in DOMAIN d.tree :
          LET f == d.tree[n] IN
          \/ f.type = "directory" /\ f.at \in DOMAIN d.block /\ DirectoryLaid(d, n)
          \/ f.type = "file" /\ f.size # 0 /\ f.at \in DOMAIN d.block /\ d.block[f.at] = f.data
          \/ f.type = "file" /\ f.size = 0 /\ f.at = 0

\* A disk with the signature of ext2 is such a volume.
ASSUME ImagesAssumption ==
    \A d \in Images : (\E i \in DOMAIN d.pci : d.pci[i] = "nvme") =>
                          Attached(d) /\ (d.super.ext2_sig => Formatted(d))

----------------------------------------------------------------------------
(* The kernel *)

VARIABLES
    disk,       \* the disk, which nothing writes
    pc,         \* what the kernel has done: "off", "pci", "devices", "mounted";
                \* or "hung", "panic", "overrun"
    pci_devices, \* slots in which a device answered; the code lists them in their order
    nvme,       \* the slot of the controller
    nvme_parts, \* where partitions start
    devs,       \* partitions that have a file in /dev, with their size
    superblock,
    bgd_table,
    nodes,      \* the vnodes below /mnt that are known: name, inode, size, type
    dir,        \* the directory enumerated last, 0 before the first
    loaded      \* what the last read of a file put into the page at buf

device == <<disk, pci_devices, nvme, nvme_parts, devs>>
mounted == <<superblock, bgd_table>>
ext2Vars == <<pc, device, mounted, nodes, dir, loaded>>

Nothing == [inode |-> 0]
NoSuperblock == [group_inode_count |-> 1, inodes_per_block |-> 1]
Parts == 0..(NParts - 1)

Ext2Init ==
    /\ disk \in Images
    /\ pc = "off"
    /\ pci_devices = {} /\ nvme = 0
    /\ nvme_parts = [i \in Parts |-> 0]
    /\ devs = [i \in {} |-> 0]
    /\ superblock = NoSuperblock /\ bgd_table = <<>>
    /\ nodes = <<>> /\ dir = 0 /\ loaded = Nothing

\* init_pci(): the slots of all buses in their order.
InitPci ==
    /\ pc = "off"
    /\ pci_devices' = {i \in DOMAIN disk.pci : disk.pci[i] # "none"}
    /\ pc' = "pci"
    /\ UNCHANGED <<disk, nvme, nvme_parts, devs, mounted, nodes, dir, loaded>>

\* detect_nvme(): the first device of the class, or a panic.
Detected == {i \in pci_devices : disk.pci[i] = "nvme"}

NoNvme ==
    /\ pc = "pci" /\ Detected = {}
    /\ pc' = "panic"
    /\ UNCHANGED <<device, mounted, nodes, dir, loaded>>

\* dev_enum(): a file for every used entry of a GPT, if there is one.
DevEnum ==
    /\ pc = "pci"
    /\ \E i \in Detected : nvme' = i /\ \A j \in Detected : i <= j
    /\ LET used == {i \in Parts : disk.gpt /\ disk.part[i].used} IN
        /\ devs' = [i \in used |-> disk.part[i].last - disk.part[i].first + 1]
        /\ nvme_parts' = [i \in Parts |-> IF i \in used THEN disk.part[i].first ELSE 0]
    /\ pc' = "devices"
    /\ UNCHANGED <<disk, pci_devices, mounted, nodes, dir, loaded>>

----------------------------------------------------------------------------
(* read() of the volume *)

\* read() hangs rather than go beyond the size of the file, if it has one.
Within(sector, count) == devs[Volume] = 0 \/ sector + count <= devs[Volume]

\* dev_read(): positions on the volume are positions on the disk.
OnDisk(sector) == sector + nvme_parts[Volume]

\* What a page holds after a read from a sector of the disk: a block, if the
\* sector is its first (the superblock lies within block 0), else something.
Page(lba) ==
    LET s == lba - disk.part[Volume].first IN
    IF nvme # disk.slot THEN Nothing
    ELSE IF s = SuperSector THEN disk.super
    ELSE IF s % BLOCK_FACTOR = 0 /\ s \div BLOCK_FACTOR \in DOMAIN disk.block
    THEN disk.block[s \div BLOCK_FACTOR]
    ELSE Nothing

\* seek() and read() of one block, as ext2 does it, if read() returns.
Readable(b) == Within(b * BLOCK_FACTOR, BLOCK_FACTOR)
Block(b) == Page(OnDisk(b * BLOCK_FACTOR))

\* ext2_mount(): the superblock has two sectors, and the descriptor table is
\* taken to be in block 1. A volume that is not there hangs getnode(), one
\* without the signature is a panic.
Mount ==
    /\ pc = "devices"
    /\ IF Volume \notin DOMAIN devs \/ ~Within(SuperSector, 2)
       THEN pc' = "hung" /\ UNCHANGED <<mounted, nodes>>
       ELSE IF ~Page(OnDisk(SuperSector)).ext2_sig
       THEN pc' = "panic" /\ UNCHANGED <<mounted, nodes>>
       ELSE IF ~Readable(1)
       THEN pc' = "hung" /\ UNCHANGED <<mounted, nodes>>
       ELSE LET sb == Page(OnDisk(SuperSector)) IN
            /\ superblock' = [group_inode_count |-> sb.group_inode_count,
                              inodes_per_block |-> sb.block_size \div sb.inode_size]
            /\ bgd_table' = Block(1)
            /\ nodes' = <<[name |-> "mnt", inode |-> RootInode, size |-> 0, type |-> "directory"]>>
            /\ pc' = "mounted"
    /\ UNCHANGED <<device, dir, loaded>>

----------------------------------------------------------------------------
(* Inodes and directories *)

\* get_inode(): inodes count from 1; the group's table and the block in it,
\* then the inode in the block.
InodeBlock(n) ==
    LET group == (n - 1) \div superblock.group_inode_count
        index == (n - 1) % superblock.group_inode_count
    IN  bgd_table[group + 1] + index \div superblock.inodes_per_block

get_inode(n) ==
    LET index == (n - 1) % superblock.group_inode_count
    IN  Block(InodeBlock(n))[(index % superblock.inodes_per_block) + 1]

Words_Down(length) == HeaderWords + length \div 4

\* The words of an entry: its name is padded to a multiple of four bytes. The
\* size the entry itself states is not used.
Words(length) == HeaderWords + (length \div 4) + (IF length % 4 = 0 THEN 0 ELSE 1)

\* A pass of the loop over the entries of a directory: it ends at an entry
\* whose inode is 0, and leaves out the directory itself.
Pass(block, own, w) ==
    LET e == block[w.at] IN
    IF e.inode = 0 THEN w
    ELSE [at |-> w.at + Words(e.name_length), list |-> IF e.inode = own THEN w.list ELSE Append(w.list, e)]

\* The loop. A directory of one block has no more than MaxEntries entries.
Walk(block, own) ==
    LET walked[n \in 0..MaxEntries] ==
            IF n = 0 THEN [at |-> 0, list |-> <<>>] ELSE Pass(block, own, walked[n - 1])
    IN  walked[MaxEntries].list

\* What is left of a name in a vnode: strcpy() writes it over the fields behind,
\* and the flags ext2_enum() sets then have a zero in their first byte.
NodeName(e) == IF e.name_length <= NameBytes THEN e.name ELSE e.cut

\* ext2_enum() makes a node of an entry, with the size its inode states.
Node(e) == [name |-> NodeName(e), inode |-> e.inode, size |-> get_inode(e.inode).size_lo, type |-> e.type]

\* How new_vnode() and get_inode() end for entry k of those walked: a node with
\* this name is there already; the node, its name or the zero behind it is not
\* in the page of the directory; the inode is not on the volume.
Entered(entries, k) ==
    LET e == entries[k] IN
    IF \E j \in 1..(k - 1) : NodeName(entries[j]) = e.name THEN "panic"
    ELSE IF k * NodeBytes >= BlockBytes \/ (k - 1) * NodeBytes + e.name_length >= BlockBytes THEN "overrun"
    ELSE IF ~Readable(InodeBlock(e.inode)) THEN "hung"
    ELSE "mounted"

\* getnode() enumerates the mount point on its way and readdir(), which nothing
\* calls yet, any directory: the nodes below it are made anew, up to the first
\* that stops the kernel or is written beyond the page, over whatever is there.
Enum(n) ==
    /\ pc = "mounted"
    /\ nodes[n].type = "directory"
    /\ LET own == nodes[n].inode
           at == get_inode(own).block_pointer[1]
           entries == Walk(Block(at), own)
       IN  IF ~(Readable(InodeBlock(own)) /\ Readable(at))
           THEN pc' = "hung" /\ UNCHANGED <<nodes, dir>>
           ELSE \/ /\ \E k \in DOMAIN entries :
                        /\ Entered(entries, k) # "mounted"
                        /\ \A j \in 1..(k - 1) : Entered(entries, j) = "mounted"
                        /\ pc' = Entered(entries, k)
                   /\ UNCHANGED <<nodes, dir>>
                \/ /\ \A k \in DOMAIN entries : Entered(entries, k) = "mounted"
                   /\ nodes' = [k \in DOMAIN entries |-> Node(entries[k])]
                   /\ dir' = own
                   /\ UNCHANGED pc
    /\ UNCHANGED <<device, mounted, loaded>>

\* Back at the mount point, where every path starts.
AtMountPoint ==
    /\ pc = "mounted"
    /\ dir # 0
    /\ nodes' = <<[name |-> "mnt", inode |-> RootInode, size |-> 0, type |-> "directory"]>>
    /\ dir' = 0
    /\ UNCHANGED <<pc, device, mounted, loaded>>

----------------------------------------------------------------------------
(* Files *)

\* The blocks ext2_read() asks for: count bytes, rounded up.
Blocks(count) == (count \div BlockBytes) + (IF count % BlockBytes = 0 THEN 0 ELSE 1)

FileSector_InBlocks(n) == get_inode(n).block_pointer[1]

\* Where the file starts, and all of it is taken to follow.
FileSector(n) == get_inode(n).block_pointer[1] * BLOCK_FACTOR

\* The two tests of read(), of the file and of the volume behind it, and the one
\* command that reads the blocks as if they were contiguous. Paths that lead
\* deeper than the mount point are not resolved (Lookup).
ReadFile(n, count) ==
    /\ pc = "mounted" /\ dir = RootInode
    /\ nodes[n].type = "file"
    /\ LET sector == FileSector(nodes[n].inode) IN
       IF \/ nodes[n].size # 0 /\ count > nodes[n].size
          \/ ~Readable(InodeBlock(nodes[n].inode))
          \/ ~Within(sector, Blocks(count) * BLOCK_FACTOR)
       THEN pc' = "hung" /\ UNCHANGED loaded
       ELSE /\ loaded' = [inode |-> nodes[n].inode, page |-> Page(OnDisk(sector))]
            /\ UNCHANGED pc
    /\ UNCHANGED <<device, mounted, nodes, dir>>

Ext2Stopped == pc \in {"hung", "panic", "overrun"} /\ UNCHANGED ext2Vars

Ext2Next ==
    \/ InitPci \/ NoNvme \/ DevEnum \/ Mount
    \/ \E n \in DOMAIN nodes : \/ Enum(n)
                               \/ \E over \in {0, 1} : ReadFile(n, nodes[n].size + over)
    \/ AtMountPoint
    \/ Ext2Stopped

Ext2Spec == Ext2Init /\ [][Ext2Next]_ext2Vars

----------------------------------------------------------------------------
(* Properties *)

\* What is in a directory according to the tree the disk was made from: the
\* entries but the directory itself, up to the first that was removed.
Present(d) ==
    LET all == disk.tree[d].entries
    IN  {k \in DOMAIN all : all[k].inode # d /\ \A j \in 1..k : ~all[j].removed}

\* An enumerated directory has exactly the nodes the tree has, in their order,
\* each with the size and the type of the file it names, wherever the inodes lie.
\* Two things are lost: the end of a name of more than 32 bytes, and all that is
\* behind a removed entry, because the walk goes by the lengths of names instead
\* of the sizes the entries state. (A directory whose nodes do not fit a page
\* never counts as enumerated.)
ListsDirectory ==
    dir # 0 =>
        /\ Len(nodes) = Cardinality(Present(dir))
        /\ \A k \in Present(dir) :
              LET e == disk.tree[dir].entries[k]
                  n == Cardinality({j \in Present(dir) : j <= k})
              IN  nodes[n] = [name |-> IF e.name_length <= NameBytes THEN e.name ELSE e.cut, inode |-> e.inode,
                              size |-> disk.tree[e.inode].size, type |-> disk.tree[e.inode].type]

\* A read that returns has put the first page of the file it names into the
\* buffer: partition, group, block and slot are the right ones, also for the
\* first and last inode of a table and of a block. Not so for an empty file: a
\* size of 0 is no limit to read() (vfs.c:251), and block 0 is read.
ReadsFile ==
    loaded # Nothing /\ disk.tree[loaded.inode].size # 0 => loaded.page = disk.tree[loaded.inode].data
=============================================================================
