------------------------ MODULE AddressSpacesProofs ------------------------
(***************************************************************************)
(* Proofs about AddressSpaces for any number of processes, frames and      *)
(* pages: user mode never has two writers of a frame, page tables are out  *)
(* of its reach, what it writes is seen by descendants only, and a         *)
(* copy-on-write fault changes nothing anybody can see.                    *)
(***************************************************************************)
EXTENDS AddressSpaces, TLAPS

\* A page number is its directory index and its table index.
LEMMA Division ==
    ASSUME NEW n \in Pages
    PROVE  /\ Dir(n) \in Dirs
           /\ Entry(n) \in Entries
           /\ n = PtSize * Dir(n) + Entry(n)
<1>1. /\ n \in Int /\ 0 <= n /\ n < NTables * PtSize
      /\ PtSize \in Int /\ 0 < PtSize /\ NTables \in Int
  BY SpaceAssumption DEF Pages
<1> DEFINE d == n \div PtSize
           i == n % PtSize
<1>2. /\ d \in Int /\ i \in Int /\ 0 <= i /\ i < PtSize
      /\ n = PtSize * d + i
  BY <1>1
<1> HIDE DEF d, i
<1>3. 0 <= d
  BY <1>1, <1>2
<1>4. d < NTables
  BY <1>1, <1>2
<1> QED
  BY <1>1, <1>2, <1>3, <1>4 DEF Dir, Entry, Dirs, Entries, d, i

LEMMA DistinctPages ==
    ASSUME NEW m \in Pages, NEW n \in Pages, Dir(m) = Dir(n), Entry(m) = Entry(n)
    PROVE  m = n
BY Division

----------------------------------------------------------------------------
\* Everything a table or directory entry names is held by somebody, and only
\* tables that are there have write bits.
Held ==
    /\ \A p \in Procs, d \in Dirs : dtab[p][d] # None => dtab[p][d] \in alloc
    /\ \A t \in Frames, i \in Entries : pframe[t][i] # None => pframe[t][i] \in alloc
    /\ \A p \in Procs, d \in Dirs : <<p, d>> \in dwrite => dtab[p][d] # None

\* A page table is writable through at most one directory entry.
TableOwner ==
    \A p, q \in Procs, d, e \in Dirs :
        <<p, d>> \in dwrite /\ <<q, e>> \in dwrite /\ dtab[p][d] = dtab[q][e] => p = q /\ d = e

\* A frame is writable through at most one page table entry.
FrameOwner ==
    \A t, u \in Frames, i, j \in Entries :
        <<t, i>> \in pwrite /\ <<u, j>> \in pwrite /\ pframe[t][i] = pframe[u][j]
        /\ pframe[t][i] # None => t = u /\ i = j

\* No frame is both a page table and an entry of one.
Levels ==
    \A p \in Procs, d \in Dirs, t \in Frames, i \in Entries :
        dtab[p][d] # None => pframe[t][i] # dtab[p][d]

\* Who shares a table that another process can write descends from it.
TablesBelow ==
    \A p, q \in Procs, d, e \in Dirs :
        <<p, d>> \in dwrite /\ dtab[q][e] = dtab[p][d] => q = p \/ p \in ancestors[q]

\* Who sees a frame that another process can write descends from it.
FramesBelow ==
    \A p, q \in Procs, d, e \in Dirs, i, j \in Entries :
        (/\ <<p, d>> \in dwrite
         /\ <<dtab[p][d], i>> \in pwrite
         /\ dtab[q][e] # None
         /\ pframe[dtab[p][d]][i] # None
         /\ pframe[dtab[q][e]][j] = pframe[dtab[p][d]][i]) => q = p \/ p \in ancestors[q]

\* The inductive invariant.
Inv == TypeOK /\ Held /\ TableOwner /\ FrameOwner /\ Levels /\ TablesBelow /\ FramesBelow

\* What the properties say of pages follows from what the invariant says of
\* the entries.
LEMMA InvImplies == Inv => SingleWriter /\ TablesProtected /\ WritesStayBelow
<1> SUFFICES ASSUME Inv PROVE SingleWriter /\ TablesProtected /\ WritesStayBelow
  OBVIOUS
<1>0. live \subseteq Procs /\ \A p \in Procs, d \in Dirs : dtab[p][d] \in Frames \cup {None}
  BY DEF Inv, TypeOK
<1>1. SingleWriter
  <2> SUFFICES ASSUME NEW p \in live, NEW q \in live, NEW m \in Pages, NEW n \in Pages,
                      Writable(p, m), Writable(q, n), FrameOf(p, m) = FrameOf(q, n)
               PROVE  p = q /\ m = n
    BY DEF SingleWriter
  <2>1. Dir(m) \in Dirs /\ Dir(n) \in Dirs /\ Entry(m) \in Entries /\ Entry(n) \in Entries
    BY Division
  <2>2. dtab[p][Dir(m)] = dtab[q][Dir(n)] /\ Entry(m) = Entry(n)
    BY <1>0, <2>1 DEF Inv, FrameOwner, Writable, FrameOf
  <2>3. p = q /\ Dir(m) = Dir(n)
    BY <1>0, <2>1, <2>2 DEF Inv, TableOwner, Writable
  <2> QED
    BY <2>2, <2>3, DistinctPages
<1>2. TablesProtected
  BY <1>0, Division DEF Inv, Levels, TablesProtected, FrameOf
<1>3. WritesStayBelow
  BY <1>0, Division DEF Inv, FramesBelow, WritesStayBelow, Writable, FrameOf
<1> QED
  BY <1>1, <1>2, <1>3

----------------------------------------------------------------------------
LEMMA InitInv == Init => Inv
<1> SUFFICES ASSUME Init PROVE Inv
  OBVIOUS
<1>1. TypeOK
  <2>1. todo \in Seq(Jobs)
    BY DEF Init
  <2> QED
    BY <2>1, SpaceAssumption DEF Init, TypeOK
<1>2. Held /\ TableOwner /\ FrameOwner /\ Levels /\ TablesBelow /\ FramesBelow
  BY SpaceAssumption DEF Init, Held, TableOwner, FrameOwner, Levels, TablesBelow, FramesBelow
<1> QED
  BY <1>1, <1>2 DEF Inv

\* The pages of a system call are pages.
LEMMA RunType ==
    ASSUME NEW job \in {"map", "load"}, NEW n \in Pages, NEW count \in Nat, NEW v \in Values,
           count = 0 \/ n + count - 1 \in Pages
    PROVE  Run(job, n, count, v) \in Seq(Jobs)
<1>1. \A k \in 1..count : n + k - 1 \in Pages
  <2> DEFINE total == NTables * PtSize
  <2>1. total \in Int
    BY SpaceAssumption
  <2> HIDE DEF total
  <2>2. Pages = 0..(total - 1)
    BY DEF Pages, total
  <2> QED
    BY <2>1, <2>2
<1>2. \A k \in 1..count : <<job, n + k - 1, v>> \in Jobs
  BY <1>1 DEF Jobs
<1> QED
  BY <1>2 DEF Run

\* Steps that leave the page tables alone.
LEMMA TablesUntouched ==
    ASSUME Inv, TypeOK', UNCHANGED <<ancestors, tables, alloc>>
    PROVE  Inv'
<1>1. UNCHANGED ancestors /\ UNCHANGED dtab /\ UNCHANGED dwrite /\ UNCHANGED pframe
      /\ UNCHANGED pwrite /\ UNCHANGED alloc
  BY DEF tables
<1>2. Held' /\ Levels'
  BY <1>1 DEF Inv, Held, Levels
<1>3. TableOwner' /\ TablesBelow'
  BY <1>1 DEF Inv, TableOwner, TablesBelow
<1>4. FrameOwner'
  BY <1>1 DEF Inv, FrameOwner
<1>5. FramesBelow'
  BY <1>1 DEF Inv, FramesBelow
<1> QED
  BY <1>2, <1>3, <1>4, <1>5 DEF Inv

\* A page table entry is pointed at a fresh frame and made writable, as mmap()
\* does and the copy-on-write path when the table is the process's own.
LEMMA SetEntry ==
    ASSUME Inv, TypeOK', NEW t \in Frames, NEW i \in Entries, NEW f \in Frames \ alloc,
           pframe' = [pframe EXCEPT ![t][i] = f],
           pwrite' = pwrite \cup {<<t, i>>},
           alloc' = alloc \cup {f},
           UNCHANGED <<ancestors, dtab, dwrite>>
    PROVE  Inv'
<1>0. TypeOK /\ Held /\ TableOwner /\ FrameOwner /\ Levels /\ TablesBelow /\ FramesBelow
  BY DEF Inv
<1>1. /\ pframe'[t][i] = f
      /\ \A u \in Frames, j \in Entries : <<u, j>> # <<t, i>> => pframe'[u][j] = pframe[u][j]
  BY <1>0 DEF TypeOK
<1>2. /\ \A p \in Procs, d \in Dirs : dtab[p][d] # f
      /\ \A u \in Frames, j \in Entries : pframe[u][j] # f
      /\ f # None
  BY <1>0, SpaceAssumption DEF Held
<1>3. \A u \in Frames, j \in Entries : pframe'[u][j] = f => u = t /\ j = i
  BY <1>1, <1>2
<1>4. Held'
  BY <1>0, <1>1 DEF Held
<1>5. TableOwner' /\ TablesBelow'
  BY <1>0 DEF TableOwner, TablesBelow
<1>6. FrameOwner'
  BY <1>0, <1>1, <1>3 DEF FrameOwner
<1>7. Levels'
  BY <1>0, <1>1, <1>2 DEF Levels
<1>8. FramesBelow'
  <2> SUFFICES ASSUME NEW p \in Procs, NEW q \in Procs, NEW d \in Dirs, NEW e \in Dirs,
                      NEW k \in Entries, NEW j \in Entries,
                      <<p, d>> \in dwrite, <<dtab[p][d], k>> \in pwrite', dtab[q][e] # None,
                      pframe'[dtab[p][d]][k] # None,
                      pframe'[dtab[q][e]][j] = pframe'[dtab[p][d]][k]
               PROVE  q = p \/ p \in ancestors[q]
    BY DEF FramesBelow
  <2>1. dtab[p][d] \in Frames /\ dtab[q][e] \in Frames
    BY <1>0 DEF TypeOK, Held
  <2>2. CASE <<dtab[p][d], k>> = <<t, i>>
    <3>1. dtab[q][e] = t
      BY <1>1, <1>3, <2>1, <2>2
    <3> QED
      BY <1>0, <2>2, <3>1 DEF TablesBelow
  <2>3. CASE <<dtab[p][d], k>> # <<t, i>>
    <3>1. pframe'[dtab[p][d]][k] = pframe[dtab[p][d]][k] /\ pframe[dtab[p][d]][k] # f
      BY <1>1, <1>2, <2>1, <2>3
    <3>2. pframe'[dtab[q][e]][j] = pframe[dtab[q][e]][j]
      BY <1>1, <2>1, <3>1
    <3>3. <<dtab[p][d], k>> \in pwrite
      BY <2>3
    <3> QED
      BY <1>0, <3>1, <3>2, <3>3 DEF FramesBelow
  <2> QED
    BY <2>2, <2>3
<1> QED
  BY <1>4, <1>5, <1>6, <1>7, <1>8 DEF Inv

LEMMA CowPageInv ==
    ASSUME Inv, NEW p \in Procs, NEW n \in Pages, NEW f2 \in Frames, CowPage(p, n, f2)
    PROVE  Inv'
<1> DEFINE t == dtab[p][Dir(n)]
<1>1. Dir(n) \in Dirs /\ Entry(n) \in Entries
  BY Division
<1>2. t \in Frames
  BY <1>1 DEF CowPage, FrameOf, Inv, TypeOK
<1>3. FrameOf(p, n) \in Frames
  BY <1>1, <1>2 DEF CowPage, FrameOf, Inv, TypeOK
<1>4. /\ pframe' = [pframe EXCEPT ![t][Entry(n)] = f2]
      /\ pwrite' = pwrite \cup {<<t, Entry(n)>>}
      /\ alloc' = alloc \cup {f2}
      /\ f2 \notin alloc
      /\ mem' = [mem EXCEPT ![f2] = mem[FrameOf(p, n)]]
      /\ cur' = p
      /\ UNCHANGED <<live, ancestors, dtab, dwrite, todo, panicked>>
  BY DEF CowPage, CopyPage, Runs
<1> HIDE DEF t
<1>5. TypeOK'
  BY <1>1, <1>2, <1>3, <1>4 DEF Inv, TypeOK
<1> QED
  BY <1>1, <1>2, <1>4, <1>5, SetEntry

LEMMA MapPageInv ==
    ASSUME Inv, NEW f \in Frames, NEW v \in Values, MapPage(f, v)
    PROVE  Inv'
<1> DEFINE t == dtab[cur][Dir(Page)]
<1>0. Page \in Pages /\ Tail(todo) \in Seq(Jobs)
  <2>1. todo \in Seq(Jobs) /\ todo # <<>>
    BY DEF MapPage, Working, Inv, TypeOK
  <2>2. Head(todo) \in Jobs /\ Tail(todo) \in Seq(Jobs)
    BY <2>1
  <2> QED
    BY <2>2 DEF Page, Jobs
<1>1. Dir(Page) \in Dirs /\ Entry(Page) \in Entries
  BY <1>0, Division
<1>2. t \in Frames
  BY <1>1 DEF MapPage, Inv, TypeOK
<1>3. /\ pframe' = [pframe EXCEPT ![t][Entry(Page)] = f]
      /\ pwrite' = pwrite \cup {<<t, Entry(Page)>>}
      /\ alloc' = alloc \cup {f}
      /\ f \notin alloc
      /\ mem' = [mem EXCEPT ![f] = v]
      /\ todo' = Tail(todo)
      /\ UNCHANGED <<live, ancestors, dtab, dwrite, cur, panicked>>
  BY DEF MapPage
<1> HIDE DEF t
<1>4. TypeOK'
  BY <1>0, <1>1, <1>2, <1>3 DEF Inv, TypeOK
<1> QED
  BY <1>1, <1>2, <1>3, <1>4, SetEntry

\* A directory entry is pointed at a fresh table t2 and made writable. The table
\* is empty, or a copy of the one that was there with all write bits off; the
\* entry in `own', if any, holds a fresh frame and is the only writable one.
NewTable(p, d, t2, own, new) ==
    /\ t2 \in Frames \ alloc
    /\ own \in SUBSET Entries
    /\ \A i, j \in own : i = j
    /\ new \in [Entries -> Frames \cup {None}]
    /\ \A i \in own : new[i] \in Frames \ alloc /\ new[i] # t2 /\ new[i] \in alloc'
    /\ \A i \in Entries \ own : new[i] # None =>
            dtab[p][d] # None /\ new[i] = pframe[dtab[p][d]][i]
    /\ dtab' = [dtab EXCEPT ![p][d] = t2]
    /\ dwrite' = dwrite \cup {<<p, d>>}
    /\ pframe' = [pframe EXCEPT ![t2] = new]
    /\ pwrite' = (pwrite \ {<<t2, i>> : i \in Entries}) \cup {<<t2, i>> : i \in own}
    /\ alloc \cup {t2} \subseteq alloc'
    /\ UNCHANGED ancestors

\* Such a step keeps the invariant.
LEMMA SetTable ==
    ASSUME Inv, TypeOK', NEW p \in Procs, NEW d \in Dirs, NEW t2, NEW own, NEW new,
           NewTable(p, d, t2, own, new)
    PROVE  Inv'
<1> USE DEF NewTable
<1>0. TypeOK /\ Held /\ TableOwner /\ FrameOwner /\ Levels /\ TablesBelow /\ FramesBelow
  BY DEF Inv
<1>1. /\ dtab'[p][d] = t2
      /\ \A q \in Procs, e \in Dirs : <<q, e>> # <<p, d>> => dtab'[q][e] = dtab[q][e]
  BY <1>0 DEF TypeOK
<1>2. /\ \A i \in Entries : pframe'[t2][i] = new[i]
      /\ \A u \in Frames \ {t2}, i \in Entries : pframe'[u][i] = pframe[u][i]
  BY <1>0 DEF TypeOK
<1>3. /\ \A q \in Procs, e \in Dirs : dtab[q][e] # t2 /\ (\A i \in own : dtab[q][e] # new[i])
      /\ \A u \in Frames, j \in Entries : pframe[u][j] # t2 /\ (\A i \in own : pframe[u][j] # new[i])
      /\ t2 # None /\ (\A i \in own : new[i] # None)
  BY <1>0, SpaceAssumption DEF Held
<1>4. /\ \A i \in Entries : <<t2, i>> \in pwrite' <=> i \in own
      /\ \A u \in Frames \ {t2}, i \in Entries : <<u, i>> \in pwrite' <=> <<u, i>> \in pwrite
  OBVIOUS
<1>5. dtab[p][d] # None => dtab[p][d] \in Frames
  BY <1>0 DEF TypeOK
<1>6. \A u \in Frames, i \in Entries :
        \/ pframe'[u][i] = None
        \/ u = t2 /\ i \in own /\ pframe'[u][i] = new[i]
        \/ ~(u = t2 /\ i \in own) /\ \E w \in Frames : pframe'[u][i] = pframe[w][i]
  BY <1>2, <1>5
<1>7. Held'
  <2>1. \A u \in Frames, i \in Entries : pframe'[u][i] # None => pframe'[u][i] \in alloc'
    BY <1>0, <1>6 DEF Held
  <2> QED
    BY <1>0, <1>1, <1>3, <2>1 DEF Held
<1>8. TableOwner'
  BY <1>0, <1>1, <1>3 DEF TableOwner
<1>9. FrameOwner'
  <2> SUFFICES ASSUME NEW u \in Frames, NEW w \in Frames, NEW i \in Entries, NEW j \in Entries,
                      <<u, i>> \in pwrite', <<w, j>> \in pwrite', pframe'[u][i] = pframe'[w][j],
                      pframe'[u][i] # None
               PROVE  u = w /\ i = j
    BY DEF FrameOwner
  <2>1. CASE u = t2 /\ w = t2
    BY <1>4, <2>1
  <2>2. CASE u = t2 /\ w # t2
    BY <1>2, <1>3, <1>4, <2>2
  <2>3. CASE u # t2 /\ w = t2
    BY <1>2, <1>3, <1>4, <2>3
  <2>4. CASE u # t2 /\ w # t2
    BY <1>0, <1>2, <1>4, <2>4 DEF FrameOwner
  <2> QED
    BY <2>1, <2>2, <2>3, <2>4
<1>10. Levels'
  <2> SUFFICES ASSUME NEW q \in Procs, NEW e \in Dirs, NEW u \in Frames, NEW i \in Entries, dtab'[q][e] # None
               PROVE  pframe'[u][i] # dtab'[q][e]
    BY DEF Levels
  <2>1. CASE <<q, e>> = <<p, d>>
    BY <1>1, <1>3, <1>6, <2>1
  <2>2. CASE <<q, e>> # <<p, d>>
    BY <1>0, <1>1, <1>3, <1>6, <2>2 DEF Levels
  <2> QED
    BY <2>1, <2>2
<1>11. TablesBelow'
  BY <1>0, <1>1, <1>3 DEF TablesBelow
<1>12. FramesBelow'
  <2> HIDE DEF NewTable
  <2> SUFFICES ASSUME NEW a \in Procs, NEW q \in Procs, NEW b \in Dirs, NEW e \in Dirs,
                      NEW i \in Entries, NEW j \in Entries,
                      <<a, b>> \in dwrite', <<dtab'[a][b], i>> \in pwrite', dtab'[q][e] # None,
                      pframe'[dtab'[a][b]][i] # None,
                      pframe'[dtab'[q][e]][j] = pframe'[dtab'[a][b]][i]
               PROVE  q = a \/ a \in ancestors'[q]
    BY DEF FramesBelow
  <2> USE DEF NewTable
  <2>0. dtab'[q][e] \in Frames
    BY DEF TypeOK
  <2>1. CASE <<a, b>> = <<p, d>>
    <3>1. dtab'[a][b] = t2 /\ i \in own /\ pframe'[t2][i] = new[i]
      BY <1>1, <1>2, <1>4, <2>1
    <3>2. dtab'[q][e] = t2
      BY <1>3, <1>6, <2>0, <3>1
    <3> QED
      BY <1>1, <1>3, <2>1, <3>2
  <2>2. CASE <<a, b>> # <<p, d>>
    <3>1. <<a, b>> \in dwrite /\ dtab'[a][b] = dtab[a][b] /\ dtab[a][b] \in Frames \ {t2}
      BY <1>0, <1>1, <1>3, <2>2 DEF Held, TypeOK
    <3>2. <<dtab[a][b], i>> \in pwrite /\ pframe'[dtab[a][b]][i] = pframe[dtab[a][b]][i]
      BY <1>2, <1>4, <3>1
    <3>3. CASE <<q, e>> = <<p, d>>
      <4>1. pframe'[dtab'[q][e]][j] = new[j]
        BY <1>1, <1>2, <3>3
      <4>2. j \notin own
        BY <1>3, <3>1, <3>2, <4>1
      <4>3. dtab[q][e] # None /\ pframe[dtab[q][e]][j] = pframe[dtab[a][b]][i]
        BY <3>1, <3>2, <3>3, <4>1, <4>2
      <4> QED
        BY <1>0, <3>1, <3>2, <4>3 DEF FramesBelow
    <3>4. CASE <<q, e>> # <<p, d>>
      <4>1. dtab'[q][e] = dtab[q][e] /\ dtab[q][e] \in Frames \ {t2}
        BY <1>0, <1>1, <1>3, <2>0, <3>4
      <4>2. pframe'[dtab[q][e]][j] = pframe[dtab[q][e]][j]
        BY <1>2, <4>1
      <4> QED
        BY <1>0, <3>1, <3>2, <4>1, <4>2 DEF FramesBelow
    <3> QED
      BY <3>3, <3>4
  <2> QED
    BY <2>1, <2>2
<1> QED
  BY <1>7, <1>8, <1>9, <1>10, <1>11, <1>12 DEF Inv

LEMMA CowTableInv ==
    ASSUME Inv, NEW p \in Procs, NEW n \in Pages, NEW t2 \in Frames, NEW f2 \in Frames,
           CowTable(p, n, t2, f2)
    PROVE  Inv'
<1> DEFINE t == dtab[p][Dir(n)]
           new == [pframe[t] EXCEPT ![Entry(n)] = f2]
           own == {Entry(n)}
<1>1. Dir(n) \in Dirs /\ Entry(n) \in Entries
  BY Division
<1>2. t \in Frames
  BY <1>1 DEF CowTable, FrameOf, Inv, TypeOK
<1>3. FrameOf(p, n) \in Frames
  BY <1>1, <1>2 DEF CowTable, FrameOf, Inv, TypeOK
<1>4. /\ t2 \notin alloc /\ f2 \notin alloc /\ f2 # t2
      /\ dtab' = [dtab EXCEPT ![p][Dir(n)] = t2]
      /\ dwrite' = dwrite \cup {<<p, Dir(n)>>}
      /\ pframe' = [pframe EXCEPT ![t2] = new]
      /\ pwrite' = (pwrite \ {<<t2, i>> : i \in Entries}) \cup {<<t2, Entry(n)>>}
      /\ alloc' = alloc \cup {t2, f2}
      /\ mem' = [mem EXCEPT ![f2] = mem[FrameOf(p, n)]]
      /\ cur' = p
      /\ UNCHANGED <<live, ancestors, todo, panicked>>
  BY DEF CowTable, SplitDirs, SplitWrites, CopyPage, Runs
<1>5. /\ new \in [Entries -> Frames \cup {None}]
      /\ new[Entry(n)] = f2
      /\ \A i \in Entries \ own : new[i] = pframe[t][i]
  BY <1>1, <1>2 DEF Inv, TypeOK
<1>6. t # None
  BY <1>2, SpaceAssumption
<1> HIDE DEF t, new
<1>7. TypeOK'
  BY <1>1, <1>3, <1>4, <1>5 DEF Inv, TypeOK
<1>8. pwrite' = (pwrite \ {<<t2, i>> : i \in Entries}) \cup {<<t2, i>> : i \in own}
  BY <1>4
<1>9. \A i \in Entries \ own : new[i] # None =>
        dtab[p][Dir(n)] # None /\ new[i] = pframe[dtab[p][Dir(n)]][i]
  BY <1>5, <1>6 DEF t
<1>10. /\ own \in SUBSET Entries /\ (\A i, j \in own : i = j) /\ alloc \cup {t2} \subseteq alloc'
       /\ \A i \in own : new[i] \in Frames \ alloc /\ new[i] # t2 /\ new[i] \in alloc'
  BY <1>1, <1>4, <1>5
<1> HIDE DEF own
<1>11. NewTable(p, Dir(n), t2, own, new)
  BY <1>4, <1>5, <1>8, <1>9, <1>10 DEF NewTable
<1> QED
  BY <1>1, <1>7, <1>11, SetTable

LEMMA MapTableInv ==
    ASSUME Inv, NEW t \in Frames, MapTable(t)
    PROVE  Inv'
<1> DEFINE new == [i \in Entries |-> None]
<1>0. Page \in Pages
  <2>1. todo \in Seq(Jobs) /\ todo # <<>>
    BY DEF MapTable, Working, Inv, TypeOK
  <2>2. Head(todo) \in Jobs
    BY <2>1
  <2> QED
    BY <2>2 DEF Page, Jobs
<1>1. Dir(Page) \in Dirs /\ cur \in Procs
  BY <1>0, Division DEF Inv, TypeOK
<1>2. /\ t \notin alloc
      /\ dtab' = [dtab EXCEPT ![cur][Dir(Page)] = t]
      /\ dwrite' = dwrite \cup {<<cur, Dir(Page)>>}
      /\ pframe' = [pframe EXCEPT ![t] = new]
      /\ pwrite' = pwrite \ {<<t, i>> : i \in Entries}
      /\ alloc' = alloc \cup {t}
      /\ UNCHANGED <<live, ancestors, mem, cur, todo, panicked>>
  BY DEF MapTable
<1>3. new \in [Entries -> Frames \cup {None}] /\ \A i \in Entries : new[i] = None
  OBVIOUS
<1> HIDE DEF new
<1>4. TypeOK'
  BY <1>1, <1>2, <1>3 DEF Inv, TypeOK
<1> DEFINE own == {}
<1>5. /\ pwrite' = (pwrite \ {<<t, i>> : i \in Entries}) \cup {<<t, i>> : i \in own}
      /\ own \in SUBSET Entries /\ (\A i, j \in own : i = j)
      /\ \A i \in own : new[i] \in Frames \ alloc /\ new[i] # t /\ new[i] \in alloc'
  BY <1>2
<1>6. \A i \in Entries \ own : new[i] # None =>
        dtab[cur][Dir(Page)] # None /\ new[i] = pframe[dtab[cur][Dir(Page)]][i]
  BY <1>3
<1>7. t \in Frames \ alloc /\ alloc \cup {t} \subseteq alloc' /\ UNCHANGED ancestors
  BY <1>2
<1> HIDE DEF own
<1>8. NewTable(cur, Dir(Page), t, own, new)
  BY <1>2, <1>3, <1>5, <1>6, <1>7 DEF NewTable
<1> QED
  BY <1>1, <1>4, <1>8, SetTable

LEMMA ForkInv ==
    ASSUME Inv, NEW p \in Procs, NEW c \in Procs, Fork(p, c)
    PROVE  Inv'
<1>0. TypeOK /\ Held /\ TableOwner /\ FrameOwner /\ Levels /\ TablesBelow /\ FramesBelow
  BY DEF Inv
<1>1. /\ c # p
      /\ live' = live \cup {c}
      /\ ancestors' = [ancestors EXCEPT ![c] = ancestors[p] \cup {p}]
      /\ dtab' = [dtab EXCEPT ![c] = dtab[p]]
      /\ dwrite' = dwrite \ {<<c, d>> : d \in Dirs}
      /\ cur' = p
      /\ UNCHANGED <<pframe, pwrite, mem, alloc, todo, panicked>>
  BY DEF Fork, ForkWrites, Runs
<1>2. TypeOK'
  BY <1>0, <1>1 DEF TypeOK
<1>3. /\ \A d \in Dirs : dtab'[c][d] = dtab[p][d] /\ <<c, d>> \notin dwrite'
      /\ \A q \in Procs \ {c}, d \in Dirs : dtab'[q][d] = dtab[q][d]
      /\ \A q \in Procs, d \in Dirs : <<q, d>> \in dwrite' => <<q, d>> \in dwrite /\ q # c
      /\ \A q \in Procs \ {c} : ancestors'[q] = ancestors[q]
      /\ ancestors'[c] = ancestors[p] \cup {p}
  BY <1>0, <1>1 DEF TypeOK
<1>4. Held' /\ TableOwner' /\ FrameOwner' /\ Levels'
  BY <1>0, <1>1, <1>3 DEF Held, TableOwner, FrameOwner, Levels
<1>5. TablesBelow'
  <2> SUFFICES ASSUME NEW a \in Procs, NEW q \in Procs, NEW b \in Dirs, NEW e \in Dirs,
                      <<a, b>> \in dwrite', dtab'[q][e] = dtab'[a][b]
               PROVE  q = a \/ a \in ancestors'[q]
    BY DEF TablesBelow
  <2>1. <<a, b>> \in dwrite /\ a # c /\ dtab'[a][b] = dtab[a][b]
    BY <1>3
  <2>2. CASE q = c
    <3>1. dtab[p][e] = dtab[a][b]
      BY <1>3, <2>1, <2>2
    <3>2. p = a \/ a \in ancestors[p]
      BY <1>0, <2>1, <3>1 DEF TablesBelow
    <3> QED
      BY <1>3, <2>2, <3>2
  <2>3. CASE q # c
    BY <1>0, <1>3, <2>1, <2>3 DEF TablesBelow
  <2> QED
    BY <2>2, <2>3
<1>6. FramesBelow'
  <2> SUFFICES ASSUME NEW a \in Procs, NEW q \in Procs, NEW b \in Dirs, NEW e \in Dirs,
                      NEW i \in Entries, NEW j \in Entries,
                      <<a, b>> \in dwrite', <<dtab'[a][b], i>> \in pwrite, dtab'[q][e] # None,
                      pframe[dtab'[a][b]][i] # None,
                      pframe[dtab'[q][e]][j] = pframe[dtab'[a][b]][i]
               PROVE  q = a \/ a \in ancestors'[q]
    BY <1>1 DEF FramesBelow
  <2>1. <<a, b>> \in dwrite /\ a # c /\ dtab'[a][b] = dtab[a][b]
    BY <1>3
  <2>2. CASE q = c
    <3>1. dtab'[q][e] = dtab[p][e]
      BY <1>3, <2>2
    <3>2. dtab[p][e] # None /\ pframe[dtab[p][e]][j] = pframe[dtab[a][b]][i]
      BY <2>1, <3>1
    <3>3. p = a \/ a \in ancestors[p]
      BY <1>0, <2>1, <3>2 DEF FramesBelow
    <3> QED
      BY <1>3, <2>2, <3>3
  <2>3. CASE q # c
    BY <1>0, <1>3, <2>1, <2>3 DEF FramesBelow
  <2> QED
    BY <2>2, <2>3
<1> QED
  BY <1>2, <1>4, <1>5, <1>6 DEF Inv

LEMMA ExecInv ==
    ASSUME Inv, NEW p \in Procs, NEW count \in 0..CodePages, NEW v \in Values, Exec(p, count, v)
    PROVE  Inv'
<1>0. TypeOK /\ Held /\ TableOwner /\ FrameOwner /\ Levels /\ TablesBelow /\ FramesBelow
  BY DEF Inv
<1>1. /\ dtab' = [dtab EXCEPT ![p] = [d \in Dirs |-> None]]
      /\ dwrite' = dwrite \ {<<p, d>> : d \in Dirs}
      /\ todo' = Run("map", 0, count, Zero) \o Run("map", StackPage, 1, Zero) \o Run("load", 0, count, v)
      /\ cur' = p
      /\ UNCHANGED <<live, ancestors, pframe, pwrite, mem, alloc, panicked>>
  BY DEF Exec, Runs
<1>2. todo' \in Seq(Jobs)
  <2>1. count \in Nat /\ 0 \in Pages /\ (count = 0 \/ 0 + count - 1 \in Pages) /\ StackPage + 1 - 1 \in Pages /\ StackPage \in Pages
    <3> DEFINE total == NTables * PtSize
    <3>1. total \in Int /\ CodePages \in 0..total /\ StackPage \in 0..(total - 1) /\ Pages = 0..(total - 1)
      BY SpaceAssumption DEF Pages
    <3> HIDE DEF total
    <3> QED
      BY <3>1
  <2>2. Run("map", 0, count, Zero) \in Seq(Jobs) /\ Run("load", 0, count, v) \in Seq(Jobs)
    BY <2>1, RunType, SpaceAssumption
  <2>3. Run("map", StackPage, 1, Zero) \in Seq(Jobs)
    BY <2>1, RunType, SpaceAssumption
  <2> QED
    BY <1>1, <2>2, <2>3
<1>3. TypeOK'
  BY <1>0, <1>1, <1>2 DEF TypeOK
<1>4. /\ \A d \in Dirs : dtab'[p][d] = None /\ <<p, d>> \notin dwrite'
      /\ \A q \in Procs \ {p}, d \in Dirs : dtab'[q][d] = dtab[q][d]
      /\ \A q \in Procs, d \in Dirs : <<q, d>> \in dwrite' => <<q, d>> \in dwrite /\ q # p
  BY <1>0, <1>1 DEF TypeOK
<1>5. Held' /\ TableOwner' /\ FrameOwner' /\ Levels'
  BY <1>0, <1>1, <1>4 DEF Held, TableOwner, FrameOwner, Levels
<1>6. TablesBelow' /\ FramesBelow'
  BY <1>0, <1>1, <1>4 DEF Held, TablesBelow, FramesBelow
<1> QED
  BY <1>3, <1>5, <1>6 DEF Inv

LEMMA NextInv == Inv /\ [Next]_vars => Inv'
<1> SUFFICES ASSUME Inv, [Next]_vars PROVE Inv'
  OBVIOUS
<1>0. TypeOK
  BY DEF Inv
<1>1. ASSUME NEW p \in Procs, NEW n \in Pages, NEW v \in Values, UserWrite(p, n, v) PROVE Inv'
  <2>1. FrameOf(p, n) \in Frames
    BY <1>0, <1>1, Division DEF UserWrite, Writable, FrameOf, TypeOK
  <2>2. TypeOK'
    BY <1>0, <1>1, <2>1 DEF UserWrite, Runs, TypeOK, tables
  <2> QED
    BY <1>1, <2>2, TablesUntouched DEF UserWrite
<1>2. ASSUME NEW p \in Procs, NEW n \in Pages, BadAccess(p, n) \/ CowPanics(p, n) PROVE Inv'
  <2>1. kpanic /\ cur' = p
    BY <1>2 DEF BadAccess, CowPanics, Runs
  <2>2. TypeOK'
    BY <1>0, <2>1 DEF kpanic, TypeOK, tables
  <2> QED
    BY <2>1, <2>2, TablesUntouched DEF kpanic
<1>3. ASSUME NEW p \in Procs, NEW n \in Pages, NEW count \in 1..(NTables * PtSize), Mmap(p, n, count)
      PROVE  Inv'
  <2>1. count \in Nat
    BY SpaceAssumption
  <2>2. todo' \in Seq(Jobs)
    BY <1>3, <2>1, RunType, SpaceAssumption DEF Mmap
  <2>3. TypeOK'
    BY <1>0, <1>3, <2>2 DEF Mmap, Runs, TypeOK, tables
  <2> QED
    BY <1>3, <2>3, TablesUntouched DEF Mmap
<1>4. ASSUME NEW p \in Procs, NEW n \in Pages, NEW v \in Values, ReadInto(p, n, v) PROVE Inv'
  <2>1. n + 1 - 1 \in Pages
    BY SpaceAssumption DEF Pages
  <2>2. todo' \in Seq(Jobs)
    BY <1>4, <2>1, RunType DEF ReadInto
  <2>3. TypeOK'
    BY <1>0, <1>4, <2>2 DEF ReadInto, Runs, TypeOK, tables
  <2> QED
    BY <1>4, <2>3, TablesUntouched DEF ReadInto
<1>5. CASE Cow
  BY <1>5, CowPageInv, CowTableInv DEF Cow
<1>6. ASSUME NEW p \in Procs, NEW c \in Procs, Fork(p, c) PROVE Inv'
  BY <1>6, ForkInv
<1>7. ASSUME NEW p \in Procs, NEW count \in 0..CodePages, NEW v \in Values, Exec(p, count, v) PROVE Inv'
  BY <1>7, ExecInv
<1>8. ASSUME NEW f \in Frames, NEW v \in Values, MapPage(f, v) PROVE Inv'
  BY <1>8, MapPageInv
<1>9. ASSUME NEW t \in Frames, MapTable(t) PROVE Inv'
  BY <1>9, MapTableInv
<1>10. CASE MapPanics \/ LoadPanics
  <2>1. kpanic /\ UNCHANGED cur
    BY <1>10 DEF MapPanics, LoadPanics
  <2>2. TypeOK'
    BY <1>0, <2>1 DEF kpanic, TypeOK, tables
  <2> QED
    BY <2>1, <2>2, TablesUntouched DEF kpanic
<1>11. CASE LoadPage
  <2>1. todo \in Seq(Jobs) /\ todo # <<>>
    BY <1>0, <1>11 DEF LoadPage, Working, TypeOK
  <2>2. Head(todo) \in Jobs /\ Tail(todo) \in Seq(Jobs)
    BY <2>1
  <2>3. Page \in Pages /\ Head(todo)[3] \in Values
    BY <2>2 DEF Page, Jobs
  <2>4. FrameOf(cur, Page) \in Frames
    BY <1>0, <1>11, <2>3, Division DEF LoadPage, FrameOf, TypeOK
  <2>5. TypeOK'
    BY <1>0, <1>11, <2>2, <2>3, <2>4 DEF LoadPage, TypeOK, tables
  <2> QED
    BY <1>11, <2>5, TablesUntouched DEF LoadPage
<1>12. CASE UNCHANGED vars
  <2>1. TypeOK'
    BY <1>0, <1>12 DEF vars, TypeOK, tables
  <2> QED
    BY <1>12, <2>1, TablesUntouched DEF vars
<1>13. CASE LoadStrays
  <2>1. todo \in Seq(Jobs) /\ todo # <<>>
    BY <1>0, <1>13 DEF LoadStrays, Working, TypeOK
  <2>2. Tail(todo) \in Seq(Jobs)
    BY <2>1
  <2>3. TypeOK'
    BY <1>0, <1>13, <2>2 DEF LoadStrays, TypeOK, tables
  <2> QED
    BY <1>13, <2>3, TablesUntouched DEF LoadStrays
<1> QED
  BY <1>1, <1>2, <1>3, <1>4, <1>5, <1>6, <1>7, <1>8, <1>9, <1>10, <1>11, <1>12, <1>13 DEF Next, Halted

\* What a copy-on-write fault does to the contents of a page.
LEMMA CowContent ==
    ASSUME Inv, Cow, NEW q \in Procs, NEW m \in Pages
    PROVE  Content(q, m)' = Content(q, m)
<1> DEFINE u == dtab[q][Dir(m)]
<1>0. Dir(m) \in Dirs /\ Entry(m) \in Entries /\ (u # None => u \in Frames)
  BY Division DEF Inv, TypeOK
<1>h. u # None => pframe[u][Entry(m)] = None \/ pframe[u][Entry(m)] \in alloc \cap Frames
  BY <1>0 DEF Inv, Held, TypeOK
<1>1. ASSUME NEW p \in Procs, NEW n \in Pages, NEW f2 \in Frames, CowPage(p, n, f2)
      PROVE  Content(q, m)' = Content(q, m)
  <2> DEFINE t == dtab[p][Dir(n)]
             g == pframe[t][Entry(n)]
  <2>0. Dir(n) \in Dirs /\ Entry(n) \in Entries /\ t \in Frames /\ t # None /\ g \in Frames /\ g # None /\ f2 \notin alloc
    BY <1>1, Division DEF CowPage, FrameOf, Inv, TypeOK
  <2>1. dtab' = dtab /\ mem' = [mem EXCEPT ![f2] = mem[g]] /\ pframe' = [pframe EXCEPT ![t][Entry(n)] = f2]
    BY <1>1, <2>0 DEF CowPage, CopyPage, FrameOf
  <2>2. CASE u = None
    BY <2>1, <2>2 DEF Content, FrameOf
  <2>3. CASE u = t /\ Entry(m) = Entry(n)
    <3>1. FrameOf(q, m) = g
      BY <2>0, <2>3 DEF FrameOf
    <3>2. FrameOf(q, m)' = f2
      BY <1>0, <2>0, <2>1, <2>3 DEF FrameOf, Inv, TypeOK
    <3>3. mem'[f2] = mem[g] /\ f2 # None
      BY <2>1, SpaceAssumption DEF Inv, TypeOK
    <3> QED
      BY <2>0, <3>1, <3>2, <3>3 DEF Content
  <2>4. CASE u # None /\ ~(u = t /\ Entry(m) = Entry(n))
    <3>1. FrameOf(q, m) = pframe[u][Entry(m)]
      BY <2>4 DEF FrameOf
    <3>2. FrameOf(q, m)' = pframe[u][Entry(m)]
      BY <1>0, <2>0, <2>1, <2>4 DEF FrameOf, Inv, TypeOK
    <3>3. pframe[u][Entry(m)] # None => mem'[pframe[u][Entry(m)]] = mem[pframe[u][Entry(m)]]
      BY <1>h, <2>0, <2>1, <2>4 DEF Inv, TypeOK
    <3> QED
      BY <3>1, <3>2, <3>3 DEF Content
  <2> QED
    BY <2>2, <2>3, <2>4
<1>2. ASSUME NEW p \in Procs, NEW n \in Pages, NEW t2 \in Frames, NEW f2 \in Frames, CowTable(p, n, t2, f2)
      PROVE  Content(q, m)' = Content(q, m)
  <2> DEFINE t == dtab[p][Dir(n)]
             g == pframe[t][Entry(n)]
  <2>0. /\ Dir(n) \in Dirs /\ Entry(n) \in Entries /\ t \in Frames /\ t # None /\ g \in Frames /\ g # None
        /\ f2 \notin alloc /\ t2 \notin alloc /\ t2 # None /\ f2 # None
    BY <1>2, Division, SpaceAssumption DEF CowTable, FrameOf, Inv, TypeOK
  <2>1. /\ dtab' = [dtab EXCEPT ![p][Dir(n)] = t2]
        /\ mem' = [mem EXCEPT ![f2] = mem[g]]
        /\ pframe' = [pframe EXCEPT ![t2] = [pframe[t] EXCEPT ![Entry(n)] = f2]]
    BY <1>2, <2>0 DEF CowTable, CopyPage, SplitDirs, FrameOf
  <2>2. CASE q = p /\ Dir(m) = Dir(n) /\ Entry(m) = Entry(n)
    <3>1. FrameOf(q, m) = g
      BY <2>0, <2>2 DEF FrameOf
    <3>2. FrameOf(q, m)' = f2
      BY <1>0, <2>0, <2>1, <2>2 DEF FrameOf, Inv, TypeOK
    <3>3. mem'[f2] = mem[g]
      BY <2>1 DEF Inv, TypeOK
    <3> QED
      BY <2>0, <3>1, <3>2, <3>3 DEF Content
  <2>3. CASE ~(q = p /\ Dir(m) = Dir(n) /\ Entry(m) = Entry(n))
    <3>1. FrameOf(q, m)' = FrameOf(q, m)
      <4>1. CASE q = p /\ Dir(m) = Dir(n)
        <5>1. dtab'[q][Dir(m)] = t2 /\ dtab[q][Dir(m)] = t
          BY <1>0, <2>0, <2>1, <4>1 DEF Inv, TypeOK
        <5>2. pframe'[t2][Entry(m)] = pframe[t][Entry(m)]
          BY <1>0, <2>0, <2>1, <2>3, <4>1 DEF Inv, TypeOK
        <5> QED
          BY <2>0, <5>1, <5>2 DEF FrameOf
      <4>2. CASE ~(q = p /\ Dir(m) = Dir(n))
        <5>1. dtab'[q][Dir(m)] = u
          BY <1>0, <2>0, <2>1, <4>2 DEF Inv, TypeOK
        <5>2. u # t2
          BY <1>0, <2>0 DEF Inv, Held
        <5>3. u # None => pframe'[u][Entry(m)] = pframe[u][Entry(m)]
          BY <1>0, <2>1, <5>2 DEF Inv, TypeOK
        <5> QED
          BY <5>1, <5>3 DEF FrameOf
      <4> QED
        BY <4>1, <4>2
    <3>2. FrameOf(q, m) # None => mem'[FrameOf(q, m)] = mem[FrameOf(q, m)]
      BY <1>h, <2>0, <2>1 DEF FrameOf, Inv, TypeOK
    <3> QED
      BY <3>1, <3>2 DEF Content
  <2> QED
    BY <2>2, <2>3
<1> QED
  BY <1>1, <1>2 DEF Cow

----------------------------------------------------------------------------
\* The invariant holds in every reachable state of the address spaces.
THEOREM Invariance == Spec => []Inv
BY InitInv, NextInv, PTL DEF Spec

\* No frame has two writers in user mode.
THEOREM SingleWriterTheorem == Spec => []SingleWriter
BY InvImplies, Invariance, PTL

\* No page table can be reached through a user page.
THEOREM TablesProtectedTheorem == Spec => []TablesProtected
BY InvImplies, Invariance, PTL

\* A process never sees what a descendant of it writes in user mode.
THEOREM WritesStayBelowTheorem == Spec => []WritesStayBelow
BY InvImplies, Invariance, PTL

\* Copying on write is invisible.
THEOREM CowTransparentTheorem == Spec => CowTransparent
<1>1. Inv /\ [Next]_vars =>
        [Cow => \A q \in live, n \in Pages : Content(q, n)' = Content(q, n)]_vars
  BY CowContent DEF Inv, TypeOK
<1> QED
  BY <1>1, Invariance, PTL DEF Spec, CowTransparent
=============================================================================
