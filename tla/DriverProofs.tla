----------------------------- MODULE DriverProofs ----------------------------
(***************************************************************************)
(* Proofs about Nvme for queues of any length and any reads: the polling   *)
(* loop only looks at completion entries that were cleared, and a read     *)
(* whose command is in the queue's page returns its own data. About        *)
(* Console for a screen of any size, any programs and any keys: the screen *)
(* shows the end of what was written and the line being typed. And about   *)
(* Ext2 for any volume it can read: directories are listed and files read  *)
(* as they are.                                                            *)
(***************************************************************************)
EXTENDS Nvme, Console, Ext2, SequenceTheorems, FiniteSetTheorems, WellFoundedInduction, TLAPS

\* What the driver has written to the submission queues.
Submitted ==
    /\ sq_tail[0] <= 3
    /\ \A k \in 0..(sq_tail[0] - 1) : sq[0][k] = Bringup[k + 1]
    /\ \A k \in 0..(sq_tail[1] - 1) : k < PageCmds => sq[1][k] \in ReadCmds

\* The driver looks for the completion of the command it submitted last.
Heads ==
    \A q \in Queues :
        /\ polling = q => sq_tail[q] >= 1
        /\ cq_head[q] = IF polling = q THEN sq_tail[q] - 1 ELSE sq_tail[q]

\* Where that command is: completed, not yet fetched, or in the controller.
Completed(q) == head[q] = sq_tail[q] /\ busy[q] = {} /\ posted[q] = sq_tail[q]
Waiting(q) ==
    /\ polling = q
    /\ posted[q] = sq_tail[q] - 1
    /\ \/ head[q] = sq_tail[q] - 1 /\ busy[q] = {}
       \/ head[q] = sq_tail[q] /\ busy[q] = {sq_tail[q] - 1}

\* Until the last entry of a queue is used, the controller has one command of
\* it at most, posts what the driver looks for, and has then stored the data.
Flow(q) ==
    sq_tail[q] < QL =>
        /\ doorbells[q] = sq_tail[q]
        /\ \A k \in 0..(QL - 1) : cq[q][k] = IF k < posted[q] THEN 1 ELSE 0
        /\ Completed(q) \/ Waiting(q)

Stored ==
    polling = 1 /\ sq_tail[1] <= PageCmds /\ sq_tail[1] < QL /\ Completed(1)
        => destination = LastCommand(1).lba

\* The inductive invariant.
Inv ==
    /\ TypeOK
    /\ Submitted
    /\ Heads
    /\ \A q \in Queues : Flow(q)
    /\ Stored

----------------------------------------------------------------------------
\* Doorbells and the controller's head wrap only at the end of the queue.
LEMMA Wrap ==
    ASSUME NEW n \in Nat \ {0}, NEW x \in Nat
    PROVE  x % n \in 0..(n - 1) /\ (x < n => x % n = x)
OBVIOUS

LEMMA BringupCmds ==
    /\ Len(Bringup) = 3
    /\ \A k \in 1..3 : Bringup[k] \in Commands /\ Bringup[k].op # "read"
BY DEF Bringup, Commands

LEMMA ReadCmd ==
    ASSUME NEW c \in ReadCmds
    PROVE  c \in Commands /\ c.op = "read" /\ c.lba \in Lbas
BY DEF ReadCmds, Commands

LEMMA InitInv == Init => Inv
<1> SUFFICES ASSUME Init PROVE Inv
  OBVIOUS
<1> USE NvmeAssumption DEF Init, Entries, Queues, NoQueue
<1>1. TypeOK
  <2>1. Garbage \in Commands /\ 0 \in 0..QL /\ 0 \in 0..(QL - 1)
    BY DEF Commands
  <2>2. sq_tail \in [Queues -> Entries] /\ cq_head \in [Queues -> Entries] /\ head \in [Queues -> Entries]
        /\ posted \in [Queues -> Entries] /\ doorbells \in [Queues -> 0..(QL - 1)]
    BY <2>1
  <2>3. sq \in [Queues -> [Entries -> Commands]] /\ cq \in [Queues -> [Entries -> {0, 1}]]
    BY <2>1
  <2>4. /\ busy \in [Queues -> SUBSET Entries] /\ polling \in Queues \cup {NoQueue}
        /\ pairs \in SUBSET ({"cq", "sq"} \X Queues) /\ destination \in Lbas \cup {NoData}
    OBVIOUS
  <2>5. stray \in BOOLEAN /\ panicked \in BOOLEAN
    BY Zenon
  <2> QED
    BY <2>2, <2>3, <2>4, <2>5, Zenon DEF TypeOK
<1>2. Submitted /\ Heads /\ Stored
  BY DEF Submitted, Heads, Stored
<1>3. \A q \in Queues : Flow(q)
  <2> SUFFICES ASSUME NEW q \in Queues PROVE Flow(q)
    OBVIOUS
  <2>1. Completed(q) /\ doorbells[q] = sq_tail[q] /\ posted[q] = 0
    BY DEF Completed
  <2>2. \A k \in 0..(QL - 1) : cq[q][k] = 0
    OBVIOUS
  <2>3. \A k \in 0..(QL - 1) : ~ (k < posted[q])
    BY <2>1
  <2> QED
    BY ONLY <2>1, <2>2, <2>3 DEF Flow
<1> QED
  BY <1>1, <1>2, <1>3 DEF Inv

\* setup_queue() and submit(), with the next admin command or with a read.
LEMMA SubmitStep ==
    ASSUME Inv, NEW q \in Queues, NEW c \in Commands, Submit(q, c),
           \/ q = 0 /\ sq_tail[0] < 3 /\ c = Bringup[sq_tail[0] + 1]
           \/ q = 1 /\ c \in ReadCmds
    PROVE  Inv'
<1> USE NvmeAssumption DEF Entries, Queues, NoQueue
<1>0. TypeOK /\ Submitted /\ Heads /\ (\A x \in Queues : Flow(x)) /\ Stored
  BY DEF Inv
<1>1. CASE Full(q)
  <2>1. panicked' = TRUE /\ UNCHANGED <<sq_tail, cq_head, sq, cq, doorbells, polling, head, busy, posted, pairs, destination, stray>>
    BY <1>1 DEF Submit
  <2>2. TypeOK'
    BY <1>0, <2>1 DEF TypeOK
  <2> QED
    BY <1>0, <2>1, <2>2 DEF Inv, Submitted, Heads, Flow, Completed, Waiting, Stored, LastCommand
<1>2. CASE ~ Full(q)
  <2>0. PICK found \in {c, Garbage} : /\ sq_tail[q] < PageCmds => found = c
                                     /\ sq' = [sq EXCEPT ![q][sq_tail[q]] = found]
    BY <1>2 DEF Submit, Found
  <2>1. /\ polling = 2 /\ polling' = q
        /\ found \in Commands
        /\ sq' = [sq EXCEPT ![q][sq_tail[q]] = found]
        /\ sq_tail' = [sq_tail EXCEPT ![q] = @ + 1]
        /\ doorbells' = [doorbells EXCEPT ![q] = (sq_tail[q] + 1) % QL]
        /\ UNCHANGED <<cq_head, cq, head, busy, posted, pairs, destination, stray, panicked>>
    BY <1>2, <2>0 DEF Submit, Doorbell, Commands
  <2>2. sq_tail[q] \in 0..(QL - 1)
    <3>1. sq_tail[q] \in Entries
      BY <1>0 DEF TypeOK
    <3> QED
      BY <1>2, <3>1, SMTT(30) DEF Full, sq_head
  <2>3. (sq_tail[q] + 1) % QL \in 0..(QL - 1) /\ (sq_tail[q] + 1 < QL => (sq_tail[q] + 1) % QL = sq_tail[q] + 1)
    <3>1. QL \in Nat \ {0} /\ sq_tail[q] + 1 \in Nat
      BY <2>2
    <3> QED
      BY <3>1, Wrap, Zenon
  <2> DEFINE d == (sq_tail[q] + 1) % QL
  <2> HIDE DEF d
  <2>4. doorbells' = [doorbells EXCEPT ![q] = d] /\ d \in 0..(QL - 1) /\ (sq_tail[q] + 1 < QL => d = sq_tail[q] + 1)
    BY <2>1, <2>3 DEF d
  <2>5. sq_tail'[q] = sq_tail[q] + 1 /\ \A x \in Queues : x # q => sq_tail'[x] = sq_tail[x]
    BY <1>0, <2>1 DEF TypeOK
  <2>6. sq'[q][sq_tail[q]] = found /\ (\A x \in Queues, k \in Entries : x # q \/ k # sq_tail[q] => sq'[x][k] = sq[x][k])
        /\ sq' \in [Queues -> [Entries -> Commands]]
    BY <1>0, <2>1, <2>2 DEF TypeOK
  <2>7. TypeOK'
    <3>0. sq_tail[q] + 1 \in Entries
      BY <2>2
    <3>1. sq_tail' \in [Queues -> Entries]
      <4>1. sq_tail \in [Queues -> Entries] /\ sq_tail' = [sq_tail EXCEPT ![q] = sq_tail[q] + 1]
        BY <1>0, <2>1 DEF TypeOK
      <4> HIDE DEF Entries, Queues
      <4> QED
        BY <3>0, <4>1
    <3>2. doorbells' \in [Queues -> 0..(QL - 1)]
      BY <1>0, <2>4 DEF TypeOK
    <3>3. polling' \in Queues \cup {NoQueue}
      BY <2>1
    <3> QED
      BY <1>0, <2>1, <2>6, <3>1, <3>2, <3>3, Zenon DEF TypeOK
  <2>8. Submitted'
    <3>1. sq_tail'[0] <= 3
      BY <1>0, <2>5 DEF Submitted, TypeOK
    <3>2. ASSUME NEW k \in 0..(sq_tail'[0] - 1) PROVE sq'[0][k] = Bringup[k + 1]
      <4>0. sq_tail \in [Queues -> Entries] /\ sq_tail' \in [Queues -> Entries]
        BY <1>0, <2>7, Zenon DEF TypeOK
      <4>1. sq_tail[0] \in Entries /\ sq_tail'[0] \in Entries /\ k \in Entries
        BY <4>0
      <4>2. CASE k \in 0..(sq_tail[0] - 1)
        <5>1. q # 0 \/ k # sq_tail[q]
          BY <4>1, <4>2
        <5>2. sq'[0][k] = sq[0][k]
          BY <2>6, <4>1, <5>1
        <5>3. sq[0][k] = Bringup[k + 1]
          BY <1>0, <4>2, Zenon DEF Submitted
        <5> QED
          BY <5>2, <5>3, Zenon
      <4>3. CASE q = 0 /\ k = sq_tail[0]
        <5>1. sq_tail[0] <= 3 /\ sq_tail'[0] <= 3 /\ sq_tail'[0] = sq_tail[0] + 1
          BY <1>0, <2>5, <3>1, <4>3 DEF Submitted
        <5>2. sq_tail[q] < PageCmds
          BY <4>1, <4>3, <5>1
        <5> QED
          BY <2>0, <2>6, <4>3, <5>2
      <4> QED
        BY <2>5, <4>1, <4>2, <4>3
    <3>3. ASSUME NEW k \in 0..(sq_tail'[1] - 1), k < PageCmds PROVE sq'[1][k] \in ReadCmds
      <4>0. sq_tail \in [Queues -> Entries] /\ sq_tail' \in [Queues -> Entries]
        BY <1>0, <2>7, Zenon DEF TypeOK
      <4>1. sq_tail[1] \in Entries /\ sq_tail'[1] \in Entries /\ k \in Entries
        BY <4>0
      <4>2. CASE k \in 0..(sq_tail[1] - 1)
        <5>1. q # 1 \/ k # sq_tail[q]
          BY <4>1, <4>2
        <5>2. sq'[1][k] = sq[1][k]
          BY <2>6, <4>1, <5>1
        <5>3. sq[1][k] \in ReadCmds
          BY <1>0, <3>3, <4>2, Zenon DEF Submitted
        <5> QED
          BY <5>2, <5>3, Zenon
      <4>3. CASE q = 1 /\ k = sq_tail[1]
        <5>1. found = c /\ c \in ReadCmds
          BY <2>0, <3>3, <4>3
        <5> QED
          BY <2>6, <4>3, <5>1
      <4> QED
        BY <2>5, <4>1, <4>2, <4>3
    <3> QED
      BY <3>1, <3>2, <3>3 DEF Submitted
  <2>9. Heads'
    <3>1. /\ \A x \in Queues : cq_head[x] = sq_tail[x]
          /\ \A x \in Queues : sq_tail[x] \in Nat
      BY <1>0, <2>1 DEF Heads, TypeOK
    <3>2. polling' = q /\ cq_head' = cq_head
      BY <2>1
    <3> QED
      BY ONLY <2>5, <3>1, <3>2 DEF Heads
  <2>10. ASSUME NEW x \in Queues PROVE Flow(x)'
    <3>1. CASE x # q
      <4>1. sq_tail'[x] = sq_tail[x] /\ doorbells'[x] = doorbells[x] /\ ~ Waiting(x)
        BY <1>0, <2>1, <2>5, <3>1 DEF TypeOK, Waiting
      <4> QED
        BY <1>0, <2>1, <4>1 DEF Flow, Completed, Waiting
    <3>2. CASE x = q
      <4>1. SUFFICES ASSUME sq_tail[q] + 1 < QL PROVE Flow(q)'
        BY <2>5, <3>2 DEF Flow
      <4>2. doorbells'[q] = sq_tail'[q]
        BY <1>0, <2>4, <2>5, <4>1 DEF TypeOK
      <4>3. Flow(q) /\ sq_tail[q] < QL /\ ~ Waiting(q)
        BY <1>0, <2>1, <2>2, <4>1 DEF Waiting
      <4>4. Completed(q) /\ \A k \in 0..(QL - 1) : cq[q][k] = IF k < posted[q] THEN 1 ELSE 0
        BY <4>3 DEF Flow
      <4>5. Waiting(q)'
        BY <2>1, <2>2, <2>5, <4>4 DEF Waiting, Completed
      <4> QED
        BY <2>1, <4>2, <4>4, <4>5 DEF Flow
    <3> QED
      BY <3>1, <3>2
  <2>11. Stored'
    <3>1. CASE q = 0
      BY <2>1, <3>1 DEF Stored
    <3>2. CASE q = 1
      <4>1. SUFFICES ASSUME sq_tail[1] + 1 < QL, Completed(1)' PROVE FALSE
        BY <2>5, <3>2 DEF Stored
      <4>2. Flow(1) /\ sq_tail[1] < QL /\ ~ Waiting(1)
        BY <1>0, <2>1, <2>2, <3>2, <4>1 DEF Waiting
      <4>3. Completed(1)
        BY <4>2 DEF Flow
      <4> QED
        BY <2>1, <2>2, <2>5, <3>2, <4>1, <4>3 DEF Completed
    <3> QED
      BY <3>1, <3>2
  <2> QED
    BY <2>7, <2>8, <2>9, <2>10, <2>11 DEF Inv
<1> QED
  BY <1>1, <1>2

LEMMA NextInv == Inv /\ [Next]_vars => Inv'
<1> SUFFICES ASSUME Inv, [Next]_vars PROVE Inv'
  OBVIOUS
<1> USE NvmeAssumption DEF Entries, Queues, NoQueue
<1>0. TypeOK /\ Submitted /\ Heads /\ (\A q \in Queues : Flow(q)) /\ Stored
  BY DEF Inv
<1>1. CASE BringUp
  <2>1. sq_tail[0] < 3 /\ Submit(0, Bringup[sq_tail[0] + 1])
    BY <1>1, BringupCmds DEF BringUp
  <2>2. sq_tail[0] + 1 \in 1..3
    BY <1>0, <2>1 DEF TypeOK
  <2>3. Bringup[sq_tail[0] + 1] \in Commands
    BY <2>2, BringupCmds
  <2> QED
    BY <2>1, <2>3, SubmitStep
<1>2. ASSUME NEW lba \in Lbas, NEW n \in Counts, nvme_read(lba, n) PROVE Inv'
  <2> DEFINE c == [op |-> "read", lba |-> lba, n |-> n]
  <2>1. c \in ReadCmds /\ Submit(1, c)
    BY <1>2 DEF nvme_read, ReadCmds
  <2> HIDE DEF c
  <2>2. c \in Commands
    BY <2>1 DEF Commands
  <2> QED
    BY <2>1, <2>2, SubmitStep
<1>3. CASE Poll
  <2>1. /\ polling \in {0, 1} /\ polling' = 2 /\ cq[polling][cq_head[polling]] = 1
        /\ cq_head' = [cq_head EXCEPT ![polling] = @ + 1]
        /\ UNCHANGED <<sq_tail, sq, cq, doorbells, head, busy, posted, pairs, destination, stray, panicked>>
    BY <1>0, <1>3 DEF Poll, NextHead, TypeOK
  <2>2. cq_head[polling] = sq_tail[polling] - 1 /\ sq_tail[polling] >= 1 /\ sq_tail[polling] \in 0..QL
    BY <1>0, <2>1 DEF Heads, TypeOK
  <2>3. TypeOK'
    <3>1. cq_head[polling] + 1 \in Entries
      BY <2>2
    <3>2. cq_head' \in [Queues -> Entries]
      <4>1. cq_head \in [Queues -> Entries] /\ cq_head' = [cq_head EXCEPT ![polling] = cq_head[polling] + 1]
        BY <1>0, <2>1 DEF TypeOK
      <4> HIDE DEF Entries, Queues
      <4> QED
        BY <3>1, <4>1
    <3>3. polling' \in Queues \cup {NoQueue}
      BY <2>1
    <3> QED
      BY <1>0, <2>1, <3>2, <3>3, Zenon DEF TypeOK
  <2>4. Submitted' /\ Stored'
    BY <1>0, <2>1 DEF Submitted, Stored
  <2>5. Heads'
    BY <1>0, <2>1, <2>2, SMTT(30) DEF Heads, TypeOK
  <2>6. ASSUME NEW q \in Queues PROVE Flow(q)'
    <3>1. SUFFICES ASSUME sq_tail[q] < QL PROVE Flow(q)'
      BY <2>1 DEF Flow
    <3>2. ~ Waiting(q)
      <4>1. SUFFICES ASSUME Waiting(q) PROVE FALSE
        OBVIOUS
      <4>2. polling = q /\ posted[q] = sq_tail[q] - 1
        BY <4>1 DEF Waiting
      <4>3. cq_head[q] \in 0..(QL - 1) /\ ~ (cq_head[q] < posted[q])
        BY <2>2, <4>2
      <4>4. cq[q][cq_head[q]] = 0
        BY <1>0, <3>1, <4>3 DEF Flow
      <4> QED
        BY <2>1, <4>2, <4>4
    <3> QED
      BY <1>0, <2>1, <3>1, <3>2 DEF Flow, Completed
  <2> QED
    BY <2>3, <2>4, <2>5, <2>6 DEF Inv
<1>4. ASSUME NEW q \in Queues, Fetch(q) PROVE Inv'
  <2> DEFINE h == (head[q] + 1) % (QL + 1)
  <2>1. /\ head[q] # doorbells[q] /\ busy' = [busy EXCEPT ![q] = @ \cup {head[q]}]
        /\ head' = [head EXCEPT ![q] = h]
        /\ UNCHANGED <<sq_tail, cq_head, sq, cq, doorbells, polling, posted, pairs, destination, stray, panicked>>
    BY <1>4 DEF Fetch
  <2>2. head[q] \in 0..QL /\ QL + 1 \in Nat \ {0} /\ head[q] + 1 \in Nat
    BY <1>0 DEF TypeOK
  <2>3. h \in 0..QL /\ (head[q] < QL => h = head[q] + 1)
    <3>1. h \in 0..((QL + 1) - 1) /\ (head[q] + 1 < QL + 1 => h = head[q] + 1)
      BY <2>2, Wrap, Zenon
    <3> HIDE DEF h
    <3> QED
      BY <2>2, <3>1
  <2> HIDE DEF h
  <2>4. TypeOK'
    <3>1. head[q] \in Entries /\ h \in Entries
      BY <2>2, <2>3
    <3>2. head' \in [Queues -> Entries] /\ busy' \in [Queues -> SUBSET Entries]
      <4>1. /\ head \in [Queues -> Entries] /\ head' = [head EXCEPT ![q] = h]
            /\ busy \in [Queues -> SUBSET Entries] /\ busy' = [busy EXCEPT ![q] = busy[q] \cup {head[q]}]
        BY <1>0, <2>1 DEF TypeOK
      <4> HIDE DEF Entries, Queues
      <4> QED
        BY <3>1, <4>1
    <3> QED
      BY <1>0, <2>1, <3>2, Zenon DEF TypeOK
  <2>5. Submitted' /\ Heads'
    BY <1>0, <2>1 DEF Submitted, Heads
  <2>6. ASSUME NEW x \in Queues, sq_tail[x] < QL PROVE Flow(x)' /\ (Completed(x)' => Completed(x))
    <3>1. CASE x # q
      <4>1. head'[x] = head[x] /\ busy'[x] = busy[x]
        BY <1>0, <2>1, <3>1 DEF TypeOK
      <4> QED
        BY <1>0, <2>1, <4>1 DEF Flow, Completed, Waiting
    <3>2. CASE x = q
      <4>1. Flow(q) /\ doorbells[q] = sq_tail[q] /\ ~ Completed(q) /\ Waiting(q)
        BY <1>0, <2>1, <2>6, <3>2 DEF Flow, Completed
      <4>2. head[q] = sq_tail[q] - 1 /\ busy[q] = {} /\ posted[q] = sq_tail[q] - 1 /\ polling = q
        BY <2>1, <4>1 DEF Waiting
      <4>3. head'[q] = sq_tail[q] /\ busy'[q] = {sq_tail[q] - 1}
        <5>1. head \in [Queues -> Entries] /\ busy \in [Queues -> SUBSET Entries] /\ sq_tail[q] \in 0..QL
          BY <1>0 DEF TypeOK
        <5>2. head'[q] = h /\ busy'[q] = busy[q] \cup {head[q]}
          BY <2>1, <5>1, Zenon
        <5>3. h = sq_tail[q]
          BY <2>2, <2>3, <2>6, <3>2, <4>2, <5>1
        <5>4. busy[q] \cup {head[q]} = {sq_tail[q] - 1}
          BY <4>2
        <5> QED
          BY <5>2, <5>3, <5>4, Zenon
      <4>4. Waiting(q)' /\ ~ Completed(q)'
        BY <2>1, <4>2, <4>3 DEF Waiting, Completed
      <4> QED
        BY <2>1, <3>2, <4>1, <4>4 DEF Flow
    <3> QED
      BY <3>1, <3>2
  <2>7. \A x \in Queues : Flow(x)'
    BY <2>1, <2>6 DEF Flow
  <2>8. Stored'
    BY <1>0, <2>1, <2>6 DEF Stored, LastCommand
  <2> QED
    BY <2>4, <2>5, <2>7, <2>8 DEF Inv
<1>5. ASSUME NEW q \in Queues, NEW i \in Entries, Complete(q, i) PROVE Inv'
  <2> DEFINE c == sq[q][i]
  <2>1. /\ i \in busy[q] /\ posted[q] < QL /\ Perform(c)
        /\ cq' = [cq EXCEPT ![q][posted[q]] = 1]
        /\ posted' = [posted EXCEPT ![q] = @ + 1]
        /\ busy' = [busy EXCEPT ![q] = @ \ {i}]
        /\ UNCHANGED <<sq_tail, cq_head, sq, doorbells, polling, head, panicked>>
    BY <1>5 DEF Complete
  <2>2. c \in Commands /\ posted[q] \in 0..(QL - 1)
    <3>1. sq \in [Queues -> [Entries -> Commands]] /\ posted[q] \in Entries
      BY <1>0 DEF TypeOK
    <3> QED
      BY <2>1, <3>1
  <2>3. ASSUME sq_tail[q] < QL
        PROVE  /\ polling = q /\ i = sq_tail[q] - 1 /\ i \in 0..(QL - 1)
               /\ posted[q] = sq_tail[q] - 1 /\ head[q] = sq_tail[q] /\ busy[q] = {i}
    <3>1. Flow(q) /\ sq_tail[q] \in 0..QL
      BY <1>0 DEF TypeOK
    <3>2. Waiting(q)
      BY <2>1, <2>3, <3>1 DEF Flow, Completed
    <3> QED
      BY <2>1, <3>1, <3>2 DEF Waiting
  <2>4. q = 0 => c.op # "read"
    <3>1. SUFFICES ASSUME q = 0 PROVE c.op # "read"
      OBVIOUS
    <3>2. sq_tail[0] \in 0..3
      BY <1>0 DEF TypeOK, Submitted
    <3>3. i = sq_tail[0] - 1 /\ i \in 0..(QL - 1)
      BY <2>3, <3>1, <3>2
    <3>4. i + 1 \in 1..3 /\ c = Bringup[i + 1]
      BY <1>0, <3>1, <3>2, <3>3 DEF Submitted
    <3> QED
      BY <3>4, BringupCmds
  <2>5. /\ destination' = IF c.op = "read" THEN c.lba ELSE destination
        /\ pairs' \in SUBSET ({"cq", "sq"} \X Queues) /\ stray' \in BOOLEAN
    <3>1. destination' = IF c.op = "read" THEN c.lba ELSE destination
      BY <2>1 DEF Perform
    <3>2. pairs \in SUBSET ({"cq", "sq"} \X Queues)
      BY <1>0 DEF TypeOK
    <3>3. pairs' \in SUBSET ({"cq", "sq"} \X Queues)
      BY <2>1, <3>2 DEF Perform
    <3>4. stray' \in BOOLEAN
      BY <2>1, Zenon DEF Perform
    <3> QED
      BY <3>1, <3>3, <3>4
  <2>6. destination' \in Lbas \cup {NoData}
    <3>1. CASE c \in ReadCmds
      BY <1>0, <2>5, <3>1, ReadCmd DEF TypeOK
    <3>2. CASE c \notin ReadCmds
      <4>1. c.op # "read"
        BY <2>2, <3>2, BringupCmds DEF Commands, Garbage
      <4> QED
        BY <1>0, <2>5, <4>1 DEF TypeOK
    <3> QED
      BY <3>1, <3>2
  <2>7. TypeOK'
    <3>0. posted[q] + 1 \in Entries
      BY <2>2
    <3>1. posted' \in [Queues -> Entries] /\ busy' \in [Queues -> SUBSET Entries]
      <4>1. /\ posted \in [Queues -> Entries] /\ posted' = [posted EXCEPT ![q] = posted[q] + 1]
            /\ busy \in [Queues -> SUBSET Entries] /\ busy' = [busy EXCEPT ![q] = busy[q] \ {i}]
        BY <1>0, <2>1 DEF TypeOK
      <4> HIDE DEF Entries, Queues
      <4> QED
        BY <3>0, <4>1
    <3>2. cq' \in [Queues -> [Entries -> {0, 1}]]
      BY <1>0, <2>1, <2>2 DEF TypeOK
    <3> QED
      BY <1>0, <2>1, <2>5, <2>6, <3>1, <3>2, Zenon DEF TypeOK
  <2>8. Submitted' /\ Heads'
    BY <1>0, <2>1 DEF Submitted, Heads
  <2>9. ASSUME NEW x \in Queues PROVE Flow(x)'
    <3>1. CASE x # q
      <4>1. posted'[x] = posted[x] /\ busy'[x] = busy[x] /\ cq'[x] = cq[x]
        BY <1>0, <2>1, <3>1 DEF TypeOK
      <4>2. /\ Flow(x) /\ sq_tail'[x] = sq_tail[x] /\ doorbells'[x] = doorbells[x]
            /\ head'[x] = head[x] /\ polling' = polling
        BY <1>0, <2>1
      <4> QED
        BY ONLY <4>1, <4>2 DEF Flow, Completed, Waiting
    <3>2. CASE x = q
      <4>1. SUFFICES ASSUME sq_tail[q] < QL PROVE Flow(q)'
        BY <2>1, <3>2 DEF Flow
      <4>2. posted'[q] = sq_tail[q] /\ busy'[q] = {} /\ head'[q] = sq_tail[q]
        BY <1>0, <2>1, <2>3, <4>1, SMTT(30) DEF TypeOK
      <4>3. Completed(q)' /\ doorbells'[q] = sq_tail'[q]
        BY <1>0, <2>1, <4>1, <4>2 DEF Completed, Flow
      <4>4. ASSUME NEW k \in 0..(QL - 1) PROVE cq'[q][k] = IF k < posted'[q] THEN 1 ELSE 0
        <5>1. cq'[q][k] = IF k = posted[q] THEN 1 ELSE cq[q][k]
          <6>1. cq \in [Queues -> [Entries -> {0, 1}]]
            BY <1>0, Zenon DEF TypeOK
          <6>2. cq'[q] = [cq[q] EXCEPT ![posted[q]] = 1] /\ cq[q] \in [Entries -> {0, 1}]
            BY <2>1, <6>1
          <6> QED
            BY <2>2, <6>2
        <5>2. cq[q][k] = IF k < posted[q] THEN 1 ELSE 0
          BY <1>0, <4>1 DEF Flow
        <5>3. posted'[q] = posted[q] + 1
          BY <1>0, <2>1 DEF TypeOK
        <5> QED
          BY <2>2, <5>1, <5>2, <5>3
      <4> QED
        BY <4>3, <4>4 DEF Flow
    <3> QED
      BY <3>1, <3>2
  <2>10. Stored'
    <3>1. SUFFICES ASSUME polling = 1, sq_tail[1] <= PageCmds, sq_tail[1] < QL, Completed(1)'
                   PROVE  destination' = LastCommand(1).lba
      BY <2>1 DEF Stored, LastCommand
    <3>2. CASE q = 0
      <4>1. posted'[1] = posted[1] /\ busy'[1] = busy[1] /\ head'[1] = head[1]
        BY <1>0, <2>1, <3>2 DEF TypeOK
      <4>2. Completed(1)
        BY <2>1, <3>1, <4>1 DEF Completed
      <4> QED
        BY <1>0, <2>4, <2>5, <3>1, <3>2, <4>2 DEF Stored
    <3>3. CASE q = 1
      <4>1. i = sq_tail[1] - 1 /\ i \in 0..(sq_tail[1] - 1) /\ sq_tail[1] \in 0..QL
        BY <1>0, <2>3, <3>1, <3>3 DEF TypeOK
      <4>2. c \in ReadCmds /\ c = LastCommand(1)
        BY <1>0, <3>1, <3>3, <4>1 DEF Submitted, LastCommand
      <4>3. c.op = "read"
        BY <4>2, ReadCmd
      <4> QED
        BY <2>5, <4>2, <4>3
    <3> QED
      BY <3>2, <3>3
  <2> QED
    BY <2>7, <2>8, <2>9, <2>10 DEF Inv
<1>6. CASE UNCHANGED vars
  BY <1>0, <1>6 DEF vars, Inv, TypeOK, Submitted, Heads, Flow, Completed, Waiting, Stored, LastCommand
<1> QED
  BY <1>1, <1>2, <1>3, <1>4, <1>5, <1>6 DEF Next, Controller, Spin, Halted

\* The invariant holds in every reachable state.
THEOREM Invariance == Spec => []Inv
BY InitInv, NextInv, PTL DEF Spec

\* The polling loop never reads the entry of a completion queue that mem_set
\* left as kmalloc() returned it (nvme.c:42, 85, 111), however long the queue.
THEOREM PollsClearedTheorem == Spec => []PollsCleared
<1>1. Inv => PollsCleared
  BY NvmeAssumption DEF Inv, TypeOK, Heads, PollsCleared, Queues, NoQueue, Entries
<1> QED
  BY <1>1, Invariance, PTL

\* nvme_read() returns with its own data in the destination (nvme.c:143-157),
\* whatever was read before, for the commands in the queue's page and up to the
\* last command of a queue.
THEOREM ReadReturnsDataTheorem == Spec => ReadReturnsData
<1> DEFINE A == polling = 1 /\ polling' = NoQueue /\ sq_tail[1] <= PageCmds /\ sq_tail[1] < QL
                => destination = LastCommand(1).lba
<1>1. Inv /\ [Next]_vars => [A]_vars
  <2>1. SUFFICES ASSUME Inv, Next, polling = 1, polling' = NoQueue, sq_tail[1] <= PageCmds, sq_tail[1] < QL
                 PROVE  destination = LastCommand(1).lba
    BY DEF vars
  <2>2. Poll
    BY <2>1 DEF Next, BringUp, nvme_read, Submit, Spin, Controller, Fetch, Complete, Halted, vars, NoQueue
  <2>3. TypeOK /\ Heads /\ Flow(1) /\ Stored
    BY <2>1 DEF Inv, Queues
  <2>4. cq_head[1] = sq_tail[1] - 1 /\ sq_tail[1] \in 1..(QL - 1) /\ cq[1][cq_head[1]] = 1
    BY <2>1, <2>2, <2>3, NvmeAssumption DEF Heads, Poll, TypeOK, Queues, Entries
  <2>5. Completed(1)
    <3>1. SUFFICES ASSUME posted[1] = sq_tail[1] - 1 PROVE FALSE
      BY <2>1, <2>3 DEF Flow, Waiting
    <3>2. cq_head[1] \in 0..(QL - 1) /\ ~ (cq_head[1] < posted[1])
      BY <2>4, <3>1, NvmeAssumption
    <3>3. cq[1][cq_head[1]] = 0
      BY <2>1, <2>3, <3>2 DEF Flow
    <3> QED
      BY <2>4, <3>3
  <2> QED
    BY <2>1, <2>3, <2>5 DEF Stored
<1> QED
  BY <1>1, Invariance, PTL DEF Spec, ReadReturnsData

----------------------------------------------------------------------------
(* The console *)

Screens == [cell : [Cells -> Chars], cur : 0..(CursorMod - 1)]
Area == W * H

\* The screen s shows the end of the roll r; its cursor may be just behind its
\* last cell ...
Drawn(s, r) ==
    /\ s \in Screens /\ r \in Seq(Chars)
    /\ s.cur \in 0..Area /\ s.cur <= Len(r) /\ (Len(r) - s.cur) % W = 0
    /\ s.cell = [i \in Cells |-> IF i < s.cur THEN r[Len(r) - s.cur + i + 1] ELSE Blank]

\* ... or is on it.
Shows(s, r) == Drawn(s, r) /\ s.cur \in Cells

\* A set of numbers has a least one: what induction rests on.
LEMMA LeastNumber ==
    ASSUME NEW T \in SUBSET Nat, T # {}
    PROVE  \E m \in T : \A k \in T : m <= k
<1> DEFINE R == {ss \in Nat \X Nat : ss[1] < ss[2]}
<1>1. IsWellFoundedOn(R, Nat)
    BY NatLessThanWellFounded DEF OpToRel
<1> HIDE DEF R
<1>2. PICK x \in T : \A y \in T : ~ (<<y, x>> \in R)
    BY <1>1, WFMin
<1>3. \A y \in T : ~ (y < x)
    BY <1>2 DEF R
<1> QED BY <1>3

\* A number has a property in S if 0 has it and a number's successor does
\* whenever the number does.
LEMMA UpTo ==
    ASSUME NEW n \in Nat, NEW S, 0 \in S, \A k \in 0..(n - 1) : k \in S => k + 1 \in S
    PROVE  \A k \in 0..n : k \in S
<1> SUFFICES ASSUME {k \in 0..n : k \notin S} # {} PROVE FALSE
    OBVIOUS
<1> DEFINE T == {k \in 0..n : k \notin S}
<1>1. T \in SUBSET Nat /\ T # {}
    OBVIOUS
<1>2. PICK m \in T : \A k \in T : m <= k
    BY ONLY <1>1, LeastNumber
<1>3. m \in 0..n /\ m # 0 /\ m \notin S
    BY <1>2
<1>4. m - 1 \in 0..(n - 1) /\ m - 1 \in 0..n /\ ~ (m <= m - 1) /\ m = (m - 1) + 1
    BY <1>3
<1>5. m - 1 \in S
    BY <1>2, <1>4
<1>6. (m - 1) + 1 \in S
    BY <1>4, <1>5
<1> QED BY <1>3, <1>4, <1>6

\* A function that starts at a and goes on by F, step by step, exists.
Iterates(f, S, a, n, F) ==
    f \in [0..n -> S] /\ f[0] = a /\ \A k \in 1..n : f[k] = F[k][f[k - 1]]

LEMMA Recursion ==
    ASSUME NEW S, NEW a \in S, NEW n \in Nat, NEW F \in [1..n -> [S -> S]]
    PROVE  \E f : Iterates(f, S, a, n, F)
<1> DEFINE Runs(f, m) == f[0] = a /\ \A k \in 1..m : f[k] = F[k][f[k - 1]]
<1> DEFINE T == {m \in Nat : \E f \in [0..m -> S] : Runs(f, m)}
<1>1. 0 \in T
    <2> DEFINE f == [k \in 0..0 |-> a]
    <2>1. f \in [0..0 -> S] /\ Runs(f, 0)
        OBVIOUS
    <2> QED BY <2>1
<1>2. ASSUME NEW k \in 0..(n - 1), k \in T PROVE k + 1 \in T
    <2>1. PICK f \in [0..k -> S] : Runs(f, k)
        BY <1>2
    <2>2. k \in Nat /\ k \in 0..k /\ k + 1 \in 1..n
        OBVIOUS
    <2> PICK v : v = F[k + 1][f[k]]
        OBVIOUS
    <2> DEFINE g == [j \in 0..(k + 1) |-> IF j = k + 1 THEN v ELSE f[j]]
    <2>3. \A j \in 0..(k + 1) : j = k + 1 \/ j \in 0..k
        BY <2>2
    <2>4. f[k] \in S /\ v \in S
        BY <2>2
    <2>5. g \in [0..(k + 1) -> S]
        BY <2>3, <2>4
    <2>6. \A j \in 0..k : g[j] = f[j]
        BY <2>2
    <2>7. g[k + 1] = v /\ g[0] = a
        BY <2>1, <2>2
    <2> HIDE DEF g
    <2>8. ASSUME NEW j \in 1..(k + 1) PROVE g[j] = F[j][g[j - 1]]
        <3>1. CASE j = k + 1
            <4>1. j - 1 = k
                BY <3>1, <2>2
            <4> QED BY <3>1, <4>1, <2>2, <2>6, <2>7
        <3>2. CASE j # k + 1
            <4>1. j \in 1..k /\ j \in 0..k /\ j - 1 \in 0..k
                BY <3>2, <2>2
            <4> QED BY <4>1, <2>1, <2>6
        <3> QED BY <3>1, <3>2
    <2>9. Runs(g, k + 1)
        BY <2>7, <2>8
    <2> QED BY <2>2, <2>5, <2>9
<1> HIDE DEF T
<1>3. \A k \in 0..n : k \in T
    BY <1>1, <1>2, UpTo
<1>4. n \in T
    BY <1>3
<1>5. PICK f \in [0..n -> S] : Runs(f, n)
    BY <1>4 DEF T
<1> QED BY <1>5 DEF Iterates

LEMMA BlankChar == Blank \in Chars
BY CharsAssumption DEF Blank

LEMMA Quotient ==
    ASSUME NEW n \in Nat, NEW d \in Nat, d > 0
    PROVE  /\ n % d \in Nat /\ n % d < d
           /\ \E q \in Nat : n = d * q + (n % d)
<1>1. n % d \in Nat /\ n % d < d /\ n \div d \in Nat /\ n = d * (n \div d) + (n % d)
    OBVIOUS
<1> QED BY <1>1

LEMMA QuotientUnique ==
    ASSUME NEW d \in Nat, d > 0, NEW q \in Nat, NEW m \in Nat, m < d,
           NEW p \in Nat, NEW l \in Nat, l < d, d * q + m = d * p + l
    PROVE  m = l /\ q = p
<1>1. CASE q < p
    <2>1. q + 1 <= p
        BY <1>1
    <2>2. d * (q + 1) <= d * p
        BY <2>1
    <2>3. d * (q + 1) = d * q + d
        OBVIOUS
    <2> QED BY <2>2, <2>3
<1>2. CASE p < q
    <2>1. p + 1 <= q
        BY <1>2
    <2>2. d * (p + 1) <= d * q
        BY <2>1
    <2>3. d * (p + 1) = d * p + d
        OBVIOUS
    <2> QED BY <2>2, <2>3
<1>3. CASE p = q
    BY <1>3
<1> QED BY <1>1, <1>2, <1>3

LEMMA Remainder ==
    ASSUME NEW d \in Nat, d > 0, NEW q \in Nat, NEW m \in Nat, m < d, NEW n \in Nat, n = d * q + m
    PROVE  n % d = m
<1>1. PICK p \in Nat : n = d * p + (n % d)
    BY Quotient
<1>2. n % d \in Nat /\ n % d < d
    BY Quotient
<1>3. PICK l \in Nat : l = n % d
    BY <1>2
<1> QED BY <1>1, <1>2, <1>3, QuotientUnique

LEMMA Numbers ==
    /\ W \in Nat /\ W > 0 /\ Area \in Nat /\ W < Area
    /\ LenMod \in Nat /\ LenMod > 1 /\ LenMod - 1 <= Area - W
    /\ Cells = 0..(Area - 1) /\ CursorMod \in Nat /\ Area < CursorMod
<1>1. W \in Nat /\ W > 0 /\ H \in Nat /\ H > 0 /\ Area \in Nat /\ Area < CursorMod /\ CursorMod \in Nat
    BY ConsoleAssumption DEF Area
<1>2. W * (H - 1) = Area - W
    BY <1>1 DEF Area
<1>3. LenMod \in Nat /\ LenMod > 1 /\ LenMod - 1 <= Area - W
    BY <1>2, ConsoleAssumption
<1>4. Cells = 0..(Area - 1)
    BY DEF Cells, Area
<1> QED BY <1>1, <1>3, <1>4

LEMMA LastRow == W * (H - 1) = Area - W /\ W * H = Area
BY ConsoleAssumption DEF Area

LEMMA CursorFits == \A k \in 0..Area : k % CursorMod = k /\ k \in 0..(CursorMod - 1)
<1> SUFFICES ASSUME NEW k \in 0..Area PROVE k % CursorMod = k /\ k \in 0..(CursorMod - 1)
    OBVIOUS
<1>1. CursorMod \in Nat /\ CursorMod > 0 /\ k \in Nat /\ k < CursorMod /\ k = CursorMod * 0 + k
    BY Numbers
<1> QED BY <1>1, Remainder

\* The end of a row: how far, and that it is on or just behind the screen.
LEMMA RowEnd ==
    /\ \A n \in Nat : n % W \in 0..(W - 1)
    /\ \A c \in Cells : c + (W - (c % W)) \in 1..Area /\ c < c + (W - (c % W))
<1> USE Numbers
<1>1. \A n \in Nat : n % W \in 0..(W - 1)
    BY Quotient
<1>2. ASSUME NEW c \in Cells PROVE c + (W - (c % W)) \in 1..Area /\ c < c + (W - (c % W))
    <2>1. c \in Nat /\ c < Area
        OBVIOUS
    <2>2. PICK m \in 0..(W - 1) : m = c % W
        BY <1>1, <2>1
    <2>3. PICK q \in Nat : c = W * q + m
        BY <2>1, <2>2, Quotient
    <2>4. H \in Nat /\ Area = W * H
        BY ConsoleAssumption DEF Area
    <2>5. q < H
        <3>1. ASSUME H <= q PROVE FALSE
            <4>1. W * H <= W * q
                BY <3>1, <2>4
            <4> QED BY <4>1, <2>1, <2>3, <2>4
        <3> QED BY <3>1, <2>4
    <2>6. W * (q + 1) <= W * H
        BY <2>5, <2>4
    <2>7. W * (q + 1) = W * q + W
        OBVIOUS
    <2>8. c + (W - m) = W * q + W
        BY <2>2, <2>3, <2>1
    <2> QED BY <2>1, <2>2, <2>4, <2>6, <2>7, <2>8
<1> QED BY <1>1, <1>2

\* A row further up, and the same column.
LEMMA Columns ==
    ASSUME NEW a \in Nat, NEW b \in Nat, b <= a, (a - b) % W = 0
    PROVE  /\ a % W = b % W
           /\ (a - b + W) % W = 0
<1> USE Numbers
<1>1. a - b \in Nat
    OBVIOUS
<1>2. PICK k \in Nat : a - b = W * k
    <2>1. PICK k \in Nat : a - b = W * k + ((a - b) % W)
        BY <1>1, Quotient
    <2>2. W * k \in Nat /\ W * k + 0 = W * k
        OBVIOUS
    <2> QED BY <2>1, <2>2
<1>3. PICK m \in Nat : m = b % W /\ m < W
    BY Quotient
<1>4. PICK q \in Nat : b = W * q + m
    BY <1>3, Quotient
<1>5. W * (q + k) = W * q + W * k
    OBVIOUS
<1>6. a = W * (q + k) + m
    BY <1>2, <1>4, <1>5
<1>7. q + k \in Nat
    OBVIOUS
<1>8. a % W = m
    BY <1>3, <1>6, <1>7, Remainder
<1>9. W * (k + 1) = W * k + W
    OBVIOUS
<1>10. k + 1 \in Nat /\ a - b + W \in Nat /\ a - b + W = W * (k + 1) + 0 /\ 0 \in Nat /\ 0 < W
    BY <1>1, <1>2, <1>9
<1>11. (a - b + W) % W = 0
    <2> PICK n \in Nat : n = a - b + W
        BY <1>10
    <2> QED BY <1>10, Remainder
<1> QED BY <1>3, <1>8, <1>11
----------------------------------------------------------------------------
LEMMA ScreenTypes ==
    ASSUME NEW s \in Screens
    PROVE  s.cell \in [Cells -> Chars] /\ s.cur \in 0..(CursorMod - 1)
BY DEF Screens

LEMMA CursorSet ==
    ASSUME NEW s \in Screens, NEW n \in 0..Area
    PROVE  /\ SetCursor(s, n) \in Screens
           /\ SetCursor(s, n).cur = n /\ SetCursor(s, n).cell = s.cell
<1>1. n % CursorMod = n /\ n \in 0..(CursorMod - 1)
    BY CursorFits
<1>2. SetCursor(s, n) = [s EXCEPT !.cur = n]
    BY <1>1 DEF SetCursor
<1> QED BY <1>1, <1>2 DEF Screens

LEMMA CellsSet ==
    ASSUME NEW s \in Screens, NEW f \in [Cells -> Chars]
    PROVE  /\ [s EXCEPT !.cell = f] \in Screens
           /\ [s EXCEPT !.cell = f].cur = s.cur /\ [s EXCEPT !.cell = f].cell = f
BY DEF Screens

\* Places on a roll of length l, with the cursor at x, when both move by n.
LEMMA Places ==
    ASSUME NEW l \in Nat, NEW x \in Nat, x <= l, NEW n \in Nat, NEW i \in Nat
    PROVE  /\ (l + n) - (x + n) + i + 1 = l - x + i + 1
           /\ i < x => l - x + i + 1 \in 1..l /\ i < x + n
           /\ i >= x /\ i < x + n => l - x + i + 1 \in (l + 1)..(l + n)
OBVIOUS

LEMMA DrawnFacts ==
    ASSUME NEW s, NEW r, Drawn(s, r)
    PROVE  /\ s \in Screens /\ r \in Seq(Chars) /\ s.cur \in 0..Area /\ s.cur <= Len(r)
           /\ (Len(r) - s.cur) % W = 0 /\ Len(r) \in Nat /\ s.cell \in [Cells -> Chars]
           /\ \A i \in Cells : s.cell[i] = IF i < s.cur THEN r[Len(r) - s.cur + i + 1] ELSE Blank
           /\ s.cur \in Nat
<1>1. /\ s \in Screens /\ r \in Seq(Chars) /\ s.cur \in 0..Area /\ s.cur <= Len(r)
      /\ (Len(r) - s.cur) % W = 0 /\ Len(r) \in Nat /\ s.cell \in [Cells -> Chars]
      /\ \A i \in Cells : s.cell[i] = IF i < s.cur THEN r[Len(r) - s.cur + i + 1] ELSE Blank
    BY ScreenTypes DEF Drawn
<1>2. s.cur \in Nat
    BY <1>1, Numbers
<1> QED BY <1>1, <1>2

LEMMA ShownFacts ==
    ASSUME NEW s, NEW r, Shows(s, r)
    PROVE  /\ s \in Screens /\ r \in Seq(Chars) /\ s.cur \in Cells /\ s.cur <= Len(r)
           /\ (Len(r) - s.cur) % W = 0 /\ Len(r) \in Nat /\ s.cell \in [Cells -> Chars]
           /\ \A i \in Cells : s.cell[i] = IF i < s.cur THEN r[Len(r) - s.cur + i + 1] ELSE Blank
           /\ s.cur \in Nat
<1>1. Drawn(s, r) /\ s.cur \in Cells
    BY DEF Shows
<1> QED BY <1>1, DrawnFacts

\* The test behind a move of the cursor brings it back on the screen.
LEMMA ScrolledShows ==
    ASSUME NEW s, NEW r, Drawn(s, r)
    PROVE  /\ Shows(Scrolled(s), r)
           /\ Scrolled(s).cur = s.cur \/ Scrolled(s).cur = Area - W
<1>1. /\ s \in Screens /\ r \in Seq(Chars) /\ s.cur \in 0..Area /\ s.cur <= Len(r)
      /\ (Len(r) - s.cur) % W = 0 /\ Len(r) \in Nat /\ s.cell \in [Cells -> Chars]
      /\ \A i \in Cells : s.cell[i] = IF i < s.cur THEN r[Len(r) - s.cur + i + 1] ELSE Blank
      /\ s.cur \in Nat
    BY DrawnFacts
<1>2. CASE s.cur < Area
    <2>1. Scrolled(s) = s
        BY <1>1, <1>2, LastRow, Numbers DEF Scrolled
    <2>2. s.cur \in Cells
        BY <1>1, <1>2, Numbers
    <2> QED BY <2>1, <2>2 DEF Shows
<1>3. CASE s.cur = Area
    <2> DEFINE f == [i \in Cells |-> IF i < Area - W THEN s.cell[i + W] ELSE Blank]
    <2>1. \A i \in Cells : i < Area - W => i + W \in Cells
        BY Numbers
    <2>2. f \in [Cells -> Chars]
        BY <1>1, <2>1, BlankChar
    <2>3. Scrolled(s) = SetCursor([s EXCEPT !.cell = f], Area - W)
        <3>1. f = [i \in Cells |-> IF i < W * (H - 1) THEN s.cell[i + W] ELSE Blank]
            BY LastRow
        <3>2. Scrolled(s) = Scroll(s)
            BY <1>3, LastRow, Numbers DEF Scrolled
        <3> HIDE DEF f
        <3> QED BY <1>3, <3>1, <3>2 DEF Scroll
    <2>4. Area - W \in 0..Area /\ Area - W \in Cells
        BY Numbers
    <2> HIDE DEF f
    <2> PICK t : t = Scrolled(s)
        OBVIOUS
    <2>5. t \in Screens /\ t.cur = Area - W /\ t.cell = f
        <3> PICK u : u = [s EXCEPT !.cell = f]
            OBVIOUS
        <3>1. u \in Screens /\ u.cell = f
            BY <1>1, <2>2, CellsSet
        <3>2. t = SetCursor(u, Area - W)
            BY <2>3
        <3> PICK n : n = Area - W
            OBVIOUS
        <3> QED BY ONLY <3>1, <3>2, <2>4, n = Area - W, CursorSet
    <2>6. (Len(r) - t.cur) % W = 0 /\ t.cur <= Len(r)
        <3>1. (Len(r) - s.cur + W) % W = 0
            BY <1>1, Numbers, Columns
        <3>2. Len(r) - t.cur = Len(r) - s.cur + W
            BY <1>1, <1>3, <2>5, Numbers
        <3> QED BY <1>1, <1>3, <2>5, <3>1, <3>2, Numbers
    <2>7. ASSUME NEW i \in Cells
          PROVE  f[i] = IF i < t.cur THEN r[Len(r) - t.cur + i + 1] ELSE Blank
        <3>1. CASE i < Area - W
            <4>1. f[i] = s.cell[i + W] /\ i + W \in Cells /\ i + W < s.cur
                BY <3>1, <2>1, <1>3, Numbers DEF f
            <4>2. Len(r) - s.cur + (i + W) + 1 = Len(r) - t.cur + i + 1
                BY <1>1, <1>3, <2>5, Numbers
            <4>3. s.cell[i + W] = r[Len(r) - s.cur + (i + W) + 1]
                BY <1>1, <4>1
            <4> QED BY <3>1, <2>5, <4>1, <4>2, <4>3
        <3>2. CASE ~ (i < Area - W)
            BY <3>2, <2>5 DEF f
        <3> QED BY <3>1, <3>2
    <2>8. t.cell = [i \in Cells |-> IF i < t.cur THEN r[Len(r) - t.cur + i + 1] ELSE Blank]
        BY <2>2, <2>5, <2>7
    <2> QED BY <1>1, <2>4, <2>5, <2>6, <2>8 DEF Shows, Drawn
<1> QED BY <1>1, <1>2, <1>3, Numbers

LEMMA AppendFacts ==
    ASSUME NEW r \in Seq(Chars), NEW c \in Chars
    PROVE  /\ Append(r, c) \in Seq(Chars) /\ Len(Append(r, c)) = Len(r) + 1
           /\ \A i \in 1..Len(r) : Append(r, c)[i] = r[i]
           /\ Append(r, c)[Len(r) + 1] = c
OBVIOUS

\* A character is drawn at the cursor.
LEMMA AdvanceShows ==
    ASSUME NEW s, NEW r, Shows(s, r), NEW c \in Chars
    PROVE  /\ Shows(Advance(SetPixel(s, c)), Append(r, c))
           /\ \/ Advance(SetPixel(s, c)).cur = s.cur + 1
              \/ Advance(SetPixel(s, c)).cur = Area - W
<1>1. /\ s \in Screens /\ r \in Seq(Chars) /\ s.cur \in Cells /\ s.cur <= Len(r)
      /\ (Len(r) - s.cur) % W = 0 /\ Len(r) \in Nat /\ s.cell \in [Cells -> Chars]
      /\ \A i \in Cells : s.cell[i] = IF i < s.cur THEN r[Len(r) - s.cur + i + 1] ELSE Blank
      /\ s.cur \in Nat
    BY ShownFacts
<1> DEFINE f == [i \in Cells |-> IF i = s.cur THEN c ELSE s.cell[i]]
<1>2. f \in [Cells -> Chars]
    BY <1>1
<1>3. SetPixel(s, c) = [s EXCEPT !.cell = f]
    BY DEF SetPixel
<1>4. s.cur + 1 \in 0..Area
    BY <1>1, Numbers
<1> PICK p : p = SetPixel(s, c)
    OBVIOUS
<1> HIDE DEF f
<1>5. p \in Screens /\ p.cur = s.cur /\ p.cell = f
    BY <1>1, <1>2, <1>3, CellsSet
<1> PICK t : t = SetCursor(p, p.cur + 1)
    OBVIOUS
<1>6. t \in Screens /\ t.cur = s.cur + 1 /\ t.cell = f
    BY <1>4, <1>5, CursorSet
<1> PICK q : q = Append(r, c)
    OBVIOUS
<1>7. /\ q \in Seq(Chars) /\ Len(q) = Len(r) + 1 /\ q[Len(r) + 1] = c
      /\ \A i \in 1..Len(r) : q[i] = r[i]
    BY <1>1, AppendFacts
<1>8. Len(q) - t.cur = Len(r) - s.cur /\ t.cur <= Len(q)
    BY <1>1, <1>6, <1>7
<1>9. ASSUME NEW i \in Cells
      PROVE  f[i] = IF i < t.cur THEN q[Len(q) - t.cur + i + 1] ELSE Blank
    <2>1. i \in Nat
        BY Numbers
    <2>2. CASE i = s.cur
        <3>1. Len(q) - t.cur + i + 1 = Len(r) + 1 /\ i < t.cur
            BY <2>1, <2>2, <1>1, <1>6, <1>7
        <3> QED BY <2>2, <3>1, <1>7 DEF f
    <2>3. CASE i < s.cur
        <3>1. Len(q) - t.cur + i + 1 = Len(r) - s.cur + i + 1 /\ Len(r) - s.cur + i + 1 \in 1..Len(r) /\ i < t.cur
            BY <2>1, <2>3, <1>1, <1>6, <1>7
        <3>2. f[i] = s.cell[i]
            BY <2>1, <2>3, <1>1 DEF f
        <3> QED BY <2>3, <3>1, <3>2, <1>1, <1>7
    <2>4. CASE i > s.cur
        <3>1. ~ (i < t.cur) /\ ~ (i < s.cur) /\ i # s.cur
            BY <2>1, <2>4, <1>1, <1>6
        <3>2. f[i] = s.cell[i] /\ s.cell[i] = Blank
            BY <3>1, <1>1 DEF f
        <3> QED BY <3>1, <3>2
    <2>5. s.cur \in Nat
        BY <1>1
    <2>6. i = s.cur \/ i < s.cur \/ i > s.cur
        BY ONLY <2>1, <2>5
    <2> QED BY <2>2, <2>3, <2>4, <2>6
<1>10. t.cell = [i \in Cells |-> IF i < t.cur THEN q[Len(q) - t.cur + i + 1] ELSE Blank]
    BY <1>2, <1>6, <1>9
<1>11. Drawn(t, q)
    BY <1>1, <1>4, <1>6, <1>7, <1>8, <1>10 DEF Drawn
<1>12. Advance(p) = Scrolled(t)
    BY DEF Advance
<1> QED BY <1>6, <1>11, <1>12, ScrolledShows

\* The cursor goes to the next row.
LEMMA NewLineShows ==
    ASSUME NEW s, NEW r, Shows(s, r)
    PROVE  /\ Shows(NewLine(s), Inked(r, "\n"))
           /\ NewLine(s).cur > s.cur \/ NewLine(s).cur = Area - W
<1>1. /\ s \in Screens /\ r \in Seq(Chars) /\ s.cur \in Cells /\ s.cur <= Len(r)
      /\ (Len(r) - s.cur) % W = 0 /\ Len(r) \in Nat /\ s.cell \in [Cells -> Chars]
      /\ \A i \in Cells : s.cell[i] = IF i < s.cur THEN r[Len(r) - s.cur + i + 1] ELSE Blank
      /\ s.cur \in Nat
    BY ShownFacts
<1>2. Len(r) % W = s.cur % W
    BY <1>1, Columns
<1>3. s.cur % W \in 0..(W - 1) /\ s.cur + (W - (s.cur % W)) \in 1..Area
    BY <1>1, RowEnd
<1> PICK m : m = s.cur % W
    OBVIOUS
<1> PICK n : n = W - m
    OBVIOUS
<1>4. n \in Nat /\ n > 0 /\ s.cur + n \in 0..Area
    <2>1. m \in 0..(W - 1) /\ s.cur + n \in 1..Area
        BY <1>3
    <2> QED BY <2>1, Numbers
<1> DEFINE blanks == [i \in 1..n |-> Blank]
<1>5. blanks \in Seq(Chars) /\ Len(blanks) = n /\ \A i \in 1..n : blanks[i] = Blank
    BY <1>4, BlankChar
<1>6. Inked(r, "\n") = r \o blanks
    BY <1>2 DEF Inked
<1> HIDE DEF blanks
<1> PICK t : t = SetCursor(s, s.cur + n)
    OBVIOUS
<1>7. t \in Screens /\ t.cur = s.cur + n /\ t.cell = s.cell
    BY <1>1, <1>4, CursorSet
<1> PICK q : q = r \o blanks
    OBVIOUS
<1>8. /\ q \in Seq(Chars) /\ Len(q) = Len(r) + n
      /\ \A i \in 1..Len(r) : q[i] = r[i]
      /\ \A i \in (Len(r) + 1)..(Len(r) + n) : q[i] = Blank
    <2>1. q \in Seq(Chars) /\ Len(q) = Len(r) + n
        BY <1>1, <1>5, ConcatProperties
    <2>2. \A i \in 1..Len(r) : q[i] = r[i]
        BY <1>1, <1>4, <1>5, ConcatProperties
    <2>3. ASSUME NEW i \in (Len(r) + 1)..(Len(r) + n) PROVE q[i] = Blank
        <3>1. i - Len(r) \in 1..n /\ i \in 1..(Len(r) + n) /\ i > Len(r)
            BY <1>1, <1>4
        <3>2. q[i] = blanks[i - Len(r)]
            BY <3>1, <1>1, <1>5, ConcatProperties
        <3> QED BY <3>1, <3>2, <1>5
    <2> QED BY <2>1, <2>2, <2>3
<1>9. Len(q) - t.cur = Len(r) - s.cur /\ t.cur <= Len(q)
    BY <1>1, <1>4, <1>7, <1>8
<1>10. /\ s.cur \in Nat /\ Len(r) \in Nat /\ s.cur <= Len(r)
       /\ t.cur = s.cur + n /\ Len(q) = Len(r) + n
    BY <1>1, <1>7, <1>8
<1>11. ASSUME NEW i \in Cells
      PROVE  s.cell[i] = IF i < t.cur THEN q[Len(q) - t.cur + i + 1] ELSE Blank
    <2>1. i \in Nat
        BY Numbers
    <2>2. CASE i < s.cur
        <3>1. Len(q) - t.cur + i + 1 = Len(r) - s.cur + i + 1 /\ Len(r) - s.cur + i + 1 \in 1..Len(r) /\ i < t.cur
            BY ONLY <2>1, <2>2, <1>10, <1>4, Places
        <3> QED BY <2>2, <3>1, <1>1, <1>8
    <2>3. CASE i >= s.cur /\ i < t.cur
        <3>1. Len(q) - t.cur + i + 1 \in (Len(r) + 1)..(Len(r) + n)
            BY ONLY <2>1, <2>3, <1>10, <1>4, SMTT(30)
        <3>2. s.cell[i] = Blank
            BY <2>1, <2>3, <1>1
        <3> QED BY <2>3, <3>1, <3>2, <1>8
    <2>4. CASE i >= t.cur
        <3>1. ~ (i < t.cur) /\ ~ (i < s.cur)
            BY ONLY <2>1, <2>4, <1>10, <1>4
        <3> QED BY <3>1, <1>1
    <2>5. i < s.cur \/ (i >= s.cur /\ i < t.cur) \/ i >= t.cur
        BY ONLY <2>1, <1>4, <1>10
    <2> QED BY <2>2, <2>3, <2>4, <2>5
<1>12. t.cell = [i \in Cells |-> IF i < t.cur THEN q[Len(q) - t.cur + i + 1] ELSE Blank]
    BY <1>1, <1>7, <1>11
<1>13. Drawn(t, q)
    BY <1>1, <1>4, <1>7, <1>8, <1>9, <1>12 DEF Drawn
<1>14. NewLine(s) = Scrolled(t)
    BY DEF NewLine
<1>15. NewLine(s).cur = s.cur + n \/ NewLine(s).cur = Area - W
    BY <1>7, <1>13, <1>14, ScrolledShows
<1>16. Shows(NewLine(s), q)
    BY <1>13, <1>14, ScrolledShows
<1>17. s.cur + n > s.cur
    BY ONLY <1>4, <1>10
<1> QED BY <1>6, <1>15, <1>16, <1>17

----------------------------------------------------------------------------
LEMMA PutShows ==
    ASSUME NEW s, NEW r, Shows(s, r), NEW c \in Chars
    PROVE  /\ Shows(PutChar(s, c), Inked(r, c))
           /\ PutChar(s, c).cur > s.cur \/ PutChar(s, c).cur = Area - W
<1>1. CASE c = "\n"
    <2>1. PutChar(s, c) = NewLine(s) /\ Inked(r, c) = Inked(r, "\n")
        BY <1>1 DEF PutChar
    <2> QED BY <2>1, NewLineShows
<1>2. CASE c # "\n"
    <2>1. PutChar(s, c) = Advance(SetPixel(s, c)) /\ Inked(r, c) = Append(r, c)
        BY <1>2 DEF PutChar, Inked
    <2>2. s.cur \in Nat
        BY ShownFacts
    <2>3. s.cur + 1 > s.cur
        BY ONLY <2>2
    <2> QED BY <2>1, <2>3, AdvanceShows
<1> QED BY <1>1, <1>2

LEMMA InkedText ==
    ASSUME NEW r \in Seq(Chars), NEW c \in Chars
    PROVE  Inked(r, c) \in Seq(Chars)
<1>1. CASE c = "\n"
    <2>1. Len(r) \in Nat /\ Len(r) % W \in 0..(W - 1)
        BY RowEnd
    <2> PICK m : m = Len(r) % W
        OBVIOUS
    <2> DEFINE blanks == [i \in 1..(W - m) |-> Blank]
    <2>2. W - m \in Nat
        BY <2>1, Numbers
    <2>3. blanks \in Seq(Chars)
        BY <2>2, BlankChar
    <2>4. Inked(r, c) = r \o blanks
        BY <1>1 DEF Inked
    <2> HIDE DEF blanks
    <2> QED BY <2>3, <2>4, ConcatProperties
<1>2. CASE c # "\n"
    BY <1>2, AppendFacts DEF Inked
<1> QED BY <1>1, <1>2

\* Fill() inks one character after the other.
LEMMA FillSteps ==
    ASSUME NEW r \in Seq(Chars), NEW text \in Seq(Chars)
    PROVE  \E g : /\ Fill(r, text) = g[Len(text)] /\ g[0] = r
                  /\ \A k \in 1..Len(text) : g[k] = Inked(g[k - 1], text[k])
<1> DEFINE n == Len(text)
           F == [k \in 1..n |-> [q \in Seq(Chars) |-> Inked(q, text[k])]]
           Equation(g) == g = [k \in 0..n |-> IF k = 0 THEN r ELSE Inked(g[k - 1], text[k])]
<1>1. n \in Nat /\ \A k \in 1..n : text[k] \in Chars
    OBVIOUS
<1>2. F \in [1..n -> [Seq(Chars) -> Seq(Chars)]]
    BY <1>1, InkedText
<1>3. PICK g \in [0..n -> Seq(Chars)] : g[0] = r /\ \A k \in 1..n : g[k] = F[k][g[k - 1]]
    <2> HIDE DEF F, n
    <2>1. r \in Seq(Chars) /\ n \in Nat
        BY <1>1
    <2>2. \E g : Iterates(g, Seq(Chars), r, n, F)
        BY <1>2, <2>1, Recursion, Zenon
    <2> QED BY <2>2, Zenon DEF Iterates
<1>4. \A k \in 1..n : k \in 0..n /\ k # 0 /\ k - 1 \in 0..n
    BY <1>1
<1>5. ASSUME NEW k \in 1..n PROVE F[k][g[k - 1]] = Inked(g[k - 1], text[k])
    <2>1. g[k - 1] \in Seq(Chars)
        BY <1>3, <1>4
    <2> QED BY <2>1
<1> HIDE DEF F, n
<1>6. Equation(g)
    <2>1. \A k \in 0..n : k = 0 \/ k \in 1..n
        BY <1>1
    <2>2. \A k \in 0..n : g[k] = IF k = 0 THEN r ELSE Inked(g[k - 1], text[k])
        BY <1>3, <1>5, <2>1
    <2> QED BY <1>3, <2>2
<1>7. PICK f : Equation(f) /\ Fill(r, text) = f[n]
    <2> DEFINE f == CHOOSE f : Equation(f)
    <2>1. Equation(f)
        BY <1>6
    <2>2. Fill(r, text) = f[n]
        BY DEF Fill, n
    <2> HIDE DEF f
    <2> QED BY <2>1, <2>2
<1>8. f[0] = r /\ \A k \in 1..n : f[k] = Inked(f[k - 1], text[k])
    <2>1. 0 \in 0..n
        BY <1>1
    <2> QED BY <1>4, <1>7, <2>1
<1> HIDE DEF Equation
<1> QED BY <1>7, <1>8 DEF n

\* A screen that shows some roll.
Showing == {s \in Screens : \E r : Shows(s, r)}

\* print() draws one character after the other.
LEMMA PrintSteps ==
    ASSUME NEW s \in Showing, NEW text \in Seq(Chars)
    PROVE  \E g : /\ PrintText(s, text) = g[Len(text)] /\ g[0] = s
                  /\ \A k \in 1..Len(text) : g[k] = PutChar(g[k - 1], text[k])
<1> DEFINE n == Len(text)
           F == [k \in 1..n |-> [q \in Showing |-> PutChar(q, text[k])]]
           Equation(g) == g = [k \in 0..n |-> IF k = 0 THEN s ELSE PutChar(g[k - 1], text[k])]
<1>1. n \in Nat /\ \A k \in 1..n : text[k] \in Chars
    OBVIOUS
<1>2. F \in [1..n -> [Showing -> Showing]]
    <2>1. ASSUME NEW q \in Showing, NEW c \in Chars PROVE PutChar(q, c) \in Showing
        <3>1. PICK r : Shows(q, r)
            BY DEF Showing
        <3>2. Shows(PutChar(q, c), Inked(r, c))
            BY <3>1, PutShows
        <3> QED BY <3>2 DEF Showing, Shows, Drawn
    <2> QED BY <1>1, <2>1
<1>3. PICK g \in [0..n -> Showing] : g[0] = s /\ \A k \in 1..n : g[k] = F[k][g[k - 1]]
    <2> HIDE DEF F, n
    <2>1. s \in Showing /\ n \in Nat
        BY <1>1
    <2>2. \E g : Iterates(g, Showing, s, n, F)
        BY <1>2, <2>1, Recursion, Zenon
    <2> QED BY <2>2, Zenon DEF Iterates
<1>4. \A k \in 1..n : k \in 0..n /\ k # 0 /\ k - 1 \in 0..n
    BY <1>1
<1>5. ASSUME NEW k \in 1..n PROVE F[k][g[k - 1]] = PutChar(g[k - 1], text[k])
    <2>1. g[k - 1] \in Showing
        BY <1>3, <1>4
    <2> QED BY <2>1
<1> HIDE DEF F, n
<1>6. Equation(g)
    <2>1. \A k \in 0..n : k = 0 \/ k \in 1..n
        BY <1>1
    <2>2. \A k \in 0..n : g[k] = IF k = 0 THEN s ELSE PutChar(g[k - 1], text[k])
        BY <1>3, <1>5, <2>1
    <2> QED BY <1>3, <2>2
<1>7. PICK f : Equation(f) /\ PrintText(s, text) = f[n]
    <2> DEFINE f == CHOOSE f : Equation(f)
    <2>1. Equation(f)
        BY <1>6
    <2>2. PrintText(s, text) = f[n]
        BY DEF PrintText, n
    <2> HIDE DEF f
    <2> QED BY <2>1, <2>2
<1>8. f[0] = s /\ \A k \in 1..n : f[k] = PutChar(f[k - 1], text[k])
    <2>1. 0 \in 0..n
        BY <1>1
    <2> QED BY <1>4, <1>7, <2>1
<1> HIDE DEF Equation
<1> QED BY <1>7, <1>8 DEF n

----------------------------------------------------------------------------
\* print() keeps the screen at the end of the roll; the cursor only goes back
\* when the screen scrolls, and then to the start of the last row.
LEMMA PrintShows ==
    ASSUME NEW s, NEW r, Shows(s, r), NEW text \in Seq(Chars)
    PROVE  /\ Shows(PrintText(s, text), Fill(r, text))
           /\ PrintText(s, text).cur >= s.cur \/ PrintText(s, text).cur >= Area - W
<1>1. s \in Showing /\ r \in Seq(Chars) /\ s.cur \in Nat
    BY ShownFacts DEF Showing
<1>2. PICK f : /\ PrintText(s, text) = f[Len(text)] /\ f[0] = s
               /\ \A k \in 1..Len(text) : f[k] = PutChar(f[k - 1], text[k])
    BY <1>1, PrintSteps
<1>3. PICK g : /\ Fill(r, text) = g[Len(text)] /\ g[0] = r
               /\ \A k \in 1..Len(text) : g[k] = Inked(g[k - 1], text[k])
    BY <1>1, FillSteps
<1> PICK n \in Nat : n = Len(text)
    OBVIOUS
<1> DEFINE T == {k \in Nat : /\ Shows(f[k], g[k])
                             /\ f[k].cur >= s.cur \/ f[k].cur >= Area - W}
<1>4. 0 \in T
    <2>1. s.cur >= s.cur
        BY ONLY <1>1
    <2> QED BY <1>2, <1>3, <2>1
<1>5. ASSUME NEW k \in 0..(n - 1), k \in T PROVE k + 1 \in T
    <2>1. k + 1 \in 1..n /\ (k + 1) - 1 = k /\ k \in Nat /\ k + 1 \in Nat
        BY ONLY n \in Nat, k \in 0..(n - 1)
    <2>2. text[k + 1] \in Chars
        BY <2>1
    <2>3. f[k + 1] = PutChar(f[k], text[k + 1]) /\ g[k + 1] = Inked(g[k], text[k + 1])
        BY <1>2, <1>3, <2>1
    <2>4. Shows(f[k], g[k]) /\ (f[k].cur >= s.cur \/ f[k].cur >= Area - W)
        BY <1>5
    <2>5. Shows(f[k + 1], g[k + 1]) /\ (f[k + 1].cur > f[k].cur \/ f[k + 1].cur = Area - W)
        BY <2>2, <2>3, <2>4, PutShows
    <2>6. f[k].cur \in Nat /\ f[k + 1].cur \in Nat /\ Area - W \in Nat
        BY <2>4, <2>5, ShownFacts, Numbers
    <2>7. f[k + 1].cur >= s.cur \/ f[k + 1].cur >= Area - W
        BY ONLY <1>1, <2>4, <2>5, <2>6
    <2> QED BY <2>1, <2>5, <2>7
<1> HIDE DEF T
<1>6. \A k \in 0..n : k \in T
    BY <1>4, <1>5, UpTo
<1>7. n \in T
    BY <1>6
<1> QED BY <1>2, <1>3, <1>7 DEF T

LEMMA FillNothing ==
    ASSUME NEW r \in Seq(Chars)
    PROVE  Fill(r, <<>>) = r
<1> PICK text : text = <<>>
    OBVIOUS
<1>1. text \in Seq(Chars) /\ Len(text) = 0
    OBVIOUS
<1>2. PICK g : /\ Fill(r, text) = g[Len(text)] /\ g[0] = r
               /\ \A k \in 1..Len(text) : g[k] = Inked(g[k - 1], text[k])
    BY ONLY <1>1, r \in Seq(Chars), FillSteps
<1> QED BY <1>1, <1>2

LEMMA FillNewLine ==
    ASSUME NEW r \in Seq(Chars)
    PROVE  Fill(r, <<"\n">>) = Inked(r, "\n")
<1> PICK c \in Chars : c = "\n"
    BY CharsAssumption
<1> PICK text : text = <<c>>
    OBVIOUS
<1>1. text \in Seq(Chars) /\ Len(text) = 1 /\ text[1] = c
    OBVIOUS
<1>2. PICK g : /\ Fill(r, text) = g[1] /\ g[0] = r
               /\ \A k \in 1..1 : g[k] = Inked(g[k - 1], text[k])
    BY ONLY <1>1, r \in Seq(Chars), FillSteps
<1>3. g[1] = Inked(g[0], c)
    BY <1>1, <1>2
<1> QED BY <1>2, <1>3

\* println()
LEMMA LineShows ==
    ASSUME NEW s, NEW r, Shows(s, r), NEW text \in Seq(Chars)
    PROVE  /\ Shows(PrintLine(s, text), Fill(Margin(r), text))
           /\ PrintLine(s, text).cur >= s.cur \/ PrintLine(s, text).cur >= Area - W
<1>1. /\ s.cur \in Nat /\ Len(r) \in Nat /\ s.cur <= Len(r) /\ (Len(r) - s.cur) % W = 0
      /\ r \in Seq(Chars)
    BY ShownFacts
<1>2. Len(r) % W = s.cur % W
    BY <1>1, Columns
<1> PICK t : t = IF s.cur % W # 0 THEN NewLine(s) ELSE s
    OBVIOUS
<1>3. PrintLine(s, text) = PrintText(t, text)
    BY DEF PrintLine
<1>4. Shows(t, Margin(r)) /\ (t.cur >= s.cur \/ t.cur = Area - W)
    <2>1. CASE s.cur % W # 0
        <3>1. t = NewLine(s) /\ Margin(r) = Inked(r, "\n")
            BY <1>1, <1>2, <2>1, FillNewLine DEF Margin
        <3>2. Shows(t, Margin(r)) /\ (t.cur > s.cur \/ t.cur = Area - W)
            BY <3>1, NewLineShows
        <3>3. t.cur \in Nat
            BY <3>2, ShownFacts
        <3>4. t.cur > s.cur => t.cur >= s.cur
            BY ONLY <1>1, <3>3
        <3> QED BY <3>2, <3>4
    <2>2. CASE s.cur % W = 0
        <3>1. t = s /\ Margin(r) = r
            BY <1>2, <2>2 DEF Margin
        <3>2. s.cur >= s.cur
            BY ONLY <1>1
        <3> QED BY <3>1, <3>2
    <2> QED BY <2>1, <2>2
<1> PICK u : u = PrintText(t, text)
    OBVIOUS
<1>5. Shows(u, Fill(Margin(r), text)) /\ (u.cur >= t.cur \/ u.cur >= Area - W)
    BY <1>4, PrintShows
<1>6. t.cur \in Nat /\ u.cur \in Nat /\ Area - W \in Nat
    BY <1>4, <1>5, ShownFacts, Numbers
<1>7. u.cur >= s.cur \/ u.cur >= Area - W
    BY ONLY <1>1, <1>4, <1>5, <1>6
<1> QED BY <1>3, <1>5, <1>7

LEMMA FrontFacts ==
    ASSUME NEW r \in Seq(Chars), Len(r) >= 1
    PROVE  /\ Front(r) \in Seq(Chars) /\ Len(Front(r)) = Len(r) - 1
           /\ \A i \in 1..(Len(r) - 1) : Front(r)[i] = r[i]
<1>1. Len(r) \in Nat /\ Front(r) = SubSeq(r, 1, Len(r) - 1)
    BY DEF Front
<1> PICK m \in Nat : m = Len(r) - 1
    BY ONLY <1>1, Len(r) >= 1
<1>2. \A i \in 1..m : r[i] \in Chars /\ (1 + i) - 1 = i
    BY m = Len(r) - 1
<1>3. /\ SubSeq(r, 1, m) \in Seq(Chars)
      /\ Len(SubSeq(r, 1, m)) = IF 1 <= m THEN m - 1 + 1 ELSE 0
      /\ \A i \in 1..(m - 1 + 1) : SubSeq(r, 1, m)[i] = r[1 + i - 1]
    BY ONLY <1>2, m \in Nat, SubSeqProperties
<1>4. Len(SubSeq(r, 1, m)) = m /\ m - 1 + 1 = m
    BY ONLY <1>3, m \in Nat
<1> QED BY <1>1, <1>2, <1>3, <1>4

\* Backspace takes the last character off the screen and off the roll.
LEMMA ErasedShows ==
    ASSUME NEW s, NEW r, Shows(s, r), s.cur >= 1
    PROVE  /\ Shows(Erased(s), Front(r)) /\ Erased(s).cur = s.cur - 1
           /\ Len(Front(r)) = Len(r) - 1 /\ \A i \in 1..(Len(r) - 1) : Front(r)[i] = r[i]
<1>1. /\ s \in Screens /\ r \in Seq(Chars) /\ s.cur \in Cells /\ s.cur <= Len(r)
      /\ (Len(r) - s.cur) % W = 0 /\ Len(r) \in Nat /\ s.cell \in [Cells -> Chars]
      /\ \A i \in Cells : s.cell[i] = IF i < s.cur THEN r[Len(r) - s.cur + i + 1] ELSE Blank
      /\ s.cur \in Nat
    BY ShownFacts
<1> PICK n : n = s.cur - 1
    OBVIOUS
<1>2. n \in Nat /\ n \in 0..Area /\ n \in Cells /\ s.cur = n + 1
    <2>1. s.cur \in Nat /\ s.cur \in Cells
        BY <1>1
    <2> QED BY ONLY <2>1, n = s.cur - 1, s.cur >= 1, Numbers
<1> PICK u : u = SetCursor(s, n)
    OBVIOUS
<1>3. u \in Screens /\ u.cur = n /\ u.cell = s.cell
    BY <1>1, <1>2, CursorSet
<1> DEFINE f == [i \in Cells |-> IF i = n THEN Blank ELSE s.cell[i]]
<1>4. f \in [Cells -> Chars]
    BY <1>1, BlankChar
<1>5. Erased(s) = [u EXCEPT !.cell = f]
    BY <1>3 DEF Erased, SetPixel
<1> HIDE DEF f
<1> PICK t : t = Erased(s)
    OBVIOUS
<1>6. t \in Screens /\ t.cur = n /\ t.cell = f
    BY <1>3, <1>4, <1>5, CellsSet
<1> PICK q : q = Front(r)
    OBVIOUS
<1>7. q \in Seq(Chars) /\ Len(q) = Len(r) - 1 /\ \A i \in 1..(Len(r) - 1) : q[i] = r[i]
    <2>1. Len(r) \in Nat /\ Len(r) >= 1 /\ r \in Seq(Chars)
        BY <1>1, <1>2
    <2> QED BY <2>1, FrontFacts
<1>8. Len(q) - t.cur = Len(r) - s.cur /\ t.cur <= Len(q) /\ Len(r) \in Nat /\ s.cur <= Len(r)
    <2>1. s.cur \in Nat /\ Len(r) \in Nat /\ s.cur <= Len(r)
        BY <1>1
    <2>2. t.cur = n /\ Len(q) = Len(r) - 1
        BY <1>6, <1>7
    <2> QED BY ONLY <2>1, <2>2, <1>2
<1>9. ASSUME NEW i \in Cells
      PROVE  f[i] = IF i < t.cur THEN q[Len(q) - t.cur + i + 1] ELSE Blank
    <2>1. i \in Nat
        BY Numbers
    <2>2. CASE i < n
        <3>1. /\ i < s.cur /\ i # n /\ Len(r) - s.cur + i + 1 \in 1..(Len(r) - 1)
              /\ Len(q) - t.cur + i + 1 = Len(r) - s.cur + i + 1
            BY ONLY <2>1, <2>2, <1>2, <1>8
        <3>2. f[i] = r[Len(r) - s.cur + i + 1]
            BY <3>1, <1>1 DEF f
        <3> QED BY <2>2, <3>1, <3>2, <1>6, <1>7
    <2>3. CASE i = n
        <3>1. ~ (i < t.cur)
            BY <2>1, <2>3, <1>6
        <3> QED BY <2>3, <3>1 DEF f
    <2>4. CASE i > n
        <3>1. ~ (i < s.cur) /\ ~ (i < n) /\ i # n
            BY ONLY <2>1, <2>4, <1>2
        <3>2. f[i] = Blank
            BY <3>1, <1>1 DEF f
        <3> QED BY <3>1, <3>2, <1>6
    <2>5. i < n \/ i = n \/ i > n
        BY ONLY <2>1, <1>2
    <2> QED BY <2>2, <2>3, <2>4, <2>5
<1>10. t.cell = [i \in Cells |-> IF i < t.cur THEN q[Len(q) - t.cur + i + 1] ELSE Blank]
    BY <1>4, <1>6, <1>9
<1>11. Shows(t, q)
    BY <1>1, <1>2, <1>6, <1>7, <1>8, <1>10 DEF Shows, Drawn
<1> QED BY <1>6, <1>7, <1>11

LEMMA ClearedShows == Shows(Cleared, <<>>) /\ Cleared.cur = 0
<1>1. <<>> \in Seq(Chars) /\ Len(<<>>) = 0 /\ 0 \in Cells /\ 0 \in 0..Area /\ 0 \in 0..(CursorMod - 1)
    BY Numbers
<1>2. Cleared \in Screens /\ Cleared.cur = 0 /\ Cleared.cell = [i \in Cells |-> Blank]
    BY <1>1, BlankChar DEF Cleared, Screens
<1>3. \A i \in Cells : ~ (i < 0)
    BY Numbers
<1>4. Cleared.cell = [i \in Cells |-> IF i < 0 THEN <<>>[Len(<<>>) - 0 + i + 1] ELSE Blank]
    BY <1>2, <1>3
<1>5. (0 - 0) % W = 0
    <2>1. 0 = W * 0 + 0 /\ 0 \in Nat /\ 0 < W /\ W \in Nat /\ 0 - 0 = 0
        BY Numbers
    <2> QED BY <2>1, Remainder
<1> QED BY <1>1, <1>2, <1>4, <1>5 DEF Shows, Drawn

----------------------------------------------------------------------------
(* The invariant of the console *)

Texts == todo \in [Procs -> Seq(Seq(Chars))]

Line == buffer \in Seq(Chars) /\ Len(buffer) < LenMod

\* The screen shows the end of the roll, and the line being typed is on it.
OnScreen == ~torn => Shows(scr, roll) /\ Len(buffer) <= scr.cur

\* The line being typed is the end of the roll, unless others wrote after it.
Echoed ==
    ~torn /\ alone /\ ~halted =>
        \A n \in 1..Len(buffer) : roll[Len(roll) - Len(buffer) + n] = buffer[n]

ConsoleInv == Texts /\ Line /\ OnScreen /\ Echoed

LEMMA ConsoleStart == ConsoleInit => ConsoleInv
<1> SUFFICES ASSUME ConsoleInit PROVE ConsoleInv
    OBVIOUS
<1>1. Texts
    BY DEF ConsoleInit, Texts
<1>2. Line /\ buffer = <<>> /\ Len(buffer) = 0
    BY Numbers DEF ConsoleInit, Line
<1>3. OnScreen
    <2>1. Shows(scr, roll) /\ scr.cur = 0
        BY ClearedShows DEF ConsoleInit
    <2> QED BY <1>2, <2>1 DEF OnScreen
<1>4. Echoed
    BY <1>2 DEF Echoed
<1> QED BY <1>1, <1>2, <1>3, <1>4 DEF ConsoleInv

\* Steps that leave the screen and the buffer alone.
LEMMA QuietStep ==
    ASSUME ConsoleInv, Texts', scr' = scr, buffer' = buffer, roll' = roll, torn' = torn,
           alone' = alone, halted' = halted
    PROVE  ConsoleInv'
BY DEF ConsoleInv, Line, OnScreen, Echoed

LEMMA PrintfStep ==
    ASSUME ConsoleInv, NEW p \in Procs, NEW c \in Calls[p], Printf(p, c)
    PROVE  ConsoleInv'
<1>1. Texts'
    BY TextsAssumption DEF Printf, ConsoleInv, Texts
<1> QED BY <1>1, QuietStep DEF Printf

LEMMA WriteStep ==
    ASSUME ConsoleInv, NEW p \in Procs, Write(p)
    PROVE  ConsoleInv'
<1> PICK text : text = Head(todo[p])
    OBVIOUS
<1>1. /\ todo[p] # <<>> /\ scr' = PrintText(scr, text) /\ roll' = Fill(roll, text)
      /\ alone' = (alone /\ (buffer = <<>> \/ text = <<>>))
      /\ buffer' = buffer /\ halted' = halted /\ torn' = torn
      /\ todo' = [todo EXCEPT ![p] = Tail(@)]
    BY DEF Write
<1>2. todo[p] \in Seq(Seq(Chars)) /\ todo \in [Procs -> Seq(Seq(Chars))]
    BY DEF ConsoleInv, Texts
<1>3. text \in Seq(Chars) /\ Tail(todo[p]) \in Seq(Seq(Chars))
    BY <1>1, <1>2, HeadTailProperties
<1>4. Texts'
    BY <1>1, <1>2, <1>3 DEF Texts
<1>5. Line' /\ Len(buffer) \in Nat /\ Len(buffer) < LenMod /\ Len(buffer') = Len(buffer)
    BY <1>1 DEF ConsoleInv, Line
<1>6. OnScreen'
    <2>1. SUFFICES ASSUME ~torn PROVE Shows(scr', roll') /\ Len(buffer') <= scr'.cur
        BY <1>1 DEF OnScreen
    <2>2. Shows(scr, roll) /\ Len(buffer) <= scr.cur
        BY <2>1 DEF ConsoleInv, OnScreen
    <2>3. Shows(scr', roll') /\ (scr'.cur >= scr.cur \/ scr'.cur >= Area - W)
        BY <1>1, <1>3, <2>2, PrintShows
    <2>4. scr.cur \in Nat /\ scr'.cur \in Nat
        BY <2>2, <2>3, ShownFacts
    <2>5. Len(buffer) <= scr'.cur
        BY ONLY <1>5, <2>2, <2>3, <2>4, Numbers
    <2> QED BY <1>5, <2>3, <2>5
<1>7. Echoed'
    <2>1. SUFFICES ASSUME ~torn, alone', ~halted
                   PROVE  \A n \in 1..Len(buffer') : roll'[Len(roll') - Len(buffer') + n] = buffer'[n]
        BY <1>1 DEF Echoed
    <2>2. CASE buffer = <<>>
        BY <1>1, <2>2
    <2>3. CASE text = <<>> /\ alone
        <3>1. roll \in Seq(Chars)
            BY <2>1, ShownFacts DEF ConsoleInv, OnScreen
        <3>2. roll' = roll
            BY <1>1, <2>3, <3>1, FillNothing
        <3> QED BY <1>1, <2>1, <2>3, <3>2 DEF ConsoleInv, Echoed
    <2> QED BY <1>1, <2>1, <2>2, <2>3
<1> QED BY <1>4, <1>5, <1>6, <1>7 DEF ConsoleInv

\* Steps after which the screen is clear.
LEMMA ClearStep ==
    ASSUME ConsoleInv, scr' = Cleared, roll' = <<>>, todo' = todo,
           buffer' = buffer \/ buffer' = <<>>, ~torn' => buffer' = <<>>
    PROVE  ConsoleInv'
<1>1. Texts' /\ Line' /\ (buffer' = <<>> => Len(buffer') = 0)
    <2>1. Texts'
        BY DEF ConsoleInv, Texts
    <2>2. CASE buffer' = buffer
        BY <2>1, <2>2 DEF ConsoleInv, Line
    <2>3. CASE buffer' = <<>>
        BY <2>1, <2>3, Numbers DEF Line
    <2> QED BY <2>2, <2>3
<1>2. OnScreen'
    <2>1. Shows(scr', roll') /\ scr'.cur = 0
        BY ClearedShows
    <2> QED BY <1>1, <2>1 DEF OnScreen
<1>3. Echoed'
    BY <1>1 DEF Echoed
<1> QED BY <1>1, <1>2, <1>3 DEF ConsoleInv

\* read() and what it delivers.
LEMMA DeliverStep ==
    ASSUME ConsoleInv, NEW p \in Procs, Deliver(p)
    PROVE  ConsoleInv'
<1>1. /\ buffer' = <<>> /\ Len(buffer') = 0 /\ scr' = scr /\ roll' = roll /\ todo' = todo
      /\ torn' = torn
    BY DEF Deliver
<1>2. Texts' /\ Line'
    BY <1>1, Numbers DEF ConsoleInv, Texts, Line
<1>3. OnScreen'
    <2>1. SUFFICES ASSUME ~torn PROVE Shows(scr, roll) /\ 0 <= scr.cur
        BY <1>1 DEF OnScreen
    <2> QED BY <2>1, ShownFacts DEF ConsoleInv, OnScreen
<1>4. Echoed'
    BY <1>1 DEF Echoed
<1> QED BY <1>2, <1>3, <1>4 DEF ConsoleInv

\* What a key adds to the buffer.
LEMMA PutFacts ==
    ASSUME Line, NEW c \in Chars
    PROVE  /\ Put(c) \in Seq(Chars) /\ Len(Put(c)) < LenMod
           /\ \/ Put(c) = <<>> /\ Len(Put(c)) = 0
              \/ Put(c) = Append(buffer, c) /\ Len(Put(c)) = Len(buffer) + 1
<1>1. buffer \in Seq(Chars) /\ Len(buffer) \in Nat /\ Len(buffer) < LenMod /\ LenMod \in Nat /\ LenMod > 1
    BY Numbers DEF Line
<1>2. CASE Len(buffer) + 1 = LenMod
    <2>1. Put(c) = <<>>
        BY <1>2 DEF Put
    <2> QED BY <1>1, <2>1
<1>3. CASE Len(buffer) + 1 # LenMod
    <2>1. Put(c) = Append(buffer, c)
        BY <1>3 DEF Put
    <2>2. Append(buffer, c) \in Seq(Chars) /\ Len(Append(buffer, c)) = Len(buffer) + 1
        BY <1>1, AppendFacts
    <2> QED BY <1>1, <1>3, <2>1, <2>2
<1> QED BY <1>2, <1>3

LEMMA KeyStep ==
    ASSUME ConsoleInv, NEW c \in Keys, Key(c)
    PROVE  ConsoleInv'
<1>1. /\ buffer' = Put(c) /\ scr' = Advance(SetPixel(scr, c)) /\ roll' = Append(roll, c)
      /\ alone' = (alone \/ buffer' = <<>>) /\ todo' = todo /\ halted' = halted /\ torn' = torn
    BY DEF Key
<1>2. c \in Chars /\ Line /\ Texts
    BY CharsAssumption DEF ConsoleInv
<1>3. /\ buffer' \in Seq(Chars) /\ Len(buffer') < LenMod
      /\ \/ buffer' = <<>> /\ Len(buffer') = 0
         \/ buffer' = Append(buffer, c) /\ Len(buffer') = Len(buffer) + 1
    BY <1>1, <1>2, PutFacts
<1>4. Texts' /\ Line'
    BY <1>1, <1>2, <1>3 DEF Texts, Line
<1>5. buffer \in Seq(Chars) /\ Len(buffer) \in Nat /\ Len(buffer') \in Nat
    BY <1>2, <1>3 DEF Line
<1>6. OnScreen'
    <2>1. SUFFICES ASSUME ~torn PROVE Shows(scr', roll') /\ Len(buffer') <= scr'.cur
        BY <1>1 DEF OnScreen
    <2>2. Shows(scr, roll) /\ Len(buffer) <= scr.cur
        BY <2>1 DEF ConsoleInv, OnScreen
    <2>3. Shows(scr', roll') /\ (scr'.cur = scr.cur + 1 \/ scr'.cur = Area - W)
        BY <1>1, <1>2, <2>2, AdvanceShows
    <2>4. scr.cur \in Nat /\ scr'.cur \in Nat
        BY <2>2, <2>3, ShownFacts
    <2>5. Len(buffer') = 0 \/ Len(buffer') = Len(buffer) + 1
        BY <1>3
    <2>6. Len(buffer') < LenMod
        BY <1>3
    <2>7. Len(buffer') <= scr'.cur
        BY ONLY <1>5, <2>2, <2>3, <2>4, <2>5, <2>6, Numbers
    <2> QED BY <2>3, <2>7
<1>7. Echoed'
    <2>1. SUFFICES ASSUME ~torn, alone', ~halted, NEW n \in 1..Len(buffer')
                   PROVE  roll'[Len(roll') - Len(buffer') + n] = buffer'[n]
        BY <1>1 DEF Echoed
    <2>2. CASE buffer' = <<>>
        BY <2>2
    <2>3. CASE buffer' = Append(buffer, c) /\ Len(buffer') = Len(buffer) + 1 /\ alone
        <3>1. Shows(scr, roll) /\ Len(buffer) <= scr.cur
            BY <2>1 DEF ConsoleInv, OnScreen
        <3>2. roll \in Seq(Chars) /\ Len(roll) \in Nat /\ Len(buffer) <= Len(roll)
            <4>1. roll \in Seq(Chars) /\ Len(roll) \in Nat /\ scr.cur \in Nat /\ scr.cur <= Len(roll)
                BY <3>1, ShownFacts
            <4>2. Len(buffer) <= Len(roll)
                BY ONLY <4>1, <3>1, <1>5
            <4> QED BY <4>1, <4>2
        <3>3. /\ Len(roll') = Len(roll) + 1 /\ roll'[Len(roll) + 1] = c
              /\ \A i \in 1..Len(roll) : roll'[i] = roll[i]
            BY <1>1, <1>2, <3>2, AppendFacts
        <3>4. /\ \A i \in 1..Len(buffer) : buffer'[i] = buffer[i]
              /\ buffer'[Len(buffer) + 1] = c
            BY <1>2, <1>5, <2>3, AppendFacts
        <3>5. Len(roll') - Len(buffer') + n = Len(roll) - Len(buffer) + n
            BY ONLY <1>5, <2>3, <3>2, <3>3, n \in 1..Len(buffer')
        <3>6. CASE n = Len(buffer) + 1
            <4>1. Len(roll) - Len(buffer) + n = Len(roll) + 1
                BY ONLY <1>5, <3>2, <3>6
            <4> QED BY <3>3, <3>4, <3>5, <3>6, <4>1
        <3>7. CASE n \in 1..Len(buffer)
            <4>1. Len(roll) - Len(buffer) + n \in 1..Len(roll)
                BY ONLY <1>5, <3>2, <3>7
            <4>2. roll[Len(roll) - Len(buffer) + n] = buffer[n]
                BY <2>1, <2>3, <3>7 DEF ConsoleInv, Echoed
            <4> QED BY <3>3, <3>4, <3>5, <3>7, <4>1, <4>2
        <3>8. n = Len(buffer) + 1 \/ n \in 1..Len(buffer)
            BY ONLY <1>5, <2>3, n \in 1..Len(buffer')
        <3> QED BY <3>6, <3>7, <3>8
    <2> QED BY <1>1, <1>3, <2>1, <2>2, <2>3
<1> QED BY <1>4, <1>6, <1>7 DEF ConsoleInv

LEMMA BackspaceStep ==
    ASSUME ConsoleInv, Backspace
    PROVE  ConsoleInv'
<1>1. /\ buffer # <<>> /\ buffer' = Front(buffer) /\ scr' = Erased(scr)
      /\ roll' = IF roll = <<>> THEN roll ELSE Front(roll)
      /\ alone' = (alone \/ buffer' = <<>>) /\ todo' = todo /\ halted' = halted /\ torn' = torn
    BY DEF Backspace
<1>2. buffer \in Seq(Chars) /\ Len(buffer) \in Nat /\ Len(buffer) < LenMod /\ Len(buffer) >= 1
    BY <1>1 DEF ConsoleInv, Line
<1>3. /\ buffer' \in Seq(Chars) /\ Len(buffer') = Len(buffer) - 1
      /\ \A n \in 1..(Len(buffer) - 1) : buffer'[n] = buffer[n]
    BY <1>1, <1>2, FrontFacts
<1>4. Len(buffer') \in Nat /\ Len(buffer') < LenMod
    BY ONLY <1>2, <1>3, Numbers
<1>5. Texts' /\ Line'
    BY <1>1, <1>3, <1>4 DEF ConsoleInv, Texts, Line
<1>6. ASSUME ~torn
      PROVE  /\ Shows(scr, roll) /\ Len(buffer) <= Len(roll) /\ Len(roll) \in Nat
             /\ Shows(scr', roll') /\ scr'.cur = scr.cur - 1 /\ Len(buffer') <= scr'.cur
             /\ Len(roll') = Len(roll) - 1 /\ \A i \in 1..(Len(roll) - 1) : roll'[i] = roll[i]
    <2>1. Shows(scr, roll) /\ Len(buffer) <= scr.cur
        BY <1>6 DEF ConsoleInv, OnScreen
    <2>2. scr.cur \in Nat /\ Len(roll) \in Nat /\ scr.cur <= Len(roll)
        BY <2>1, ShownFacts
    <2>3. scr.cur >= 1 /\ Len(roll) >= 1 /\ Len(buffer) <= Len(roll)
        BY ONLY <1>2, <2>1, <2>2
    <2>4. roll # <<>>
        BY <2>3
    <2>5. roll' = Front(roll)
        BY <1>1, <2>4
    <2>6. /\ Shows(scr', roll') /\ scr'.cur = scr.cur - 1
          /\ Len(roll') = Len(roll) - 1 /\ \A i \in 1..(Len(roll) - 1) : roll'[i] = roll[i]
        BY <1>1, <2>1, <2>3, <2>5, ErasedShows
    <2>7. Len(buffer') <= scr'.cur
        BY ONLY <1>2, <1>3, <2>1, <2>2, <2>6
    <2> QED BY <2>1, <2>2, <2>3, <2>6, <2>7
<1>7. OnScreen'
    BY <1>1, <1>6 DEF OnScreen
<1>8. Echoed'
    <2>1. SUFFICES ASSUME ~torn, alone', ~halted, NEW n \in 1..Len(buffer')
                   PROVE  roll'[Len(roll') - Len(buffer') + n] = buffer'[n]
        BY <1>1 DEF Echoed
    <2>2. CASE buffer' = <<>>
        BY <2>2
    <2>3. CASE alone
        <3>1. /\ n \in 1..(Len(buffer) - 1) /\ n \in 1..Len(buffer)
              /\ Len(roll') - Len(buffer') + n = Len(roll) - Len(buffer) + n
              /\ Len(roll) - Len(buffer) + n \in 1..(Len(roll) - 1)
            <4>1. /\ Len(roll) \in Nat /\ Len(buffer) <= Len(roll) /\ Len(roll') = Len(roll) - 1
                BY <2>1, <1>6
            <4> QED BY ONLY <4>1, <1>2, <1>3, n \in 1..Len(buffer')
        <3>2. roll[Len(roll) - Len(buffer) + n] = buffer[n]
            BY <2>1, <2>3, <3>1 DEF ConsoleInv, Echoed
        <3>3. roll'[Len(roll) - Len(buffer) + n] = roll[Len(roll) - Len(buffer) + n]
            BY <2>1, <1>6, <3>1
        <3> QED BY <1>3, <3>1, <3>2, <3>3
    <2> QED BY <1>1, <2>1, <2>2, <2>3
<1> QED BY <1>5, <1>7, <1>8 DEF ConsoleInv

LEMMA EnterStep ==
    ASSUME ConsoleInv, Enter
    PROVE  ConsoleInv'
<1>1. /\ buffer' = Put("NUL") /\ scr' = NewLine(scr) /\ roll' = Fill(roll, <<"\n">>)
      /\ alone' = (buffer' = <<>>) /\ todo' = todo /\ halted' = halted /\ torn' = torn
    BY DEF Enter
<1>2. PICK c \in Chars : c = "NUL"
    BY CharsAssumption
<1>3. /\ buffer' \in Seq(Chars) /\ Len(buffer') < LenMod
      /\ Len(buffer') = 0 \/ Len(buffer') = Len(buffer) + 1
    BY <1>1, <1>2, PutFacts DEF ConsoleInv
<1>4. Texts' /\ Line'
    BY <1>1, <1>3 DEF ConsoleInv, Texts, Line
<1>5. Len(buffer) \in Nat /\ Len(buffer') \in Nat
    BY <1>3 DEF ConsoleInv, Line
<1>6. OnScreen'
    <2>1. SUFFICES ASSUME ~torn PROVE Shows(scr', roll') /\ Len(buffer') <= scr'.cur
        BY <1>1 DEF OnScreen
    <2>2. Shows(scr, roll) /\ Len(buffer) <= scr.cur
        BY <2>1 DEF ConsoleInv, OnScreen
    <2>3. roll \in Seq(Chars) /\ scr.cur \in Nat
        BY <2>2, ShownFacts
    <2>4. roll' = Inked(roll, "\n")
        BY <1>1, <2>3, FillNewLine
    <2>5. Shows(scr', roll') /\ (scr'.cur > scr.cur \/ scr'.cur = Area - W)
        BY <1>1, <2>2, <2>4, NewLineShows
    <2>6. scr'.cur \in Nat /\ Len(buffer') < LenMod
        BY <1>3, <2>5, ShownFacts
    <2>7. Len(buffer') <= scr'.cur
        BY ONLY <1>3, <1>5, <2>2, <2>3, <2>5, <2>6, Numbers
    <2> QED BY <2>5, <2>7
<1>7. Echoed'
    <2>1. SUFFICES ASSUME alone', NEW n \in 1..Len(buffer')
                   PROVE  roll'[Len(roll') - Len(buffer') + n] = buffer'[n]
        BY DEF Echoed
    <2>2. buffer' = <<>>
        BY <1>1, <2>1
    <2> QED BY <2>2
<1> QED BY <1>4, <1>6, <1>7 DEF ConsoleInv

LEMMA PanicStep ==
    ASSUME ConsoleInv, KPanic
    PROVE  ConsoleInv'
<1> DEFINE S(clears) == IF clears THEN Cleared ELSE scr
           R(clears) == IF clears THEN <<>> ELSE roll
<1>0. PICK clears \in BOOLEAN : /\ scr' = PrintLine(PrintLine(S(clears), Panic[1]), Panic[2])
                               /\ roll' = Fill(Margin(Fill(Margin(R(clears)), Panic[1])), Panic[2])
                               /\ torn' = IF clears THEN buffer # <<>> ELSE torn
    BY Zenon DEF KPanic
<1> PICK from : from = S(clears)
    OBVIOUS
<1> PICK sofar : sofar = R(clears)
    OBVIOUS
<1>1. /\ halted' = TRUE /\ scr' = PrintLine(PrintLine(from, Panic[1]), Panic[2])
      /\ roll' = Fill(Margin(Fill(Margin(sofar), Panic[1])), Panic[2])
      /\ buffer' = buffer /\ todo' = todo
    BY <1>0 DEF KPanic
<1>2. PICK one \in Seq(Chars) : one = Panic[1]
    BY CharsAssumption
<1>3. PICK two \in Seq(Chars) : two = Panic[2]
    BY CharsAssumption
<1>4. Texts' /\ Line' /\ Echoed'
    BY <1>1 DEF ConsoleInv, Texts, Line, Echoed
<1>5. OnScreen'
    <2>1. SUFFICES ASSUME clears => buffer = <<>>, ~clears => ~torn PROVE Shows(scr', roll') /\ Len(buffer) <= scr'.cur
        BY <1>0, <1>1 DEF OnScreen
    <2>2. Shows(from, sofar) /\ Len(buffer) <= from.cur
        <3>1. CASE clears
            <4>1. from = Cleared /\ sofar = <<>> /\ Len(buffer) = 0
                BY <2>1, <3>1
            <4> QED BY <4>1, ClearedShows
        <3>2. CASE ~clears
            BY <2>1, <3>2 DEF ConsoleInv, OnScreen
        <3> QED BY <3>1, <3>2
    <2> PICK s : s = PrintLine(from, one)
        OBVIOUS
    <2> PICK r : r = Fill(Margin(sofar), one)
        OBVIOUS
    <2>3. Shows(s, r) /\ (s.cur >= from.cur \/ s.cur >= Area - W)
        BY <2>2, LineShows
    <2>4. scr' = PrintLine(s, two) /\ roll' = Fill(Margin(r), two)
        BY <1>1, <1>2, <1>3
    <2>5. Shows(scr', roll') /\ (scr'.cur >= s.cur \/ scr'.cur >= Area - W)
        BY <2>3, <2>4, LineShows
    <2>6. from.cur \in Nat /\ s.cur \in Nat /\ scr'.cur \in Nat
        BY <2>2, <2>3, <2>5, ShownFacts
    <2>7. Len(buffer) \in Nat /\ Len(buffer) < LenMod
        BY DEF ConsoleInv, Line
    <2>8. Len(buffer) <= scr'.cur
        BY ONLY <2>2, <2>3, <2>5, <2>6, <2>7, Numbers
    <2> QED BY <2>5, <2>8
<1> QED BY <1>4, <1>5 DEF ConsoleInv

----------------------------------------------------------------------------
(* The theorems on the console *)

\* The invariant of screen, roll and buffer, for any screen, programs and keys.
THEOREM ConsoleInvariance == ConsoleSpec => []ConsoleInv
<1>1. ASSUME ConsoleInv, [ConsoleNext]_consoleVars PROVE ConsoleInv'
    <2>1. ASSUME NEW p \in Procs, NEW c \in Calls[p], Printf(p, c) PROVE ConsoleInv'
        BY <1>1, <2>1, PrintfStep
    <2>2. ASSUME NEW p \in Procs, Write(p) PROVE ConsoleInv'
        BY <1>1, <2>2, WriteStep
    <2>3. ASSUME NEW p \in Procs, Clear(p) PROVE ConsoleInv'
        BY <1>1, <2>3, ClearStep DEF Clear
    <2>4. ASSUME NEW p \in Procs, Read(p) PROVE ConsoleInv'
        <3>1. Texts'
            BY <1>1, <2>4 DEF Read, ConsoleInv, Texts
        <3> QED BY <1>1, <2>4, <3>1, QuietStep DEF Read
    <2>5. ASSUME NEW p \in Procs, Deliver(p) PROVE ConsoleInv'
        BY <1>1, <2>5, DeliverStep
    <2>6. ASSUME NEW c \in Keys, Key(c) PROVE ConsoleInv'
        BY <1>1, <2>6, KeyStep
    <2>7. ASSUME Backspace PROVE ConsoleInv'
        BY <1>1, <2>7, BackspaceStep
    <2>8. ASSUME Escape PROVE ConsoleInv'
        BY <1>1, <2>8, ClearStep DEF Escape
    <2>9. ASSUME Enter PROVE ConsoleInv'
        BY <1>1, <2>9, EnterStep
    <2>10. ASSUME KPanic PROVE ConsoleInv'
        BY <1>1, <2>10, PanicStep
    <2>11. ASSUME UNCHANGED consoleVars PROVE ConsoleInv'
        <3>1. Texts'
            BY <1>1, <2>11 DEF consoleVars, ConsoleInv, Texts
        <3> QED BY <1>1, <2>11, <3>1, QuietStep DEF consoleVars
    <2> QED
        BY <1>1, <2>1, <2>2, <2>3, <2>4, <2>5, <2>6, <2>7, <2>8, <2>9, <2>10, <2>11
           DEF ConsoleNext, ConsoleHalted
<1> QED BY <1>1, ConsoleStart, PTL DEF ConsoleSpec

\* The screen shows the end of all that was written, with nothing lost, moved or
\* left behind the cursor, whoever writes in whatever order.
THEOREM ShowsEndTheorem == ConsoleSpec => []ShowsEnd
<1>1. ASSUME ConsoleInv PROVE ShowsEnd
    BY <1>1 DEF ConsoleInv, OnScreen, Shows, Drawn, ShowsEnd
<1> QED BY <1>1, ConsoleInvariance, PTL

\* The line being typed stands in front of the cursor as it is in the buffer.
THEOREM EchoShownTheorem == ConsoleSpec => []EchoShown
<1>1. ASSUME ConsoleInv PROVE EchoShown
    <2>1. SUFFICES ASSUME ~torn, alone, ~halted, NEW n \in 1..Len(buffer)
                   PROVE  scr.cell[scr.cur - Len(buffer) + n - 1] = buffer[n]
        BY DEF EchoShown
    <2>2. Shows(scr, roll) /\ Len(buffer) <= scr.cur /\ Len(buffer) \in Nat
        BY <1>1, <2>1 DEF ConsoleInv, OnScreen, Line
    <2>3. roll[Len(roll) - Len(buffer) + n] = buffer[n]
        BY <1>1, <2>1 DEF ConsoleInv, Echoed
    <2> PICK i : i = scr.cur - Len(buffer) + n - 1
        OBVIOUS
    <2>4. scr.cur \in Nat /\ scr.cur \in Cells /\ Len(roll) \in Nat
        BY <2>2, ShownFacts
    <2>5. i \in Cells /\ i < scr.cur /\ Len(roll) - scr.cur + i + 1 = Len(roll) - Len(buffer) + n
        BY ONLY <2>2, <2>4, n \in 1..Len(buffer), i = scr.cur - Len(buffer) + n - 1, Numbers
    <2>6. scr.cell[i] = roll[Len(roll) - scr.cur + i + 1]
        BY <2>2, <2>5, ShownFacts
    <2> QED BY <2>3, <2>5, <2>6
<1> QED BY <1>1, ConsoleInvariance, PTL

----------------------------------------------------------------------------
(* EXT2: the walk over a directory *)

\* Where the walk is after m entries.
Behind(all, m) ==
    IF m = 0 THEN 0
    ELSE IF m = Len(all) THEN all[m].offset + all[m].words ELSE all[m + 1].offset

\* A chain of entries that ends in zeros.
Chain(all, block) ==
    /\ Len(all) \in 1..MaxEntries /\ all[1].offset = 0
    /\ \A k \in 1..Len(all) :
          /\ all[k].offset \in Nat /\ Behind(all, k) \in Nat /\ all[k].removed \in BOOLEAN
          /\ block[all[k].offset].inode = IF all[k].removed THEN 0 ELSE all[k].inode
          /\ ~all[k].removed => all[k].inode # 0
          /\ Behind(all, k) = all[k].offset + Words(block[all[k].offset].name_length)
    /\ block[Behind(all, Len(all))].inode = 0

\* Those of the first m entries that are not the directory itself.
Others(all, own, m) == {k \in 1..m : all[k].inode # own}

\* Those that come no later than entry k.
Among(P, k) == {j \in P : j <= k}

\* What the walk has after m entries, none of them removed.
Listing(all, block, own, m, w) ==
    /\ m \in 0..Len(all) /\ \A j \in 1..m : ~all[j].removed
    /\ w.at = Behind(all, m)
    /\ Len(w.list) = Cardinality(Others(all, own, m))
    /\ \A k \in Others(all, own, m) :
          w.list[Cardinality(Among(Others(all, own, m), k))] = block[all[k].offset]

Records(all, block) == {block[all[k].offset] : k \in {j \in 1..Len(all) : ~all[j].removed}}

\* The walk has come to its end.
Ended(all, m) == m = Len(all) \/ all[m + 1].removed

LEMMA AppendTo ==
    ASSUME NEW S, NEW s \in Seq(S), NEW e \in S
    PROVE  /\ Append(s, e) \in Seq(S) /\ Len(Append(s, e)) = Len(s) + 1 /\ Len(s) \in Nat
           /\ \A i \in 1..Len(s) : Append(s, e)[i] = s[i]
           /\ Append(s, e)[Len(s) + 1] = e
OBVIOUS

LEMMA OthersFinite ==
    ASSUME NEW all, NEW own, NEW m \in Nat, NEW T \in SUBSET Others(all, own, m)
    PROVE  /\ IsFiniteSet(T) /\ Cardinality(T) \in Nat
           /\ Cardinality(T) <= Cardinality(Others(all, own, m))
<1>1. IsFiniteSet(1..m)
    BY FS_Interval
<1>2. Others(all, own, m) \in SUBSET (1..m)
    BY DEF Others
<1>3. IsFiniteSet(Others(all, own, m))
    BY <1>1, <1>2, FS_Subset
<1> QED BY <1>3, FS_Subset, FS_CardinalityType

\* An entry that is not the directory itself is one more of the others.
LEMMA OthersGrow ==
    ASSUME NEW all, NEW own, NEW m \in Nat
    PROVE  /\ all[m + 1].inode = own => Others(all, own, m + 1) = Others(all, own, m)
           /\ all[m + 1].inode # own =>
                 /\ Others(all, own, m + 1) = Others(all, own, m) \cup {m + 1}
                 /\ Cardinality(Others(all, own, m + 1)) = Cardinality(Others(all, own, m)) + 1
                 /\ Among(Others(all, own, m + 1), m + 1) = Others(all, own, m + 1)
           /\ \A k \in Others(all, own, m) :
                 Among(Others(all, own, m + 1), k) = Among(Others(all, own, m), k)
<1> DEFINE P == Others(all, own, m)
           Q == Others(all, own, m + 1)
<1>1. \A k \in 1..(m + 1) : k \in 1..m \/ k = m + 1
    OBVIOUS
<1>2. m + 1 \in 1..(m + 1) /\ \A k \in 1..m : k \in 1..(m + 1) /\ k # m + 1 /\ k <= m + 1 /\ ~ (m + 1 <= k)
    OBVIOUS
<1>3. all[m + 1].inode = own => Q = P
    BY <1>1, <1>2 DEF Others
<1>4. ASSUME all[m + 1].inode # own
      PROVE  Q = P \cup {m + 1} /\ Cardinality(Q) = Cardinality(P) + 1
    <2>1. Q = P \cup {m + 1}
        BY <1>1, <1>2, <1>4 DEF Others
    <2>2. m + 1 \notin P
        BY <1>2 DEF Others
    <2>3. IsFiniteSet(P)
        BY OthersFinite
    <2> HIDE DEF P, Q
    <2> QED BY <2>1, <2>2, <2>3, FS_AddElement
<1>5. Among(Q, m + 1) = Q
    BY DEF Others, Among
<1>6. ASSUME NEW k \in P PROVE Among(Q, k) = Among(P, k)
    <2>1. k \in 1..m
        BY DEF Others
    <2> QED BY <1>1, <1>2, <2>1 DEF Others, Among
<1> QED BY <1>3, <1>4, <1>5, <1>6

\* A pass takes the next entry, or nothing once the walk has ended.
LEMMA PassListing ==
    ASSUME NEW all, NEW block, NEW own, Chain(all, block), NEW m, NEW w,
           w \in [at : Nat, list : Seq(Records(all, block))], Listing(all, block, own, m, w)
    PROVE  /\ Pass(block, own, w) \in [at : Nat, list : Seq(Records(all, block))]
           /\ Ended(all, m) => Pass(block, own, w) = w
           /\ ~Ended(all, m) => Listing(all, block, own, m + 1, Pass(block, own, w))
<1> DEFINE R == Records(all, block)
           P == Others(all, own, m)
           Q == Others(all, own, m + 1)
           e == block[w.at]
           v == Pass(block, own, w)
<1>0. m \in 0..Len(all) /\ m \in Nat /\ Len(all) \in Nat /\ Len(all) >= 1 /\ w.at = Behind(all, m)
    BY Ext2Assumption DEF Listing, Chain
<1>1. CASE Ended(all, m)
    <2>1. e.inode = 0
        <3>1. CASE m = Len(all)
            BY <1>0, <3>1 DEF Chain
        <3>2. CASE m # Len(all) /\ all[m + 1].removed
            <4>1. m + 1 \in 1..Len(all)
                BY <1>0, <3>2
            <4>2. Behind(all, m) = all[m + 1].offset
                BY <1>0, <3>2 DEF Behind, Chain
            <4> QED BY <1>0, <3>2, <4>1, <4>2 DEF Chain
        <3> QED BY <1>1, <3>1, <3>2 DEF Ended
    <2> QED BY <1>1, <2>1 DEF Pass
<1>2. CASE ~Ended(all, m)
    <2>1. m + 1 \in 1..Len(all) /\ m # Len(all) /\ ~all[m + 1].removed
        BY <1>0, <1>2 DEF Ended
    <2>2. Behind(all, m) = all[m + 1].offset
        BY <1>0, <2>1 DEF Behind, Chain
    <2>3. e = block[all[m + 1].offset] /\ e \in R
        BY <1>0, <2>1, <2>2 DEF Records
    <2>4. e.inode = all[m + 1].inode /\ e.inode # 0
        BY <2>1, <2>3 DEF Chain
    <2>5. w.at + Words(e.name_length) = Behind(all, m + 1) /\ Behind(all, m + 1) \in Nat
        BY <1>0, <2>1, <2>2, <2>3 DEF Chain
    <2> PICK l : l = IF e.inode = own THEN w.list ELSE Append(w.list, e)
        OBVIOUS
    <2>6. v = [at |-> Behind(all, m + 1), list |-> l]
        BY <2>4, <2>5 DEF Pass
    <2>7. w.list \in Seq(R) /\ Len(w.list) = Cardinality(P)
        BY DEF Listing
    <2>8. \A k \in P : w.list[Cardinality(Among(P, k))] = block[all[k].offset]
        BY DEF Listing
    <2>9. /\ all[m + 1].inode = own => Q = P
          /\ all[m + 1].inode # own =>
                /\ Q = P \cup {m + 1}
                /\ Cardinality(Q) = Cardinality(P) + 1
                /\ Among(Q, m + 1) = Q
          /\ \A k \in P : Among(Q, k) = Among(P, k)
        <3>1. m \in Nat
            BY <1>0
        <3> QED BY <3>1, OthersGrow
    <2>10. l \in Seq(R) /\ Len(l) = Cardinality(Q)
          /\ \A k \in Q : l[Cardinality(Among(Q, k))] = block[all[k].offset]
        <3>1. CASE e.inode = own
            <4>1. Q = P
                BY <2>4, <2>9, <3>1, Zenon
            <4> QED BY <2>7, <2>8, <3>1, <4>1
        <3>2. CASE e.inode # own
            <4>1. /\ Q = P \cup {m + 1} /\ Cardinality(Q) = Cardinality(P) + 1
                  /\ Among(Q, m + 1) = Q
                  /\ \A k \in P : Among(Q, k) = Among(P, k)
                BY <2>4, <2>9, <3>2, Zenon
            <4> HIDE DEF P, Q, R, e
            <4>2. l \in Seq(R) /\ Len(l) = Len(w.list) + 1 /\ Len(w.list) \in Nat
                  /\ (\A i \in 1..Len(w.list) : l[i] = w.list[i]) /\ l[Len(w.list) + 1] = e
                BY <2>3, <2>7, <3>2, AppendTo
            <4>3. ASSUME NEW k \in P PROVE l[Cardinality(Among(Q, k))] = block[all[k].offset]
                <5> DEFINE B == Among(P, k)
                <5>1. B \in SUBSET P /\ k \in B
                    BY <1>0 DEF P, Others, Among
                <5>2. IsFiniteSet(B) /\ Cardinality(B) \in Nat /\ Cardinality(B) <= Cardinality(P)
                    BY <1>0, <5>1, OthersFinite DEF P
                <5>3. Cardinality(B) # 0
                    BY <5>1, <5>2, FS_EmptySet
                <5>4. Cardinality(B) \in 1..Len(w.list)
                    BY <2>7, <5>2, <5>3, <4>2
                <5>5. w.list[Cardinality(B)] = block[all[k].offset]
                    BY <2>8
                <5>6. Among(Q, k) = B
                    BY <4>1
                <5> HIDE DEF B
                <5> QED BY <4>2, <5>4, <5>5, <5>6
            <4>4. l[Cardinality(Among(Q, m + 1))] = block[all[m + 1].offset]
                BY <2>3, <2>7, <4>1, <4>2
            <4> QED BY <2>7, <4>1, <4>2, <4>3, <4>4
        <3> QED BY <3>1, <3>2
    <2>11. v \in [at : Nat, list : Seq(R)] /\ v.at = Behind(all, m + 1) /\ v.list = l
        BY <2>5, <2>6, <2>10
    <2>12. \A j \in 1..(m + 1) : ~all[j].removed
        BY <1>0, <2>1 DEF Listing
    <2>13. m + 1 \in 0..Len(all)
        BY <1>0, <2>1
    <2>14. Listing(all, block, own, m + 1, v)
        <3> HIDE DEF v
        <3> QED BY <2>10, <2>11, <2>12, <2>13 DEF Listing
    <2> QED BY <1>2, <2>11, <2>14
<1> QED BY <1>1, <1>2

\* The states a walk can be in.
Walks(all, block, own) ==
    {w \in [at : Nat, list : Seq(Records(all, block))] : \E m : Listing(all, block, own, m, w)}

LEMMA WalkStart ==
    ASSUME NEW all, NEW block, NEW own, Chain(all, block)
    PROVE  /\ [at |-> 0, list |-> <<>>] \in Walks(all, block, own)
           /\ Listing(all, block, own, 0, [at |-> 0, list |-> <<>>])
<1> PICK w : w = [at |-> 0, list |-> <<>>]
    OBVIOUS
<1>1. w \in [at : Nat, list : Seq(Records(all, block))] /\ w.at = 0 /\ w.list = <<>> /\ Len(w.list) = 0
    OBVIOUS
<1>2. Others(all, own, 0) = {}
    BY DEF Others
<1>3. Cardinality(Others(all, own, 0)) = 0
    BY <1>2, FS_EmptySet
<1>4. 0 \in 0..Len(all) /\ \A j \in 1..0 : ~all[j].removed
    BY Ext2Assumption DEF Chain
<1>5. Listing(all, block, own, 0, w)
    BY <1>1, <1>2, <1>3, <1>4 DEF Listing, Behind
<1> QED BY <1>1, <1>5 DEF Walks

\* The loop is its passes.
LEMMA WalkSteps ==
    ASSUME NEW all, NEW block, NEW own, Chain(all, block)
    PROVE  \E g : /\ Walk(block, own) = g[MaxEntries].list /\ g[0] = [at |-> 0, list |-> <<>>]
                  /\ \A k \in 1..MaxEntries : g[k] = Pass(block, own, g[k - 1])
<1> DEFINE n == MaxEntries
           S == Walks(all, block, own)
           a == [at |-> 0, list |-> <<>>]
           F == [k \in 1..n |-> [w \in S |-> Pass(block, own, w)]]
           Equation(g) == g = [k \in 0..n |-> IF k = 0 THEN a ELSE Pass(block, own, g[k - 1])]
<1>1. n \in Nat
    BY Ext2Assumption
<1>2. F \in [1..n -> [S -> S]]
    <2>1. ASSUME NEW w \in S PROVE Pass(block, own, w) \in S
        <3>1. PICK m : Listing(all, block, own, m, w)
            BY DEF Walks
        <3>2. w \in [at : Nat, list : Seq(Records(all, block))]
            BY DEF Walks
        <3> QED BY <3>1, <3>2, PassListing DEF Walks
    <2> QED BY <2>1
<1>3. PICK g \in [0..n -> S] : g[0] = a /\ \A k \in 1..n : g[k] = F[k][g[k - 1]]
    <2>1. a \in S
        BY WalkStart
    <2> HIDE DEF F, n, S, a
    <2>2. \E g : Iterates(g, S, a, n, F)
        BY <1>1, <1>2, <2>1, Recursion, Zenon
    <2> QED BY <2>2, Zenon DEF Iterates
<1>4. \A k \in 1..n : k \in 0..n /\ k # 0 /\ k - 1 \in 0..n
    BY <1>1
<1>5. ASSUME NEW k \in 1..n PROVE F[k][g[k - 1]] = Pass(block, own, g[k - 1])
    <2>1. g[k - 1] \in S
        BY <1>3, <1>4
    <2> QED BY <2>1
<1> HIDE DEF F, n, S, a
<1>6. Equation(g)
    <2>1. \A k \in 0..n : k = 0 \/ k \in 1..n
        BY <1>1
    <2>2. \A k \in 0..n : g[k] = IF k = 0 THEN a ELSE Pass(block, own, g[k - 1])
        BY <1>3, <1>5, <2>1
    <2> QED BY <1>3, <2>2
<1>7. PICK f : Equation(f) /\ Walk(block, own) = f[n].list
    <2> DEFINE f == CHOOSE f : Equation(f)
    <2>1. Equation(f)
        BY <1>6
    <2>2. Walk(block, own) = f[n].list
        BY DEF Walk, n, a
    <2> HIDE DEF f
    <2> QED BY <2>1, <2>2
<1>8. f[0] = a /\ \A k \in 1..n : f[k] = Pass(block, own, f[k - 1])
    <2>1. 0 \in 0..n
        BY <1>1
    <2> QED BY <1>4, <1>7, <2>1
<1> HIDE DEF Equation
<1> QED BY <1>7, <1>8 DEF n, a

\* The walk lists the entries up to its end.
LEMMA WalkLists ==
    ASSUME NEW all, NEW block, NEW own, Chain(all, block)
    PROVE  \E w \in Walks(all, block, own) : \E m :
               Listing(all, block, own, m, w) /\ Ended(all, m) /\ Walk(block, own) = w.list
<1>1. PICK g : /\ Walk(block, own) = g[MaxEntries].list /\ g[0] = [at |-> 0, list |-> <<>>]
               /\ \A k \in 1..MaxEntries : g[k] = Pass(block, own, g[k - 1])
    BY WalkSteps
<1>2. MaxEntries \in Nat
    BY Ext2Assumption
<1> DEFINE V == Walks(all, block, own)
           T == {k \in Nat : g[k] \in V /\ \E m : Listing(all, block, own, m, g[k]) /\ (m = k \/ Ended(all, m))}
<1>3. 0 \in T
    BY <1>1, WalkStart
<1>4. ASSUME NEW k \in 0..(MaxEntries - 1), k \in T PROVE k + 1 \in T
    <2>1. PICK m : Listing(all, block, own, m, g[k]) /\ (m = k \/ Ended(all, m))
        BY <1>4
    <2>2. k + 1 \in 1..MaxEntries /\ k + 1 \in Nat /\ (k + 1) - 1 = k
        BY <1>2
    <2>3. g[k + 1] = Pass(block, own, g[k])
        BY <1>1, <2>2
    <2>4. g[k] \in [at : Nat, list : Seq(Records(all, block))] /\ g[k] \in V
        BY <1>4 DEF Walks
    <2>5. /\ g[k + 1] \in [at : Nat, list : Seq(Records(all, block))]
          /\ Ended(all, m) => g[k + 1] = g[k]
          /\ ~Ended(all, m) => Listing(all, block, own, m + 1, g[k + 1])
        BY <2>1, <2>3, <2>4, PassListing
    <2>6. CASE Ended(all, m)
        BY <2>1, <2>2, <2>4, <2>5, <2>6
    <2>7. CASE ~Ended(all, m)
        <3>1. m + 1 = k + 1 /\ Listing(all, block, own, m + 1, g[k + 1])
            BY <2>1, <2>5, <2>7
        <3>2. g[k + 1] \in V
            BY <2>5, <3>1 DEF Walks
        <3> QED BY <2>2, <3>1, <3>2
    <2> QED BY <2>6, <2>7
<1> HIDE DEF T
<1>5. \A k \in 0..MaxEntries : k \in T
    BY <1>2, <1>3, <1>4, UpTo
<1>6. MaxEntries \in T
    BY <1>2, <1>5
<1>7. PICK m : Listing(all, block, own, m, g[MaxEntries]) /\ (m = MaxEntries \/ Ended(all, m))
    BY <1>6 DEF T
<1>8. Ended(all, m)
    <2>1. m \in 0..Len(all) /\ Len(all) \in 1..MaxEntries
        BY <1>7 DEF Listing, Chain
    <2>2. m = MaxEntries => m = Len(all)
        BY <1>2, <2>1
    <2> QED BY <1>7, <2>2 DEF Ended
<1>9. g[MaxEntries] \in V
    BY <1>6 DEF T
<1> QED BY <1>1, <1>7, <1>8, <1>9

----------------------------------------------------------------------------
(* EXT2: the disk *)

\* The entries of a directory, as the disk has them.
EntriesOf(d, n) == d.tree[n].entries
BlockOf(d, n) == d.block[d.tree[n].at]

\* The name is padded to words as the entry's size says.
LEMMA PaddedName ==
    ASSUME NEW length \in Nat, NEW words \in Nat,
           length <= 4 * (words - HeaderWords), 4 * (words - HeaderWords) < length + 4
    PROVE  Words(length) = words
<1>1. HeaderWords \in Nat
    BY Ext2Assumption
<1>2. words - HeaderWords = (length \div 4) + (IF length % 4 = 0 THEN 0 ELSE 1)
    BY <1>1
<1> QED BY <1>1, <1>2 DEF Words

\* A directory of a volume is a chain of entries with the tree's files.
LEMMA DirectoryChain ==
    ASSUME NEW d, Formatted(d), NEW n \in DOMAIN d.tree, d.tree[n].type = "directory"
    PROVE  /\ Chain(EntriesOf(d, n), BlockOf(d, n))
           /\ DOMAIN EntriesOf(d, n) = 1..Len(EntriesOf(d, n))
           /\ \A k \in 1..Len(EntriesOf(d, n)) : ~EntriesOf(d, n)[k].removed =>
                 LET e == EntriesOf(d, n)[k] IN
                 /\ BlockOf(d, n)[e.offset] = [inode |-> e.inode, name |-> e.name, cut |-> e.cut,
                                               name_length |-> e.name_length, type |-> e.type]
                 /\ e.inode \in DOMAIN d.tree /\ e.type = d.tree[e.inode].type
<1> PICK all : all = EntriesOf(d, n)
    OBVIOUS
<1> PICK block : block = BlockOf(d, n)
    OBVIOUS
<1>1. DirectoryLaid(d, n)
    BY DEF Formatted
<1>2. DOMAIN all = 1..Len(all) /\ Len(all) \in 1..MaxEntries /\ all[1].offset = 0
    BY <1>1 DEF DirectoryLaid, EntriesOf
<1>3. ASSUME NEW k \in 1..Len(all)
      PROVE  /\ all[k].offset \in Nat /\ all[k].name_length \in Nat /\ all[k].removed \in BOOLEAN
             /\ all[k].words \in Nat
             /\ all[k].name_length <= 4 * (all[k].words - HeaderWords)
             /\ 4 * (all[k].words - HeaderWords) < all[k].name_length + 4
             /\ IF k = Len(all) THEN block[all[k].offset + all[k].words].inode = 0
                ELSE all[k + 1].offset = all[k].offset + all[k].words
             /\ block[all[k].offset] = [inode |-> IF all[k].removed THEN 0 ELSE all[k].inode, name |-> all[k].name,
                                        cut |-> all[k].cut, name_length |-> all[k].name_length, type |-> all[k].type]
             /\ ~all[k].removed => all[k].inode \in DOMAIN d.tree /\ all[k].type = d.tree[all[k].inode].type
    <2>1. k \in DOMAIN all
        BY <1>2
    <2> QED BY <1>1, <2>1 DEF DirectoryLaid, EntriesOf, BlockOf
<1>4. DOMAIN d.tree \subseteq Nat \ {0}
    BY DEF Formatted, InodesLaid
<1>5. ASSUME NEW k \in 1..Len(all)
      PROVE  /\ Behind(all, k) \in Nat
             /\ block[all[k].offset].inode = IF all[k].removed THEN 0 ELSE all[k].inode
             /\ ~all[k].removed => all[k].inode # 0
             /\ Behind(all, k) = all[k].offset + Words(block[all[k].offset].name_length)
    <2>1. k # 0
        BY <1>2
    <2>2. Behind(all, k) = all[k].offset + all[k].words
        BY <1>3, <2>1 DEF Behind
    <2>3. /\ block[all[k].offset].name_length = all[k].name_length
          /\ block[all[k].offset].inode = IF all[k].removed THEN 0 ELSE all[k].inode
        <3> PICK i : i = IF all[k].removed THEN 0 ELSE all[k].inode
            OBVIOUS
        <3>1. block[all[k].offset] = [inode |-> i, name |-> all[k].name, cut |-> all[k].cut,
                                      name_length |-> all[k].name_length, type |-> all[k].type]
            BY <1>3
        <3> QED BY ONLY <3>1, i = IF all[k].removed THEN 0 ELSE all[k].inode
    <2>4. Words(all[k].name_length) = all[k].words
        BY <1>3, PaddedName
    <2>5. all[k].offset \in Nat /\ all[k].words \in Nat
        BY <1>3
    <2>6. ~all[k].removed => all[k].inode # 0
        BY <1>3, <1>4
    <2> QED BY ONLY <2>2, <2>3, <2>4, <2>5, <2>6
<1>6. block[Behind(all, Len(all))].inode = 0
    <2>1. Len(all) \in 1..Len(all) /\ Len(all) # 0
        BY <1>2, Ext2Assumption
    <2> QED BY <1>3, <2>1 DEF Behind
<1>7. Chain(all, block)
    <2>1. ASSUME NEW k \in 1..Len(all)
          PROVE  /\ all[k].offset \in Nat /\ Behind(all, k) \in Nat /\ all[k].removed \in BOOLEAN
                 /\ block[all[k].offset].inode = IF all[k].removed THEN 0 ELSE all[k].inode
                 /\ ~all[k].removed => all[k].inode # 0
                 /\ Behind(all, k) = all[k].offset + Words(block[all[k].offset].name_length)
        <3>1. all[k].offset \in Nat /\ all[k].removed \in BOOLEAN
            BY <1>3
        <3> QED BY ONLY <3>1, <1>5, k \in 1..Len(all), Zenon
    <2> QED BY ONLY <1>2, <1>6, <2>1, Zenon DEF Chain
<1> QED BY <1>2, <1>3, <1>7

\* Present() of a disk and a directory.
PresentOn(d, n) ==
    {k \in DOMAIN EntriesOf(d, n) : /\ EntriesOf(d, n)[k].inode # n
                                    /\ \A j \in 1..k : ~EntriesOf(d, n)[j].removed}

\* What the walk over a directory returns.
LEMMA WalkedDirectory ==
    ASSUME NEW d, Formatted(d), NEW n \in DOMAIN d.tree, d.tree[n].type = "directory"
    PROVE  LET L == Walk(BlockOf(d, n), n)
               P == PresentOn(d, n)
           IN  /\ L \in Seq(Records(EntriesOf(d, n), BlockOf(d, n)))
               /\ Len(L) = Cardinality(P)
               /\ \A k \in P : L[Cardinality(Among(P, k))] = BlockOf(d, n)[EntriesOf(d, n)[k].offset]
<1> PICK all : all = EntriesOf(d, n)
    OBVIOUS
<1> PICK block : block = BlockOf(d, n)
    OBVIOUS
<1>1. Chain(all, block) /\ DOMAIN all = 1..Len(all)
    BY DirectoryChain
<1>2. PICK w \in Walks(all, block, n) : \E m :
          Listing(all, block, n, m, w) /\ Ended(all, m) /\ Walk(block, n) = w.list
    BY <1>1, WalkLists
<1>3. PICK m : Listing(all, block, n, m, w) /\ Ended(all, m) /\ Walk(block, n) = w.list
    BY <1>2
<1>4. PresentOn(d, n) = Others(all, n, m)
    <2>1. m \in 0..Len(all) /\ Len(all) \in Nat /\ \A j \in 1..m : ~all[j].removed
        BY <1>1, <1>3, Ext2Assumption DEF Listing, Chain
    <2>2. ASSUME NEW k \in 1..m PROVE k \in 1..Len(all) /\ \A j \in 1..k : ~all[j].removed
        BY <2>1
    <2>3. ASSUME NEW k \in 1..Len(all), \A j \in 1..k : ~all[j].removed PROVE k \in 1..m
        <3>1. SUFFICES ASSUME k > m PROVE FALSE
            BY <2>1
        <3>2. m # Len(all) /\ m + 1 \in 1..k
            BY <2>1, <3>1
        <3> QED BY <1>3, <2>3, <3>2 DEF Ended
    <2> QED BY <1>1, <2>2, <2>3 DEF PresentOn, Others
<1>5. w.list \in Seq(Records(all, block)) /\ Len(w.list) = Cardinality(Others(all, n, m))
      /\ \A k \in Others(all, n, m) : w.list[Cardinality(Among(Others(all, n, m), k))] = block[all[k].offset]
    BY <1>3 DEF Walks, Listing
<1> QED BY <1>3, <1>4, <1>5

----------------------------------------------------------------------------
(* EXT2: sectors, blocks and inodes *)

LEMMA Divided ==
    ASSUME NEW n \in Nat, NEW d \in Nat, d > 0
    PROVE  n % d \in Nat /\ n % d < d /\ n \div d \in Nat /\ n = d * (n \div d) + (n % d)
OBVIOUS

\* A block starts at a sector that is not the superblock's.
LEMMA SectorOfBlock ==
    ASSUME NEW b \in Nat \ {0}
    PROVE  /\ b * BLOCK_FACTOR \in Nat /\ b * BLOCK_FACTOR # SuperSector
           /\ (b * BLOCK_FACTOR) % BLOCK_FACTOR = 0 /\ (b * BLOCK_FACTOR) \div BLOCK_FACTOR = b
<1>1. BLOCK_FACTOR \in Nat /\ BLOCK_FACTOR > 0 /\ SuperSector \in Nat /\ SuperSector < BLOCK_FACTOR
    BY Ext2Assumption
<1> PICK f \in Nat : f = BLOCK_FACTOR
    BY <1>1
<1>2. b \in Nat /\ b >= 1 /\ b * f \in Nat /\ b * f = f * b
    BY <1>1
<1>3. b * f >= f
    <2>1. PICK c \in Nat : b = c + 1
        <3>1. b - 1 \in Nat /\ b = (b - 1) + 1
            BY <1>2
        <3> QED BY <3>1
    <2>2. (c + 1) * f = c * f + f /\ c * f \in Nat
        OBVIOUS
    <2> QED BY <2>1, <2>2
<1> PICK n \in Nat : n = b * f
    BY <1>2
<1>4. /\ n % f \in Nat /\ n % f < f /\ n \div f \in Nat /\ n = f * (n \div f) + (n % f)
    BY <1>1, Divided
<1>5. f * b + 0 = f * (n \div f) + (n % f) /\ 0 < f
    BY <1>1, <1>2, <1>4
<1>6. 0 = n % f /\ b = n \div f
    BY <1>1, <1>2, <1>4, <1>5, QuotientUnique
<1> QED BY <1>1, <1>2, <1>3, <1>6

\* Where inode n is: group, block of the group's table and place in the block.
PlacedAt(c, per, n, g, b, p) ==
    /\ g = ((n - 1) \div c) + 1 /\ b = ((n - 1) % c) \div per /\ p = (((n - 1) % c) % per) + 1
    /\ b * per + p <= c /\ n = (g - 1) * c + b * per + p

LEMMA InodePlace ==
    ASSUME NEW c \in Nat \ {0}, NEW per \in Nat \ {0}, NEW l \in Nat, NEW n \in 1..(l * c)
    PROVE  \E g \in 1..l, b \in 0..c, p \in 1..per : PlacedAt(c, per, n, g, b, p)
<1> PICK q \in Nat, i \in Nat : q = (n - 1) \div c /\ i = (n - 1) % c /\ i < c /\ n - 1 = c * q + i
    <2>1. n - 1 \in Nat /\ c \in Nat /\ c > 0
        BY l * c \in Int
    <2> QED BY <2>1, Divided
<1> PICK b \in Nat, p \in Nat : b = i \div per /\ p = i % per /\ p < per /\ i = per * b + p
    BY Divided
<1>1. q < l
    <2>1. SUFFICES ASSUME q >= l PROVE FALSE
        OBVIOUS
    <2>2. PICK x \in Nat : q = l + x
        <3>1. q - l \in Nat /\ q = l + (q - l)
            BY <2>1
        <3> QED BY <3>1
    <2>3. c * (l + x) = l * c + c * x /\ c * x \in Nat /\ l * c \in Nat
        OBVIOUS
    <2>4. c * q >= l * c /\ c * q \in Nat
        BY <2>2, <2>3
    <2>5. n \in Nat /\ n <= l * c
        BY <2>3
    <2> QED BY <2>3, <2>4, <2>5
<1>2. b <= i
    <2>1. PICK x \in Nat : per = x + 1
        <3>1. per - 1 \in Nat /\ per = (per - 1) + 1
            OBVIOUS
        <3> QED BY <3>1
    <2>2. (x + 1) * b = x * b + b /\ x * b \in Nat
        OBVIOUS
    <2> QED BY <2>1, <2>2
<1>3. per * b = b * per /\ b * per \in Nat /\ c * q = q * c /\ q * c \in Nat
    OBVIOUS
<1>4. b * per + (p + 1) <= c
    BY <1>3
<1>5. n = q * c + b * per + (p + 1)
    <2>1. n \in Int
        BY l * c \in Int
    <2>2. PICK x \in Nat, y \in Nat : x = q * c /\ y = b * per
        BY <1>3
    <2>3. n - 1 = x + i /\ i = y + p
        BY <1>3, <2>2
    <2>4. n = x + y + (p + 1)
        BY ONLY n \in Int, x \in Nat, y \in Nat, i \in Nat, p \in Nat, <2>1, <2>3
    <2> QED BY <2>2, <2>4
<1>6. (q + 1) - 1 = q /\ q + 1 \in 1..l /\ b \in 0..c /\ p + 1 \in 1..per
    BY <1>1, <1>2
<1> QED BY <1>4, <1>5, <1>6 DEF PlacedAt

----------------------------------------------------------------------------
(* EXT2: the invariant *)

\* The kernel has found the controller with the disk and the partition.
DiskFound ==
    /\ nvme = disk.slot /\ \E i \in DOMAIN disk.pci : disk.pci[i] = "nvme"
    /\ Volume \in DOMAIN devs => nvme_parts[Volume] = disk.part[Volume].first

\* It has the superblock and the group descriptors of the volume.
VolumeMounted ==
    /\ DiskFound /\ Volume \in DOMAIN devs /\ disk.super.ext2_sig
    /\ superblock.group_inode_count = disk.super.group_inode_count
    /\ superblock.inodes_per_block = disk.super.block_size \div disk.super.inode_size
    /\ bgd_table = disk.block[1]

\* Every node is a file or a directory of the tree.
Named ==
    \A n \in DOMAIN nodes :
        nodes[n].inode \in DOMAIN disk.tree /\ nodes[n].type = disk.tree[nodes[n].inode].type

Ext2Inv ==
    /\ disk \in Images
    /\ pc \in {"off", "pci", "devices"} => dir = 0
    /\ pc = "pci" => pci_devices = {i \in DOMAIN disk.pci : disk.pci[i] # "none"}
    /\ pc = "devices" => DiskFound
    /\ pc = "mounted" => VolumeMounted /\ Named
    /\ ListsDirectory
    /\ ReadsFile

LEMMA DiskFacts ==
    ASSUME disk \in Images, DiskFound
    PROVE  Attached(disk) /\ (disk.super.ext2_sig => Formatted(disk))
BY ImagesAssumption DEF DiskFound

\* A read of a block of the volume gets the block, one of the superblock's
\* sector the superblock.
LEMMA BlockRead ==
    ASSUME disk \in Images, DiskFound, Volume \in DOMAIN devs
    PROVE  /\ Page(OnDisk(SuperSector)) = disk.super
           /\ disk.super.ext2_sig => \A b \in DOMAIN disk.block : Block(b) = disk.block[b]
<1>1. nvme = disk.slot /\ nvme_parts[Volume] = disk.part[Volume].first /\ disk.part[Volume].first \in Nat
    BY DiskFacts DEF DiskFound, Attached
<1>2. \A s \in Nat : OnDisk(s) - disk.part[Volume].first = s
    BY <1>1 DEF OnDisk
<1>3. SuperSector \in Nat
    BY Ext2Assumption
<1>4. Page(OnDisk(SuperSector)) = disk.super
    BY <1>1, <1>2, <1>3 DEF Page
<1>5. ASSUME disk.super.ext2_sig, NEW b \in DOMAIN disk.block PROVE Block(b) = disk.block[b]
    <2>1. b \in Nat \ {0}
        BY <1>5, DiskFacts DEF Formatted
    <2>2. /\ b * BLOCK_FACTOR \in Nat /\ b * BLOCK_FACTOR # SuperSector
          /\ (b * BLOCK_FACTOR) % BLOCK_FACTOR = 0 /\ (b * BLOCK_FACTOR) \div BLOCK_FACTOR = b
        BY <2>1, SectorOfBlock
    <2>3. OnDisk(b * BLOCK_FACTOR) - disk.part[Volume].first = b * BLOCK_FACTOR
        BY <1>2, <2>2
    <2> QED BY <1>1, <2>2, <2>3 DEF Block, Page
<1> QED BY <1>4, <1>5

\* get_inode() finds the inode of a file.
LEMMA InodeFound ==
    ASSUME disk \in Images, VolumeMounted, NEW n \in DOMAIN disk.tree
    PROVE  /\ get_inode(n).size_lo = disk.tree[n].size
           /\ get_inode(n).block_pointer[1] = disk.tree[n].at
<1> PICK c : c = disk.super.group_inode_count
    OBVIOUS
<1> PICK per : per = disk.super.block_size \div disk.super.inode_size
    OBVIOUS
<1> PICK table : table = disk.block[1]
    OBVIOUS
<1>0. InodesLaid(disk) /\ \A b \in DOMAIN disk.block : Block(b) = disk.block[b]
    BY DiskFacts, BlockRead DEF VolumeMounted, Formatted
<1>1. c \in Nat \ {0} /\ per \in Nat \ {0} /\ table \in Seq(Nat \ {0}) /\ n \in 1..(Len(table) * c)
    BY <1>0 DEF InodesLaid, PerBlock
<1>2. Len(table) \in Nat /\ DOMAIN table = 1..Len(table)
    BY <1>1
<1>3. PICK g \in 1..Len(table), b \in 0..c, p \in 1..per : PlacedAt(c, per, n, g, b, p)
    BY <1>1, <1>2, InodePlace, Zenon
<1>4. g \in DOMAIN table
    BY <1>2
<1>5. n = InodeNumber(disk.super, g, b, p)
    BY <1>3 DEF PlacedAt, InodeNumber, PerBlock
<1>6. HasInode(disk, table[g] + b, p, n)
    <2>1. \A x \in DOMAIN table, y \in 0..c, z \in 1..per :
              y * per + z <= c /\ InodeNumber(disk.super, x, y, z) \in DOMAIN disk.tree =>
                  HasInode(disk, table[x] + y, z, InodeNumber(disk.super, x, y, z))
        BY <1>0 DEF InodesLaid, PerBlock
    <2>2. b * per + p <= c
        BY <1>3 DEF PlacedAt
    <2> QED BY <1>4, <1>5, <2>1, <2>2
<1>7. get_inode(n) = Block(table[g] + b)[p]
    BY <1>3 DEF PlacedAt, get_inode, InodeBlock, VolumeMounted
<1> QED BY <1>0, <1>6, <1>7 DEF HasInode

LEMMA Ext2Start == Ext2Init => Ext2Inv
BY DEF Ext2Init, Ext2Inv, ListsDirectory, ReadsFile

\* A step that changes neither nodes nor buffer.
LEMMA KeptListing ==
    ASSUME Ext2Inv, disk' = disk, dir' = dir, nodes' = nodes
    PROVE  ListsDirectory'
<1>1. Present(dir)' = Present(dir)
    BY DEF Present
<1>2. ListsDirectory
    BY DEF Ext2Inv
<1> QED BY <1>1, <1>2 DEF ListsDirectory

LEMMA KeptBuffer ==
    ASSUME Ext2Inv, disk' = disk, loaded' = loaded
    PROVE  ReadsFile'
BY DEF Ext2Inv, ReadsFile

\* detect_nvme() finds the controller of the disk.
LEMMA DevEnumStep ==
    ASSUME Ext2Inv, DevEnum
    PROVE  Ext2Inv'
<1>1. /\ disk' = disk /\ pc' = "devices" /\ dir' = dir /\ nodes' = nodes /\ loaded' = loaded
      /\ disk \in Images /\ pci_devices = {i \in DOMAIN disk.pci : disk.pci[i] # "none"}
    BY DEF Ext2Inv, DevEnum
<1>2. PICK i \in Detected : nvme' = i /\ \A j \in Detected : i <= j
    BY DEF DevEnum
<1>3. i \in DOMAIN disk.pci /\ disk.pci[i] = "nvme"
    BY <1>1, <1>2 DEF Detected
<1>4. Attached(disk)
    BY <1>1, <1>3, ImagesAssumption
<1>5. disk.slot \in Detected
    BY <1>1, <1>4 DEF Attached, Detected
<1>6. nvme' = disk.slot
    <2>1. i <= disk.slot /\ disk.slot <= i /\ i \in Nat /\ disk.slot \in Nat
        BY <1>2, <1>3, <1>4, <1>5 DEF Attached
    <2> QED BY <1>2, <2>1
<1>7. Volume \in DOMAIN devs' => nvme_parts'[Volume] = disk.part[Volume].first
    <2>1. Volume \in Parts
        BY Ext2Assumption DEF Parts
    <2> PICK used : used = {j \in Parts : disk.gpt /\ disk.part[j].used}
        OBVIOUS
    <2>2. /\ devs' = [j \in used |-> disk.part[j].last - disk.part[j].first + 1]
          /\ nvme_parts' = [j \in Parts |-> IF j \in used THEN disk.part[j].first ELSE 0]
        BY DEF DevEnum
    <2>3. DOMAIN devs' = used
        BY <2>2
    <2> QED BY <2>1, <2>2, <2>3
<1>8. DiskFound'
    BY <1>1, <1>3, <1>6, <1>7 DEF DiskFound
<1>9. ListsDirectory' /\ ReadsFile'
    BY <1>1, KeptListing, KeptBuffer
<1>10. dir' = 0
    BY <1>1 DEF Ext2Inv, DevEnum
<1> QED BY <1>1, <1>8, <1>9, <1>10 DEF Ext2Inv

\* ext2_mount() reads the superblock and the group descriptors.
LEMMA MountStep ==
    ASSUME Ext2Inv, Mount
    PROVE  Ext2Inv'
<1>1. /\ disk' = disk /\ nvme' = nvme /\ nvme_parts' = nvme_parts /\ devs' = devs
      /\ dir' = dir /\ loaded' = loaded /\ pci_devices' = pci_devices
      /\ disk \in Images /\ DiskFound /\ pc = "devices"
    BY DEF Ext2Inv, Mount, device
<1>2. CASE pc' \in {"hung", "panic"} /\ nodes' = nodes
    <2>1. ListsDirectory' /\ ReadsFile'
        BY <1>1, <1>2, KeptListing, KeptBuffer
    <2> QED BY <1>1, <1>2, <2>1 DEF Ext2Inv
<1>3. CASE /\ Volume \in DOMAIN devs /\ Page(OnDisk(SuperSector)).ext2_sig
           /\ superblock' = [group_inode_count |-> Page(OnDisk(SuperSector)).group_inode_count,
                             inodes_per_block |-> Page(OnDisk(SuperSector)).block_size
                                                    \div Page(OnDisk(SuperSector)).inode_size]
           /\ bgd_table' = Block(1)
           /\ nodes' = <<[name |-> "mnt", inode |-> RootInode, size |-> 0, type |-> "directory"]>>
           /\ pc' = "mounted"
    <2>1. Page(OnDisk(SuperSector)) = disk.super /\ disk.super.ext2_sig
        BY <1>1, <1>3, BlockRead
    <2>2. Formatted(disk)
        BY <1>1, <2>1, DiskFacts
    <2>3. bgd_table' = disk.block[1]
        BY <1>1, <1>3, <2>1, <2>2, BlockRead DEF Formatted, InodesLaid
    <2>4. VolumeMounted'
        BY <1>1, <1>3, <2>1, <2>3 DEF VolumeMounted, DiskFound
    <2>5. Named'
        BY <1>1, <1>3, <2>2 DEF Named, Formatted
    <2>6. dir = 0
        BY <1>1 DEF Ext2Inv
    <2>7. ListsDirectory' /\ ReadsFile'
        BY <1>1, <2>6, KeptBuffer DEF ListsDirectory
    <2> QED BY <1>1, <1>3, <2>4, <2>5, <2>7 DEF Ext2Inv
<1> QED BY <1>2, <1>3 DEF Mount

\* The name of an entry, as ListsDirectory has it.
NameLeft(e) == IF e.name_length <= NameBytes THEN e.name ELSE e.cut

\* ext2_enum() makes the nodes of the directory.
LEMMA EnumStep ==
    ASSUME Ext2Inv, NEW n \in DOMAIN nodes, Enum(n)
    PROVE  Ext2Inv'
<1>0. /\ pc = "mounted" /\ disk' = disk /\ nvme' = nvme /\ nvme_parts' = nvme_parts /\ devs' = devs
      /\ superblock' = superblock /\ bgd_table' = bgd_table /\ loaded' = loaded /\ pci_devices' = pci_devices
      /\ disk \in Images /\ VolumeMounted /\ Named /\ nodes[n].type = "directory"
    BY DEF Ext2Inv, Enum, device, mounted
<1> PICK d : d = nodes[n].inode
    OBVIOUS
<1> PICK found : found = Walk(Block(get_inode(d).block_pointer[1]), d)
    OBVIOUS
<1>a. \/ /\ nodes' = nodes /\ dir' = dir
         /\ pc' = "hung" \/ \E k \in DOMAIN found : pc' = Entered(found, k) /\ Entered(found, k) # "mounted"
      \/ nodes' = [k \in DOMAIN found |-> Node(found[k])] /\ dir' = d /\ pc' = pc
    <2> DEFINE own == nodes[n].inode
               entries == Walk(Block(get_inode(own).block_pointer[1]), own)
    <2>1. \/ pc' = "hung" /\ UNCHANGED <<nodes, dir>>
          \/ /\ \E k \in DOMAIN entries : pc' = Entered(entries, k) /\ Entered(entries, k) # "mounted"
             /\ UNCHANGED <<nodes, dir>>
          \/ nodes' = [k \in DOMAIN entries |-> Node(entries[k])] /\ dir' = own /\ UNCHANGED pc
        BY Zenon DEF Enum
    <2>2. own = d /\ entries = found
        OBVIOUS
    <2> HIDE DEF own, entries
    <2> QED BY <2>1, <2>2
<1>b. CASE pc' # "mounted"
    <2>1. nodes' = nodes /\ dir' = dir /\ pc' \in {"hung", "panic", "overrun"}
        BY <1>0, <1>a, <1>b DEF Entered
    <2>2. ListsDirectory' /\ ReadsFile'
        BY <1>0, <2>1, KeptListing, KeptBuffer
    <2> QED BY <1>0, <2>1, <2>2 DEF Ext2Inv
<1>c. SUFFICES ASSUME pc' = "mounted" PROVE Ext2Inv'
    BY <1>b
<1>1. /\ pc = "mounted" /\ pc' = pc /\ disk' = disk /\ nvme' = nvme /\ nvme_parts' = nvme_parts /\ devs' = devs
      /\ superblock' = superblock /\ bgd_table' = bgd_table /\ loaded' = loaded /\ pci_devices' = pci_devices
      /\ disk \in Images /\ VolumeMounted /\ Named /\ nodes[n].type = "directory"
    BY <1>0, <1>c
<1>2. d \in DOMAIN disk.tree /\ disk.tree[d].type = "directory" /\ Formatted(disk)
    BY <1>1, DiskFacts DEF Named, VolumeMounted
<1> PICK all : all = EntriesOf(disk, d)
    OBVIOUS
<1> PICK block : block = BlockOf(disk, d)
    OBVIOUS
<1> PICK L : L = Walk(block, d)
    OBVIOUS
<1> PICK P : P = PresentOn(disk, d)
    OBVIOUS
<1>3. Block(get_inode(d).block_pointer[1]) = block
    <2>1. get_inode(d).block_pointer[1] = disk.tree[d].at
        BY <1>1, <1>2, InodeFound
    <2>2. disk.tree[d].at \in DOMAIN disk.block
        BY <1>2 DEF Formatted
    <2> QED BY <1>1, <2>1, <2>2, BlockRead DEF VolumeMounted, BlockOf
<1>4. nodes' = [k \in DOMAIN L |-> Node(L[k])] /\ dir' = d
    BY <1>3, <1>a, <1>c
<1>5. /\ L \in Seq(Records(all, block)) /\ Len(L) = Cardinality(P)
      /\ \A k \in P : L[Cardinality(Among(P, k))] = block[all[k].offset]
    BY <1>2, WalkedDirectory
<1>6. DOMAIN L = 1..Len(L) /\ Len(L) \in Nat
    BY <1>5
<1>7. ASSUME NEW k \in 1..Len(all), ~all[k].removed
      PROVE  /\ all[k].inode \in DOMAIN disk.tree
             /\ Node(block[all[k].offset]) =
                   [name |-> NameLeft(all[k]), inode |-> all[k].inode,
                    size |-> disk.tree[all[k].inode].size, type |-> disk.tree[all[k].inode].type]
    <2>1. /\ block[all[k].offset] = [inode |-> all[k].inode, name |-> all[k].name, cut |-> all[k].cut,
                                     name_length |-> all[k].name_length, type |-> all[k].type]
          /\ all[k].inode \in DOMAIN disk.tree /\ all[k].type = disk.tree[all[k].inode].type
        BY <1>2, <1>7, DirectoryChain
    <2>2. get_inode(all[k].inode).size_lo = disk.tree[all[k].inode].size
        BY <1>1, <2>1, InodeFound
    <2> QED BY <2>1, <2>2 DEF Node, NodeName, NameLeft
<1>8. Named'
    <2> SUFFICES ASSUME NEW k \in DOMAIN L
                 PROVE  Node(L[k]).inode \in DOMAIN disk.tree /\ Node(L[k]).type = disk.tree[Node(L[k]).inode].type
        BY <1>1, <1>4 DEF Named
    <2>1. L[k] \in Records(all, block)
        BY <1>5, <1>6
    <2>2. PICK j \in 1..Len(all) : ~all[j].removed /\ L[k] = block[all[j].offset]
        BY <2>1 DEF Records
    <2>3. /\ all[j].inode \in DOMAIN disk.tree
          /\ Node(L[k]) = [name |-> NameLeft(all[j]), inode |-> all[j].inode,
                           size |-> disk.tree[all[j].inode].size, type |-> disk.tree[all[j].inode].type]
        BY <1>7, <2>2
    <2>4. Node(L[k]).inode = all[j].inode /\ Node(L[k]).type = disk.tree[all[j].inode].type
        BY <2>3
    <2> QED BY ONLY <2>3, <2>4
<1>9. P \in SUBSET (1..Len(all)) /\ \A k \in P : k \in Nat /\ ~all[k].removed
    <2>1. DOMAIN all = 1..Len(all)
        BY <1>2, DirectoryChain
    <2> QED BY <2>1 DEF PresentOn
<1>10. IsFiniteSet(P)
    <2>1. Len(all) \in Nat
        BY <1>2, DirectoryChain, Ext2Assumption DEF Chain
    <2>2. IsFiniteSet(1..Len(all))
        BY <2>1, FS_Interval
    <2> QED BY <1>9, <2>2, FS_Subset
<1>11. Len(nodes') = Cardinality(P)
    BY <1>4, <1>5, <1>6
<1>12. ASSUME NEW k \in P
       PROVE  nodes'[Cardinality(Among(P, k))] =
                 [name |-> NameLeft(all[k]), inode |-> all[k].inode,
                  size |-> disk.tree[all[k].inode].size, type |-> disk.tree[all[k].inode].type]
    <2>1. Among(P, k) \in SUBSET P /\ k \in Among(P, k)
        BY <1>9 DEF Among
    <2>2. /\ IsFiniteSet(Among(P, k)) /\ Cardinality(Among(P, k)) <= Cardinality(P)
          /\ Cardinality(Among(P, k)) \in Nat /\ Cardinality(Among(P, k)) # 0
        BY <1>10, <2>1, FS_Subset, FS_CardinalityType, FS_EmptySet
    <2>3. Cardinality(Among(P, k)) \in DOMAIN L
        BY <1>5, <1>6, <2>2
    <2> QED BY <1>4, <1>5, <1>7, <1>9, <2>3
<1>13. ListsDirectory'
    <2>1. Present(dir)' = P
        BY <1>1, <1>4 DEF Present, PresentOn, EntriesOf
    <2>2. \A k \in P : {j \in P : j <= k} = Among(P, k)
        BY DEF Among
    <2>3. disk'.tree[dir'].entries = all
        BY <1>1, <1>4 DEF EntriesOf
    <2>4. ASSUME NEW k \in P
          PROVE  nodes'[Cardinality({j \in P : j <= k})] =
                    [name |-> NameLeft(all[k]), inode |-> all[k].inode,
                     size |-> disk'.tree[all[k].inode].size, type |-> disk'.tree[all[k].inode].type]
        BY <1>1, <1>12, <2>2
    <2> QED BY <1>11, <2>1, <2>3, <2>4 DEF ListsDirectory, NameLeft
<1>14. VolumeMounted' /\ ReadsFile'
    BY <1>1 DEF Ext2Inv, VolumeMounted, DiskFound, ReadsFile
<1> QED BY <1>1, <1>8, <1>13, <1>14 DEF Ext2Inv

\* ext2_read() reads the first block of the file.
LEMMA ReadStep ==
    ASSUME Ext2Inv, NEW n \in DOMAIN nodes, NEW count, ReadFile(n, count)
    PROVE  Ext2Inv'
<1>1. /\ pc = "mounted" /\ disk' = disk /\ nvme' = nvme /\ nvme_parts' = nvme_parts /\ devs' = devs
      /\ superblock' = superblock /\ bgd_table' = bgd_table /\ pci_devices' = pci_devices
      /\ nodes' = nodes /\ dir' = dir
      /\ disk \in Images /\ VolumeMounted /\ Named /\ nodes[n].type = "file"
    BY DEF Ext2Inv, ReadFile, device, mounted
<1>2. ListsDirectory'
    BY <1>1, KeptListing
<1>3. CASE pc' = "hung" /\ loaded' = loaded
    <2>1. ReadsFile'
        BY <1>1, <1>3, KeptBuffer
    <2> QED BY <1>1, <1>2, <1>3, <2>1 DEF Ext2Inv
<1>4. CASE /\ pc' = pc
           /\ loaded' = [inode |-> nodes[n].inode, page |-> Page(OnDisk(FileSector(nodes[n].inode)))]
    <2> PICK f : f = nodes[n].inode
        OBVIOUS
    <2>1. f \in DOMAIN disk.tree /\ disk.tree[f].type = "file" /\ Formatted(disk)
        BY <1>1, DiskFacts DEF Named, VolumeMounted
    <2>2. CASE disk.tree[f].size = 0
        <3>1. loaded'.inode = f
            BY <1>4
        <3>2. ReadsFile'
            BY <1>1, <2>2, <3>1 DEF ReadsFile
        <3>3. VolumeMounted' /\ Named'
            BY <1>1 DEF VolumeMounted, DiskFound, Named
        <3> QED BY <1>1, <1>2, <1>4, <3>2, <3>3 DEF Ext2Inv
    <2>3. CASE disk.tree[f].size # 0
        <3>1. disk.tree[f].at \in DOMAIN disk.block /\ disk.block[disk.tree[f].at] = disk.tree[f].data
            BY <2>1, <2>3 DEF Formatted
        <3>2. get_inode(f).block_pointer[1] = disk.tree[f].at
            BY <1>1, <2>1, InodeFound
        <3>3. Page(OnDisk(FileSector(f))) = Block(disk.tree[f].at)
            BY <3>2 DEF FileSector, Block
        <3>4. Block(disk.tree[f].at) = disk.tree[f].data
            BY <1>1, <3>1, BlockRead DEF VolumeMounted
        <3>5. loaded'.inode = f /\ loaded'.page = disk.tree[f].data
            BY <1>4, <3>3, <3>4
        <3>6. ReadsFile'
            BY <1>1, <3>5 DEF ReadsFile
        <3>7. VolumeMounted' /\ Named'
            BY <1>1 DEF VolumeMounted, DiskFound, Named
        <3> QED BY <1>1, <1>2, <1>4, <3>6, <3>7 DEF Ext2Inv
    <2> QED BY <2>2, <2>3
<1> QED BY <1>3, <1>4 DEF ReadFile

\* The invariant of the mounted volume, for any disk laid out as ext2.c takes it
\* to be (Formatted): blocks of 4096 bytes with the group descriptors in block 1;
\* numbers and sizes of groups and inodes, and the tree, are arbitrary.
THEOREM Ext2Invariance == Ext2Spec => []Ext2Inv
<1>1. ASSUME Ext2Inv, [Ext2Next]_ext2Vars PROVE Ext2Inv'
    <2>1. CASE InitPci
        <3>1. /\ disk' = disk /\ dir' = dir /\ nodes' = nodes /\ loaded' = loaded /\ disk \in Images
              /\ pc' = "pci" /\ dir = 0 /\ pci_devices' = {i \in DOMAIN disk.pci : disk.pci[i] # "none"}
            BY <1>1, <2>1 DEF Ext2Inv, InitPci
        <3> QED BY <1>1, <3>1, KeptListing, KeptBuffer DEF Ext2Inv
    <2>2. CASE NoNvme
        <3>1. /\ disk' = disk /\ dir' = dir /\ nodes' = nodes /\ loaded' = loaded /\ disk \in Images
              /\ pc' = "panic"
            BY <1>1, <2>2 DEF Ext2Inv, NoNvme, device
        <3> QED BY <1>1, <3>1, KeptListing, KeptBuffer DEF Ext2Inv
    <2>3. CASE DevEnum
        BY <1>1, <2>3, DevEnumStep
    <2>4. CASE Mount
        BY <1>1, <2>4, MountStep
    <2>5. ASSUME NEW n \in DOMAIN nodes, Enum(n) PROVE Ext2Inv'
        BY <1>1, <2>5, EnumStep
    <2>6. ASSUME NEW n \in DOMAIN nodes, NEW over \in {0, 1}, ReadFile(n, nodes[n].size + over) PROVE Ext2Inv'
        BY <1>1, <2>6, ReadStep
    <2>7. CASE AtMountPoint
        <3>1. /\ disk' = disk /\ nvme' = nvme /\ nvme_parts' = nvme_parts /\ devs' = devs
              /\ superblock' = superblock /\ bgd_table' = bgd_table /\ loaded' = loaded
              /\ pc = "mounted" /\ pc' = pc /\ disk \in Images /\ VolumeMounted /\ dir' = 0
              /\ nodes' = <<[name |-> "mnt", inode |-> RootInode, size |-> 0, type |-> "directory"]>>
            BY <1>1, <2>7 DEF Ext2Inv, AtMountPoint, device, mounted
        <3>2. Formatted(disk)
            BY <3>1, DiskFacts DEF VolumeMounted
        <3>3. Named'
            BY <3>1, <3>2 DEF Named, Formatted
        <3>4. VolumeMounted' /\ ListsDirectory'
            BY <3>1 DEF VolumeMounted, DiskFound, ListsDirectory
        <3> QED BY <1>1, <3>1, <3>3, <3>4, KeptBuffer DEF Ext2Inv
    <2>8. CASE UNCHANGED ext2Vars
        <3>1. /\ disk' = disk /\ dir' = dir /\ nodes' = nodes /\ loaded' = loaded /\ pc' = pc
              /\ pci_devices' = pci_devices /\ nvme' = nvme /\ nvme_parts' = nvme_parts /\ devs' = devs
              /\ superblock' = superblock /\ bgd_table' = bgd_table
            BY <2>8 DEF ext2Vars, device, mounted
        <3>2. ListsDirectory' /\ ReadsFile'
            BY <1>1, <3>1, KeptListing, KeptBuffer
        <3> QED BY <1>1, <3>1, <3>2 DEF Ext2Inv, DiskFound, VolumeMounted, Named
    <2> QED BY <1>1, <2>1, <2>2, <2>3, <2>4, <2>5, <2>6, <2>7, <2>8 DEF Ext2Next, Ext2Stopped
<1> QED BY <1>1, Ext2Start, PTL DEF Ext2Spec

\* An enumerated directory has the nodes the tree has, in their order, with the
\* sizes and types of the files they name and the first 32 bytes of their names
\* (ext2.c:40-91, 93-138), if its nodes fit a page (vfs.c:137-152).
THEOREM ListsDirectoryTheorem == Ext2Spec => []ListsDirectory
<1>1. Ext2Inv => ListsDirectory
    BY DEF Ext2Inv
<1> QED BY <1>1, Ext2Invariance, PTL

\* A file that was read, unless it is empty, is the file that was named
\* (ext2.c:20-33, 93-138).
THEOREM ReadsFileTheorem == Ext2Spec => []ReadsFile
<1>1. Ext2Inv => ReadsFile
    BY DEF Ext2Inv
<1> QED BY <1>1, Ext2Invariance, PTL
=============================================================================
