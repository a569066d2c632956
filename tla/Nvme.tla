-------------------------------- MODULE Nvme --------------------------------
(***************************************************************************)
(* The NVMe driver of drivers/nvme.c and the controller it talks to: an    *)
(* admin and an I/O queue pair in memory, doorbell registers, and a driver *)
(* that submits one command and polls the completion queue for it.         *)
(*                                                                         *)
(* The controller is external. It takes queue sizes as zero-based, so a    *)
(* size field of QL makes a ring of QL + 1 entries; it completes commands  *)
(* in any order, and stops posting when the completion queue is full by    *)
(* the head doorbell, which the driver never rings (complete() has no      *)
(* caller). It therefore never posts around the end of a completion queue, *)
(* and the phase bit it posts is always 1.                                 *)
(***************************************************************************)
EXTENDS Integers, Sequences

CONSTANTS
    QL,         \* queue_length (0x80)
    PageCmds,   \* commands a page holds (64)
    PageBlocks, \* blocks a page holds (8)
    Lbas,       \* blocks the file systems read
    Counts,     \* no_blocks of their reads
    NoData      \* what the destination holds before the first read

ASSUME NvmeAssumption == /\ QL \in Nat /\ QL > 3
                         /\ PageCmds \in Nat /\ PageCmds >= 3 /\ PageBlocks \in Nat
                         /\ Counts \subseteq Nat
                         /\ NoData \notin Lbas

VARIABLES
    sq_tail,    \* queue_pair.sq_tail, for queue 0 (admin) and 1 (I/O)
    cq_head,    \* queue_pair.cq_head
    sq,         \* sq[q][i]: the command the controller finds at sq_base + i
    cq,         \* cq[q][i]: the phase bit at cq_base + i
    doorbells,  \* doorbells[q]: the submission tail doorbell
    polling,    \* the queue submit() is polling, or NoQueue
    head,       \* head[q]: the entry the controller fetches next
    busy,       \* busy[q]: entries fetched and not yet completed
    posted,     \* posted[q]: the next completion entry
    pairs,      \* queue parts the controller knows: <<"cq", q>>, <<"sq", q>>
    destination, \* what the destination of the last read holds
    stray,      \* a read stored blocks at physical address 0
    panicked    \* kpanic("NVME submission queue is full!")

vars == <<sq_tail, cq_head, sq, cq, doorbells, polling, head, busy, posted,
          pairs, destination, stray, panicked>>

Queues == {0, 1}
NoQueue == 2
Entries == 0..QL

\* What setup_queue() overwrites, and what lies behind a queue's last command.
Garbage == [op |-> "garbage"]

\* The admin commands of dev_enum(), in their order.
Bringup == <<[op |-> "features"], [op |-> "create_cq"], [op |-> "create_sq"]>>
ReadCmds == [op : {"read"}, lba : Lbas, n : Counts]
Commands == ReadCmds \cup {Bringup[i] : i \in 1..3} \cup {Garbage}

\* sq_head is 0 from init_admin() and create_iosq() on: complete(), the only
\* function that would move it, is never called.
sq_head == [q \in Queues |-> 0]

TypeOK ==
    /\ sq_tail \in [Queues -> Entries]
    /\ cq_head \in [Queues -> Entries]
    /\ sq \in [Queues -> [Entries -> Commands]]
    /\ cq \in [Queues -> [Entries -> {0, 1}]]
    /\ doorbells \in [Queues -> 0..(QL - 1)]
    /\ polling \in Queues \cup {NoQueue}
    /\ head \in [Queues -> Entries]
    /\ busy \in [Queues -> SUBSET Entries]
    /\ posted \in [Queues -> Entries]
    /\ pairs \in SUBSET ({"cq", "sq"} \X Queues)
    /\ destination \in Lbas \cup {NoData}
    /\ stray \in BOOLEAN
    /\ panicked \in BOOLEAN

\* init_admin() up to its end. The pages are fresh from kmalloc(); mem_set
\* clears QL entries of a completion queue, so entry QL may hold anything.
\* (create_iocq() clears queue 1 before the first I/O command; here at once.)
Init ==
    /\ sq_tail = [q \in Queues |-> 0]
    /\ cq_head = [q \in Queues |-> 0]
    /\ sq = [q \in Queues |-> [i \in Entries |-> Garbage]]
    /\ \E b \in {0, 1} : cq = [q \in Queues |-> [i \in Entries |-> IF i = QL THEN b ELSE 0]]
    /\ doorbells = [q \in Queues |-> 0]
    /\ polling = NoQueue
    /\ head = [q \in Queues |-> 0]
    /\ busy = [q \in Queues |-> {}]
    /\ posted = [q \in Queues |-> 0]
    /\ pairs = {<<"cq", 0>>, <<"sq", 0>>}
    /\ destination = NoData
    /\ stray = FALSE
    /\ panicked = FALSE

----------------------------------------------------------------------------
(* The driver *)

Full_Late(q) == sq_tail[q] - sq_head[q] > QL

\* The test of setup_queue().
Full(q) == sq_tail[q] - sq_head[q] = QL

Doorbell_Stale(q) == sq_tail[q] % QL

\* What submit() writes to the doorbell.
Doorbell(q) == (sq_tail[q] + 1) % QL

\* What the controller finds of a command built in entry sq_tail. A queue has
\* one page from kmalloc() and more entries than fit it: the rest are built in
\* the heap page behind, and the frame behind the queue's first, where the
\* controller looks for them, may be another one.
Found(q, c) == IF sq_tail[q] < PageCmds THEN {c} ELSE {c, Garbage}

\* setup_queue() and submit() up to the polling: the command is built in entry
\* sq_tail and the doorbell rung, or the kernel panics.
Submit(q, c) ==
    /\ ~panicked
    /\ polling = NoQueue
    /\ IF Full(q)
       THEN panicked' = TRUE /\ UNCHANGED <<sq, sq_tail, doorbells, polling>>
       ELSE /\ \E x \in Found(q, c) : sq' = [sq EXCEPT ![q][sq_tail[q]] = x]
            /\ sq_tail' = [sq_tail EXCEPT ![q] = @ + 1]
            /\ doorbells' = [doorbells EXCEPT ![q] = Doorbell(q)]
            /\ polling' = q
            /\ UNCHANGED panicked
    /\ UNCHANGED <<cq_head, cq, head, busy, posted, pairs, destination, stray>>

\* init_ioq(), create_iocq(1), create_iosq(1).
BringUp ==
    /\ sq_tail[0] < Len(Bringup)
    /\ Submit(0, Bringup[sq_tail[0] + 1])

\* nvme_read(), once dev_enum() has brought up queue 1.
nvme_read(lba, n) ==
    /\ sq_tail[0] = Len(Bringup)
    /\ Submit(1, [op |-> "read", lba |-> lba, n |-> n])

NextHead_Same(q) == cq_head

\* qid[q].cq_head++
NextHead(q) == [cq_head EXCEPT ![q] = @ + 1]

\* The polling loop of submit() sees the phase bit and the caller goes on.
Poll ==
    /\ polling # NoQueue
    /\ cq[polling][cq_head[polling]] = 1
    /\ cq_head' = NextHead(polling)
    /\ polling' = NoQueue
    /\ UNCHANGED <<sq_tail, sq, cq, doorbells, head, busy, posted, pairs, destination, stray, panicked>>

\* while((cqe->status & 0x1) != 1);
Spin == polling # NoQueue /\ cq[polling][cq_head[polling]] = 0 /\ UNCHANGED vars

----------------------------------------------------------------------------
(* The controller *)

Fetch(q) ==
    /\ <<"sq", q>> \in pairs
    /\ head[q] # doorbells[q]
    /\ busy' = [busy EXCEPT ![q] = @ \cup {head[q]}]
    /\ head' = [head EXCEPT ![q] = (@ + 1) % (QL + 1)]
    /\ UNCHANGED <<sq_tail, cq_head, sq, cq, doorbells, polling, posted, pairs, destination, stray, panicked>>

\* A command takes effect: n is zero-based too, and what does not fit the page
\* of dptr_1 goes to dptr_2, which the driver leaves 0.
Perform(c) ==
    /\ pairs' = pairs \cup (IF c.op = "create_cq" THEN {<<"cq", 1>>}
                            ELSE IF c.op = "create_sq" THEN {<<"sq", 1>>} ELSE {})
    /\ destination' = IF c.op = "read" THEN c.lba ELSE destination
    /\ stray' = (stray \/ (c.op = "read" /\ c.n + 1 > PageBlocks))

\* Any command fetched may complete next, while the queue has room.
Complete(q, i) ==
    /\ i \in busy[q]
    /\ posted[q] < QL
    /\ Perform(sq[q][i])
    /\ cq' = [cq EXCEPT ![q][posted[q]] = 1]
    /\ posted' = [posted EXCEPT ![q] = @ + 1]
    /\ busy' = [busy EXCEPT ![q] = @ \ {i}]
    /\ UNCHANGED <<sq_tail, cq_head, sq, doorbells, polling, head, panicked>>

Controller == \E q \in Queues : Fetch(q) \/ \E i \in Entries : Complete(q, i)

Halted == panicked /\ UNCHANGED vars

Next ==
    \/ BringUp
    \/ \E lba \in Lbas, n \in Counts : nvme_read(lba, n)
    \/ Poll
    \/ Spin
    \/ Controller
    \/ Halted

Spec == Init /\ [][Next]_vars

\* The controller works on, and the polling loop sees what it posts.
FairSpec == Spec /\ WF_vars(Poll) /\ WF_vars(Controller)

----------------------------------------------------------------------------
(* Properties *)

LastCommand(q) == sq[q][sq_tail[q] - 1]

\* When nvme_read() returns, the data of that very read is in the destination:
\* the completion polled is its own, not one left by an earlier command. Stated
\* for the commands in the queue's page (see SlotInPage; what the controller
\* makes of the others depends on the frame behind it) and for all but the last
\* before the queue counts as full (see FetchesSubmitted).
ReadReturnsData ==
    [][polling = 1 /\ polling' = NoQueue /\ sq_tail[1] <= PageCmds /\ sq_tail[1] < QL
       => destination = LastCommand(1).lba]_vars

\* The polling loop never looks at the completion entry that no mem_set
\* cleared, whose phase bit may be set from the start (nvme.c:42, 85, 111).
PollsCleared == polling # NoQueue => cq_head[polling] < QL

\* Every submit() returns, although the driver never frees an entry of the
\* completion queue: the queue counts as full before the controller has to
\* stop posting.
SubmitReturns == \A q \in Queues : (polling = q) ~> (polling = NoQueue)

\* nvme.c:15: a queue fits the "1 page" allocated for it, "therefore 64
\* commands can fit". No command is built outside that page.
SlotInPage == \A q \in Queues : sq_tail[q] <= PageCmds

\* nvme.c:23: the panic is raised when "submission queue is full", that is
\* when the controller has QL commands still to fetch.
FullMeansFull == panicked => \E q \in Queues : (doorbells[q] - head[q]) % (QL + 1) = QL

\* nvme.c:14: the length is that of a "circular buffer": its end is where the
\* controller's ring ends. Every entry the controller fetches was submitted.
FetchesSubmitted == \A q \in Queues : \A i \in busy[q] : sq[q][i] # Garbage

\* devfs.c:62: nvme_read(buffer, 8, 0) is to "load in the first 4kb to
\* buffer", one page. No block is stored anywhere else.
StoresInBuffer == ~stray
=============================================================================
