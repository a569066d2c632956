------------------------------ MODULE Terminal ------------------------------
(***************************************************************************)
(* The terminal of drivers/screen.c and drivers/keyboard.c on top of the   *)
(* scheduler: the one input buffer, the queue of processes blocked in a    *)
(* read of /dev/tty, the keyboard interrupt that edits and completes the   *)
(* line, and sendbuffer(), which blocks, is switched away from, and copies *)
(* the buffer when it is switched back to.                                 *)
(*                                                                         *)
(* The bytes of the buffer beyond its length are never read before they    *)
(* are written again, so the buffer is the sequence of the bytes below the *)
(* length. The length is a uint8_t: the byte that makes it LenMod makes it *)
(* zero.                                                                   *)
(***************************************************************************)
EXTENDS Scheduler, Sequences

CONSTANTS
    Chars,      \* printable keys
    Nul,        \* the terminating byte
    LenMod,     \* values of buffer.length (256 in the code)
    QSlots,     \* bound: reads of the terminal (1024 fill the queue's page)
    Counts      \* byte counts processes pass to read()

ASSUME TermAssumption == /\ LenMod \in Nat \ {0, 1}
                         /\ QSlots \in Nat
                         /\ Counts \subseteq Nat

VARIABLES
    buffer,     \* inbuffer: the first buffer.length bytes at buffer.start
    slot,       \* the page of process pointers at queue_head's first value
    head,       \* queue_head
    tail,       \* queue_tail
    count,      \* sendbuffer's count, on the kernel stack of each reader
    got,        \* the last line each process read
    careful     \* the typist is one who waits for a completed line to be read
                \* before typing on, and keeps lines below LenMod bytes

termVars == <<buffer, slot, head, tail, count, got, careful>>
vars == <<schedVars, termVars>>

Lines == Seq(Chars \cup {Nul})

TypeOK ==
    /\ SchedTypeOK
    /\ buffer \in Lines /\ Len(buffer) < LenMod
    /\ slot \in [0..(QSlots - 1) -> Procs]
    /\ head \in 0..QSlots /\ tail \in 0..QSlots /\ head <= tail
    /\ count \in [Procs -> 0..(LenMod - 1)]
    /\ got \in [Procs -> Lines]
    /\ careful \in BOOLEAN

\* init_terminal(), and one typist or the other.
Init ==
    /\ SchedInit
    /\ buffer = <<>>
    /\ slot = [i \in 0..(QSlots - 1) |-> Idle]
    /\ head = 0
    /\ tail = 0
    /\ count = [p \in Procs |-> 0]
    /\ got = [p \in Procs |-> <<>>]
    /\ careful \in BOOLEAN

\* *(buffer.start + buffer.length) = key; buffer.length++
Put(key) == IF Len(buffer) + 1 = LenMod THEN <<>> ELSE Append(buffer, key)

\* Processes that were unblocked and have not yet run on from block().
Woken == {p \in live : /\ pstate[p] = "READY"
                       /\ ctx[p] = "read"
                       /\ p = active => mode \in {"switched", "toolarge"}}

\* Keys arrive whenever interrupts are on; a careful typist holds back.
TypistMay == mode = "user" /\ (careful => Woken = {})

Enqueue_NoAdvance == slot' = [slot EXCEPT ![tail] = active] /\ tail' = tail

\* *queue_tail = active_proc; queue_tail++. The page holds QSlots pointers and
\* nothing takes the tail back to its start.
Enqueue == slot' = [slot EXCEPT ![tail] = active] /\ tail' = tail + 1

\* read() of the terminal, up to the switch: sendbuffer() takes the low byte of
\* the count, queues the caller and blocks it.
Read(n) ==
    /\ tail < QSlots
    /\ Block
    /\ Enqueue
    /\ count' = [count EXCEPT ![active] = n % LenMod]
    /\ UNCHANGED <<buffer, head, got, careful>>

\* keybuffer(), default case.
Key(c) ==
    /\ TypistMay
    /\ careful => Len(buffer) + 2 < LenMod
    /\ buffer' = Put(c)
    /\ UNCHANGED <<schedVars, slot, head, tail, count, got, careful>>

\* keybuffer(), backspace.
Backspace ==
    /\ TypistMay
    /\ buffer # <<>>
    /\ buffer' = SubSeq(buffer, 1, Len(buffer) - 1)
    /\ UNCHANGED <<schedVars, slot, head, tail, count, got, careful>>

\* keybuffer(), escape.
Escape ==
    /\ TypistMay
    /\ buffer' = <<>>
    /\ UNCHANGED <<schedVars, slot, head, tail, count, got, careful>>

Dequeue_SwitchesTo ==
    /\ pstate' = [pstate EXCEPT ![slot[head]] = "READY"]
    /\ active' = slot[head]
    /\ head' = head + 1
    /\ UNCHANGED <<live, next, pid, ctx, frame, mode>>

\* unblock(*queue_head); queue_head++
Dequeue == Unblock(slot[head]) /\ head' = head + 1

\* keybuffer(), newline: complete_buffer() ignores it when nobody waits, else
\* ends the line and wakes the process that has waited longest.
Newline ==
    /\ TypistMay
    /\ head # tail
    /\ buffer' = Put(Nul)
    /\ Dequeue
    /\ UNCHANGED <<slot, tail, count, got, careful>>

\* The test sendbuffer() makes after block() returns.
TooLarge(p) == Len(buffer) > count[p] /\ count[p] # 0

AfterCopy_Kept == buffer

\* sendbuffer() empties the buffer once it is copied.
AfterCopy == <<>>

\* A switch that lands in sendbuffer() behind block(): the line is copied to
\* the reader and the buffer emptied, or the kernel panics.
FinishRead ==
    /\ mode = "switched"
    /\ frame = "read"
    /\ IF TooLarge(active)
       THEN mode' = "toolarge" /\ UNCHANGED <<got, buffer>>
       ELSE /\ mode' = "user"
            /\ got' = [got EXCEPT ![active] = buffer]
            /\ buffer' = AfterCopy
    /\ UNCHANGED <<live, next, pstate, pid, ctx, active, frame, slot, head, tail, count, careful>>

\* A switch that lands anywhere else.
ResumeUser == frame # "read" /\ Resume /\ UNCHANGED termVars

Kernel ==
    \/ TimerInterrupt
    \/ \E new \in Procs : Fork(new)
    \/ ForkFails
    \/ Halted

Next ==
    \/ Kernel /\ UNCHANGED termVars
    \/ ResumeUser
    \/ FinishRead
    \/ \E n \in Counts : Read(n)
    \/ \E c \in Chars : Key(c)
    \/ Backspace \/ Escape \/ Newline

Fairness == WF_vars(TimerInterrupt /\ UNCHANGED termVars) /\ WF_vars(ResumeUser \/ FinishRead)

Spec == Init /\ [][Next]_vars
FairSpec == Spec /\ Fairness

----------------------------------------------------------------------------
(* Properties *)

\* The processes in the WAITING state are exactly those in the queue between
\* head and tail, each once: a blocked reader is never lost and never woken
\* twice, and the pointer complete_buffer() wakes is one that waits.
WaitersQueued ==
    /\ \A p \in Procs : pstate[p] = "WAITING" <=> \E i \in head..(tail - 1) : slot[i] = p
    /\ \A i, j \in head..(tail - 1) : slot[i] = slot[j] => i = j

\* A process that waits is suspended in sendbuffer() and is not the running
\* one: the switch that wakes it resumes the read and nothing else.
WaitersSuspended ==
    \A p \in Procs : pstate[p] = "WAITING" =>
        p \in live /\ p # Idle /\ p # active /\ ctx[p] = "read"

\* A process that was woken finishes its read, unless the kernel panics.
WokenReturns ==
    \A p \in Procs : (p \in Woken) ~> (p \notin Woken \/ mode \in Panics)

\* Every step of the terminal is a step the scheduler allows.
ImplementsScheduler == SchedSpec

\* With a careful typist the terminal keeps the promise of LineDiscipline: each
\* read gets one whole line, first come first served. The buffer is both the
\* line being edited and the line handed over: it is the latter from the wake-up
\* until the reader runs. (To a careless typist nothing is promised, and the
\* promise is looked at in its initial state.)
Promise == INSTANCE LineDiscipline WITH
    readers <- IF careful THEN [i \in 1..(tail - head) |-> slot[head + i - 1]] ELSE <<>>,
    edit <- IF careful /\ Woken = {} THEN buffer ELSE <<>>,
    handed <- [p \in Procs |-> IF careful /\ p \in Woken THEN {buffer} ELSE {}],
    got <- IF careful THEN got ELSE [p \in Procs |-> <<>>]

KeepsPromise == Promise!LineSpec
=============================================================================
