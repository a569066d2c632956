----------------------------- MODULE Interrupts -----------------------------
(***************************************************************************)
(* The way in and out of the kernel, kernel/idt/isrs.asm, around the       *)
(* scheduler: what generic_isr pushes on the kernel stack, the two words   *)
(* by which it pads the frame of a program that was interrupted in kernel  *)
(* mode, the global counter int_depth, and the way back through firstret.  *)
(*                                                                         *)
(* A stack is the sequence of its words, the one at the stack pointer      *)
(* first. The words C functions push and pop again are left out, except    *)
(* those of mmap(), in which the kernel itself may fault.                  *)
(***************************************************************************)
EXTENDS Scheduler, Sequences

CONSTANTS
    MmapWords,  \* words of mmap()'s own frame at the fault
    Callers     \* bound: processes that make the calls that do not switch

ASSUME MmapWordsAssumption == MmapWords \in Nat /\ MmapWords >= 2
ASSUME CallersAssumption == Callers \subseteq Procs \ {Idle}

VARIABLES
    prog,       \* per process, the registers its program has computed
    cpu,        \* while a program runs, what the processor's registers hold
    kst,        \* kernel stacks
    depth,      \* int_depth
    where       \* "program", or in a system call: "mmap", "fault"

isrVars == <<prog, cpu, kst, depth, where>>
vars == <<schedVars, isrVars>>

\* Registers are told apart by the process that computed them, by what is in
\* eax (its own value, what fork() returned to parent or child, what another
\* call returned), by where the program is, which exec() sets, and by the
\* flags: its own, or the 0x282 a process starts with.
Registers == [id : Procs, eax : {"own", "child", "zero", "result"},
              at : {"own", "entry"}, flags : {"own", "set"}]

\* isr_stack_t: the registers in the order pusha leaves them, ...
Regs(r) == <<<<"edi", r.id>>, <<"esi", r.id>>, <<"ebp", r.id>>, <<"esp", r.id>>,
             <<"ebx", r.id>>, <<"edx", r.id>>, <<"ecx", r.id>>, <<"eax", r.eax>>>>

\* ... and the words the processor pushes: the stack pointer only when it
\* comes from user mode.
Level(p) == IF p = Idle THEN "kernel" ELSE "user"
Return(p, r) == <<<<"eip", IF r.at = "entry" THEN "entry" ELSE r.id>>, <<"cs", Level(p)>>,
                  <<"eflags", IF r.flags = "set" THEN "set" ELSE r.id>>>>
UserStack(p, r) == IF p = Idle THEN <<>> ELSE <<<<"esp", IF r.at = "entry" THEN "entry" ELSE r.id>>, <<"ss", "user">>>>

\* The processor with the program of p running.
Context(p, r) == [regs |-> Regs(r), ret |-> Return(p, r),
                  ustack |-> UserStack(p, r), ds |-> Level(p)]

\* isr<vector>: vector and error code, 0 where the processor pushes none.
Stub(vector) == <<<<"vector", vector>>, <<"error", 0>>>>

\* The kernel stack of a running program: empty, and reached through the TSS
\* (init_tss), but for idle, which runs on it.
Base(p) == IF p = Idle THEN <<<<"call", "idle">>>> ELSE <<>>

\* init_kstack(): an isr_stack_t and, below it, a frame that returns to
\* firstret.
FirstStack(p, r) == Regs(r) \o Stub("none") \o Return(p, r) \o UserStack(p, r)

\* What a program has computed itself.
Own(p) == [id |-> p, eax |-> "own", at |-> "own", flags |-> "own"]

\* What a process starts with: init_proc() gives init its first frame.
Start(p) == IF p = InitProc THEN [Own(p) EXCEPT !.flags = "set"] ELSE Own(p)

\* The first frame of init and int_depth as they are before the first tick.
Init ==
    /\ SchedInit
    /\ prog = [p \in Procs |-> Start(p)]
    /\ cpu = Context(Idle, Own(Idle))
    /\ kst = [p \in Procs |-> IF p = InitProc THEN FirstStack(p, Start(p)) ELSE Base(p)]
    /\ depth = 0
    /\ where = "program"

\* pad: the registers are saved once more, 13 + 8 words are moved two words
\* down, the registers restored. The two words above the frame keep what
\* they held.
Pad(s) == LET t == [i \in 1..8 |-> <<"saved", i>>] \o s
          IN  SubSeq(t, 9, 21) \o SubSeq(t, 20, Len(t))

\* A single upward move of overlapping words repeats the first two.
Depad_InPlace(s) == [i \in 1..13 |-> s[1 + ((i - 1) % 2)]] \o SubSeq(s, 16, Len(s))

\* depad: the 13 words are moved out of the way and two words up.
Depad(s) == SubSeq(s, 1, 13) \o SubSeq(s, 16, Len(s))

\* generic_isr up to the call of interrupt_handler: the stack
\* of a process with pid n, interrupted with stack s and registers c.
Enter(vector, s, c, n) ==
    LET f == c.regs \o Stub(vector) \o c.ret \o c.ustack \o s
    IN  IF n = 0 THEN Pad(f) ELSE f

\* Only a program of the kernel is taken to have been interrupted in kernel
\* mode.
Depads_IdleOnly(d, n) == n = 0

\* The decision at firstret.
Depads(d, n) == d > 1 \/ n = 0

Deeper_FromUser(d, n) == IF n = 0 THEN d ELSE (d + 1) % 256

\* inc BYTE [int_depth]
Deeper(d, n) == (d + 1) % 256

\* dec BYTE [int_depth]
Shallower(d) == (d - 1) % 256

\* From firstret to iret with stack s: the registers popped, and the stack
\* that is left.
Leave(s, d, n) ==
    LET f == IF Depads(d, n) THEN Depad(s) ELSE s
        toUser == f[12] = <<"cs", "user">>
    IN  [cpu |-> [regs |-> SubSeq(f, 1, 8), ret |-> SubSeq(f, 11, 13),
                  ustack |-> IF toUser THEN SubSeq(f, 14, 15) ELSE <<>>,
                  ds |-> IF Depads(d, n) THEN "kernel" ELSE "user"],
         kst |-> SubSeq(f, IF toUser THEN 16 ELSE 14, Len(f))]

\* Interrupts come while a program runs: every gate of the IDT is an interrupt
\* gate, so a handler runs with interrupts off; the PIC lets the timer and the
\* keyboard through.
Interruptible == mode = "user" /\ where = "program"

Entered(vector) == Enter(vector, kst[active], cpu, pid[active])

\* The program computes.
Compute ==
    /\ Interruptible
    /\ active # Idle
    /\ prog' = [prog EXCEPT ![active] = Own(active)]
    /\ cpu' = Context(active, Own(active))
    /\ UNCHANGED <<schedVars, kst, depth, where>>

\* The handlers that end in a switch leave their frame on the stack.
Suspend(vector) ==
    /\ Interruptible
    /\ kst' = [kst EXCEPT ![active] = Entered(vector)]
    /\ depth' = Deeper(depth, pid[active])
    /\ UNCHANGED <<prog, cpu, where>>

\* IRQ 0: tick() and scheduler().
Timer == TimerInterrupt /\ Suspend("timer")

\* A read of the terminal, int 0x80 with edx = 2.
Blocking == Block /\ Suspend("syscall")

\* switch_kstack() has loaded another stack, whose frame is now left.
Resumed ==
    /\ Resume
    /\ LET l == Leave(kst[active], depth, pid[active])
       IN  cpu' = l.cpu /\ kst' = [kst EXCEPT ![active] = l.kst]
    /\ depth' = Shallower(depth)
    /\ UNCHANGED <<prog, where>>

\* A handler that returns without a switch, with frame s on the stack.
Returns(s) ==
    /\ LET l == Leave(s, Deeper(depth, pid[active]), pid[active])
       IN  cpu' = l.cpu /\ kst' = [kst EXCEPT ![active] = l.kst]
    /\ depth' = Shallower(Deeper(depth, pid[active]))
    /\ UNCHANGED where

\* A key that completes a line and wakes a reader.
Wakes(p) ==
    /\ Interruptible
    /\ pstate[p] = "WAITING"
    /\ Unblock(p)
    /\ Returns(Entered("keyboard"))
    /\ UNCHANGED prog

\* The word of the frame that will be popped into eax.
SetEax(s, v) == [s EXCEPT ![8] = <<"eax", v>>]

\* The system calls that come back without a switch: open() and mmap() return
\* their result in eax, write(), clear() and wait() leave the frame alone.
Calls ==
    /\ Interruptible
    /\ active \in Callers
    /\ \/ Returns(Entered("syscall")) /\ UNCHANGED prog
       \/ /\ Returns(SetEax(Entered("syscall"), "result"))
          /\ prog' = [prog EXCEPT ![active].eax = "result"]
    /\ UNCHANGED schedVars

\* exec(): the frame returns to the new program's first instruction with an
\* empty user stack.
Executes ==
    /\ Interruptible
    /\ active \in Callers
    /\ Returns([Entered("syscall") EXCEPT ![11] = <<"eip", "entry">>, ![14] = <<"esp", "entry">>])
    /\ prog' = [prog EXCEPT ![active].at = "entry"]
    /\ UNCHANGED schedVars

\* The eflags word of the frame.
SetFlags(s) == [s EXCEPT ![13] = <<"eflags", "set">>]

\* fork(): the child starts with a copy of the frame, *isr_stack, but for the
\* flags. Its pid is returned to the parent, 0 to the child.
Forks(new) ==
    /\ Interruptible
    /\ Fork(new)
    /\ LET s == Entered("syscall")
           l == Leave(SetEax(s, "child"), Deeper(depth, pid[active]), pid[active])
       IN  /\ cpu' = l.cpu
           /\ kst' = [kst EXCEPT ![active] = l.kst, ![new] = SetFlags(SetEax(SubSeq(s, 1, 15), "zero"))]
    /\ prog' = [prog EXCEPT ![active].eax = "child",
                            ![new] = [prog[active] EXCEPT !.eax = "zero", !.flags = "set"]]
    /\ UNCHANGED <<depth, where>>

\* The kernel's own registers, when it faults in mmap().
InMmap(p) == [Context(Idle, Own(p)) EXCEPT !.ret[1] = <<"eip", "mmap">>]
MmapFrame == [i \in 1..MmapWords |-> <<"mmap", i>>]

\* mmap() stores to a page table that is not there: page_fault_allowed is set
\* and the fault is taken in kernel mode, on the same stack.
MmapFaults ==
    /\ Interruptible
    /\ active \in Callers
    /\ kst' = [kst EXCEPT ![active] =
                    Enter("page fault", MmapFrame \o Entered("syscall"), InMmap(active), pid[active])]
    /\ depth' = Deeper(Deeper(depth, pid[active]), pid[active])
    /\ where' = "fault"
    /\ UNCHANGED <<schedVars, prog, cpu>>

\* page_fault() has made the page table and returns into mmap().
FaultReturns ==
    /\ where = "fault"
    /\ LET l == Leave(kst[active], depth, pid[active])
       IN  cpu' = l.cpu /\ kst' = [kst EXCEPT ![active] = l.kst]
    /\ depth' = Shallower(depth)
    /\ where' = "mmap"
    /\ UNCHANGED <<schedVars, prog>>

\* mmap() returns, its frame dropped whatever is left of it (leave takes the
\* stack pointer from ebp), and the system call with its result.
MmapReturns ==
    /\ where = "mmap"
    /\ LET s == kst[active]
           l == Leave(SetEax(SubSeq(s, Len(s) - 14, Len(s)), "result"), depth, pid[active])
       IN  cpu' = l.cpu /\ kst' = [kst EXCEPT ![active] = l.kst]
    /\ prog' = [prog EXCEPT ![active].eax = "result"]
    /\ depth' = Shallower(depth)
    /\ where' = "program"
    /\ UNCHANGED schedVars

\* A panic in a handler: fork() without memory, sendbuffer() after a switch.
Panic ==
    /\ where = "program"
    /\ ForkFails \/ ResumePanics
    /\ UNCHANGED isrVars

Spinning == Halted /\ UNCHANGED isrVars

Next ==
    \/ Compute \/ Calls \/ Executes
    \/ Timer \/ Blocking \/ Resumed
    \/ \E p \in live : Wakes(p)
    \/ \E new \in Procs : Forks(new)
    \/ MmapFaults \/ FaultReturns \/ MmapReturns
    \/ Panic \/ Spinning

\* The interrupt controller keeps a tick that comes while interrupts are off,
\* hence strong fairness of the timer; the kernel runs on.
Fairness == SF_vars(Timer) /\ WF_vars(Resumed) /\ WF_vars(FaultReturns) /\ WF_vars(MmapReturns)

Spec == Init /\ [][Next]_vars
FairSpec == Spec /\ Fairness

----------------------------------------------------------------------------
(* Properties *)

\* Interrupts are transparent: when a program runs, it has the registers, the
\* segments and the stack it had before, whichever processes ran in between
\* and wherever it was suspended; a system call changes eax and no more,
\* exec() where the program is, and a child starts where its parent is, with
\* the flags fork() sets (isrs.asm:22-108, scheduler.c:57-70, 129-130).
RestoresContext ==
    Interruptible => cpu = Context(active, prog[active]) /\ kst[active] = Base(active)

\* int_depth, one byte for all processes, is the number of handlers on the
\* stack in use, although it is counted up on one stack and down on another
\* (isrs.asm:31, 55): every stack switched to has one.
DepthExact ==
    depth = Cardinality({i \in DOMAIN kst[active] : kst[active][i][1] = "vector"})

\* The kernel survives its own faults: a page fault taken in kernel mode, deep
\* in a system call of a program, goes back to mmap() with mmap()'s registers
\* and the kernel's segments, and the frame by which the system call will
\* return to the program is still the last thing on the stack, although
\* depad takes away two words nothing was padded with: they are mmap()'s
\* (isrs.asm:33-34, 41-42, 85-108).
MmapGoesOn ==
    where = "mmap" =>
        /\ cpu = InMmap(active)
        /\ SubSeq(kst[active], Len(kst[active]) - 14, Len(kst[active])) =
              Regs(prog[active]) \o Stub("syscall") \o Return(active, prog[active])
                \o UserStack(active, prog[active])

\* ";didn't jump, therefore we came from usermode" (isrs.asm:35): a frame that
\* was not padded came from user mode. If not, firstret removes two words that
\* pad did not add, and a fault leaves mmap() with another stack than it had.
FaultTransparent ==
    where = "mmap" => SubSeq(kst[active], 1, MmapWords) = MmapFrame
=============================================================================
