----------------------------- MODULE Scheduler -----------------------------
(***************************************************************************)
(* The round-robin scheduler of kernel/scheduler.c: the circular list of   *)
(* process structures, block/unblock, fork's insertion into the list, and  *)
(* the kernel-stack switch.                                                *)
(*                                                                         *)
(* Every IDT gate is an interrupt gate, so a handler runs with interrupts  *)
(* off until it returns to user mode or switches to another kernel stack.  *)
(* A handler is therefore one action, cut only where it calls scheduler(): *)
(* the part before the switch is one action, the part the process executes *)
(* when it is switched back to is another (Resume).                        *)
(***************************************************************************)
EXTENDS Integers, FiniteSets

CONSTANTS
    Procs,      \* process structures the kernel heap has room for
    Idle,       \* idle_proc
    InitProc    \* the process built by init_proc()

ASSUME ProcsAssumption == /\ Idle \in Procs
                          /\ InitProc \in Procs
                          /\ Idle # InitProc

VARIABLES
    live,       \* processes linked into the list
    next,       \* process_t.next
    pstate,     \* process_t.state
    pid,        \* process_t.pid
    ctx,        \* what process_t.stack_pointer points at
    active,     \* active_proc
    frame,      \* the kernel stack frame switch_kstack loaded last
    mode        \* "user": interrupts on; "switched": just after switch_kstack;
                \* else spinning in kpanic(), interrupts off

\* The messages the kernel stops with: "Kernel heap out of memory" and
\* "sendbuffer too large".
Panics == {"nomem", "toolarge"}

schedVars == <<live, next, pstate, pid, ctx, active, frame, mode>>

\* The frame a stack pointer can designate: "none" (idle's, zero from the bss,
\* until the first save), "firstret" (built by init_kstack), "timer" (inside
\* timer_interrupt), "read" (inside sendbuffer's block()).
Frames == {"none", "firstret", "timer", "read"}

SchedTypeOK ==
    /\ live \in SUBSET Procs
    /\ next \in [Procs -> Procs]
    /\ pstate \in [Procs -> {"READY", "WAITING"}]
    /\ pid \in [Procs -> 0..2]
    /\ ctx \in [Procs -> Frames]
    /\ active \in Procs
    /\ frame \in Frames
    /\ mode \in {"user", "switched"} \cup Panics

BootRing_NotLinkedBack == [p \in Procs |-> IF p = Idle THEN InitProc ELSE p]

\* init_proc() links init behind idle and idle behind init.
BootRing == [p \in Procs |-> IF p = Idle THEN InitProc
                             ELSE IF p = InitProc THEN Idle ELSE p]

\* init_scheduler() and init_proc(): idle runs, init is linked behind it with
\* a kernel stack that returns through firstret.
SchedInit ==
    /\ live = {Idle, InitProc}
    /\ next = BootRing
    /\ pstate = [p \in Procs |-> "READY"]
    /\ pid = [p \in Procs |-> IF p = InitProc THEN 1 ELSE 0]
    /\ ctx = [p \in Procs |-> IF p = InitProc THEN "firstret" ELSE "none"]
    /\ active = Idle
    /\ frame = "none"
    /\ mode = "user"

FirstReady_AnyReady(p, q, st) == st[q] = "READY" /\ q # p

\* The do-while of scheduler(): starting behind p, the loop skips a run of
\* processes that are not READY and stops at q, the first that is. `skipped'
\* is the run: its members and p lead, by next, exactly to its members and q.
\* No q satisfies this when the loop does not terminate.
FirstReady(p, q, st) ==
    /\ st[q] = "READY"
    /\ \E skipped \in SUBSET live :
        /\ {next[x] : x \in skipped \cup {p}} = skipped \cup {q}
        /\ \A x \in skipped : st[x] # "READY"

SaveFrame_TimerOnly(kind) ==
    IF kind = "read" THEN ctx ELSE [ctx EXCEPT ![active] = kind]

\* switch_kstack() stores the stack pointer of the process it leaves.
SaveFrame(kind) == [ctx EXCEPT ![active] = kind]

\* scheduler() with process states st. switch_kstack's second argument,
\* active_proc->stack_pointer, is read before the first one is saved: on a
\* switch from a process to itself the frame loaded is the previous one.
Switch(kind, st) ==
    \E q \in live :
        /\ FirstReady(active, q, st)
        /\ active' = q
        /\ frame' = ctx[q]
        /\ ctx' = SaveFrame(kind)
        /\ mode' = "switched"

\* IRQ 0: timer_interrupt() counts the tick and calls scheduler().
TimerInterrupt ==
    /\ mode = "user"
    /\ Switch("timer", pstate)
    /\ UNCHANGED <<live, next, pstate, pid>>

\* block(): the caller waits and the next READY process is switched to. Only
\* a process in a system call gets here; idle makes none.
Block ==
    /\ mode = "user"
    /\ active # Idle
    /\ pstate' = [pstate EXCEPT ![active] = "WAITING"]
    /\ Switch("read", pstate')
    /\ UNCHANGED <<live, next, pid>>

\* unblock(p), from the keyboard interrupt of whatever process is running.
Unblock(p) ==
    /\ mode = "user"
    /\ pstate' = [pstate EXCEPT ![p] = "READY"]
    /\ UNCHANGED <<live, next, pid, ctx, active, frame, mode>>

LinkBehindActive_DropsTail(new) == [next EXCEPT ![new] = Idle, ![active] = new]

\* fork() links the child behind its parent.
LinkBehindActive(new) == [next EXCEPT ![new] = next[active], ![active] = new]

FirstFrame_None(new) == ctx

\* init_kstack(): the frame a new process is first switched to.
FirstFrame(new) == [ctx EXCEPT ![new] = "firstret"]

\* fork(), as far as it concerns the list: the child takes the state of its
\* parent and the constant pid 2, is linked behind the parent, and gets a
\* kernel stack that leaves through firstret. (The address space is in
\* AddressSpaces, the descriptor table in Files.)
Fork(new) ==
    /\ mode = "user"
    /\ active # Idle
    /\ new \notin live
    /\ live' = live \cup {new}
    /\ next' = LinkBehindActive(new)
    /\ pstate' = [pstate EXCEPT ![new] = pstate[active]]
    /\ pid' = [pid EXCEPT ![new] = 2]
    /\ ctx' = FirstFrame(new)
    /\ UNCHANGED <<active, frame, mode>>

\* No process ever exits, so fork() meets the end of the kernel heap: kpanic.
ForkFails ==
    /\ mode = "user"
    /\ active # Idle
    /\ live = Procs
    /\ mode' = "nomem"
    /\ UNCHANGED <<live, next, pstate, pid, ctx, active, frame>>

\* The process switched to runs on from the frame loaded and returns to user
\* mode: out of timer_interrupt, through firstret, or out of block().
Resume ==
    /\ mode = "switched"
    /\ mode' = "user"
    /\ UNCHANGED <<live, next, pstate, pid, ctx, active, frame>>

\* A process that runs on inside a system call may find a reason to panic.
ResumePanics ==
    /\ mode = "switched"
    /\ frame = "read"
    /\ mode' = "toolarge"
    /\ UNCHANGED <<live, next, pstate, pid, ctx, active, frame>>

\* kpanic() spins for ever with interrupts off.
Halted == mode \in Panics /\ UNCHANGED schedVars

\* The scheduler on its own: any system call may block, any process that
\* waits may be woken.
SchedNext ==
    \/ TimerInterrupt
    \/ Block
    \/ \E p \in live : pstate[p] = "WAITING" /\ Unblock(p)
    \/ \E new \in Procs : Fork(new)
    \/ ForkFails
    \/ Resume
    \/ ResumePanics
    \/ Halted

\* The timer fires every 10 ms for as long as interrupts are on, and a frame
\* once loaded runs on with interrupts off.
SchedFairness == WF_schedVars(TimerInterrupt) /\ WF_schedVars(Resume)

SchedSpec == SchedInit /\ [][SchedNext]_schedVars
SchedFairSpec == SchedSpec /\ SchedFairness

----------------------------------------------------------------------------
(* Properties *)

\* The list stays one cycle through every live process, idle among them: a
\* set of live processes that next leads nowhere out of is all of them. A
\* fork that loses the tail of the list, or that leaves a second cycle,
\* breaks it (scheduler.c:109-110, 148-150).
Ring ==
    /\ Idle \in live
    /\ \A p \in live : next[p] \in live
    /\ \A S \in SUBSET live :
        S # {} /\ (\A p \in S : next[p] \in S) => S = live

\* The search loop of scheduler() finds a process whoever calls it, also when
\* the caller has just marked itself WAITING: idle is on the list and READY.
LoopTerminates ==
    mode = "user" =>
        /\ \E q \in live : FirstReady(active, q, pstate)
        /\ active # Idle =>
            \E q \in live : FirstReady(active, q, [pstate EXCEPT ![active] = "WAITING"])

\* The kernel stack switch_kstack loads was saved or built before, and is the
\* frame the process left last: the stack pointer passed on a switch to
\* oneself was read before the save and is still right, because only idle
\* switches to itself and always from the timer (scheduler.c:42).
LoadedFrameCurrent ==
    mode = "switched" => frame # "none" /\ frame = ctx[active]

\* Only idle ever switches to itself, and what a process resumes in is what
\* it was doing: a process that blocked in a read resumes in the read.
SelfSwitchOnlyIdle ==
    [][mode = "user" /\ mode' = "switched" /\ active' = active => active = Idle]_schedVars

\* Whatever runs is READY, and idle never waits (its state is never assigned).
RunningIsReady == pstate[active] = "READY" /\ pstate[Idle] = "READY"

\* No process starves: one that is READY is eventually the running one, unless
\* the kernel panics.
ReadyRuns ==
    \A p \in Procs :
        (p \in live /\ pstate[p] = "READY") ~> (active = p \/ mode \in Panics)

\* fork() hands out "next available pid" (scheduler.c:131) and returns it to
\* the parent: live processes have different pids.
UniquePids == \A p, q \in live : pid[p] = pid[q] => p = q
=============================================================================
