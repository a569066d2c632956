--------------------------- MODULE TerminalProofs ---------------------------
(***************************************************************************)
(* Proofs about Terminal for any number of processes, any buffer length    *)
(* and any typist: its steps are steps of the scheduler, and the wait      *)
(* queue and the process states agree.                                     *)
(***************************************************************************)
EXTENDS Terminal, SchedulerProofs, SequenceTheorems

\* The inductive invariant. WaitersQueued needs WaitersSuspended (the process
\* Newline wakes is on the list and waits), and both need the scheduler's
\* (whoever calls read() is READY, hence not in the queue yet).
Inv == SchedInv /\ TypeOK /\ WaitersQueued /\ WaitersSuspended

----------------------------------------------------------------------------
\* The first process in a queue that is not empty waits and is on the list.
LEMMA HeadWaits ==
    ASSUME Inv, head # tail
    PROVE  slot[head] \in live /\ pstate[slot[head]] = "WAITING" /\ head \in 0..(QSlots - 1)
<1>1. head \in head..(tail - 1) /\ head \in 0..(QSlots - 1)
  BY TermAssumption DEF Inv, TypeOK
<1>2. slot[head] \in Procs
  BY <1>1 DEF Inv, TypeOK
<1>3. pstate[slot[head]] = "WAITING"
  BY <1>1, <1>2 DEF Inv, WaitersQueued
<1> QED
  BY <1>1, <1>2, <1>3 DEF Inv, WaitersSuspended

\* What the terminal does is something the scheduler may do.
LEMMA StepImplements == Inv /\ [Next]_vars => [SchedNext]_schedVars
<1> SUFFICES ASSUME Inv, [Next]_vars PROVE [SchedNext]_schedVars
  OBVIOUS
<1>1. CASE Kernel
  BY <1>1 DEF Kernel, SchedNext
<1>2. CASE ResumeUser
  BY <1>2 DEF ResumeUser, SchedNext
<1>3. CASE FinishRead
  BY <1>3 DEF FinishRead, SchedNext, Resume, ResumePanics
<1>4. ASSUME NEW n \in Counts, Read(n) PROVE [SchedNext]_schedVars
  BY <1>4 DEF Read, SchedNext
<1>5. CASE (\E c \in Chars : Key(c)) \/ Backspace \/ Escape
  BY <1>5 DEF Key, Backspace, Escape
<1>6. CASE Newline
  <2>1. slot[head] \in live /\ pstate[slot[head]] = "WAITING" /\ Unblock(slot[head])
    BY <1>6, HeadWaits DEF Newline, Dequeue
  <2> QED
    BY <2>1 DEF SchedNext
<1>7. CASE UNCHANGED vars
  BY <1>7 DEF vars
<1> QED
  BY <1>1, <1>2, <1>3, <1>4, <1>5, <1>6, <1>7 DEF Next

\* The bytes below the length after one byte more.
LEMMA PutType ==
    ASSUME TypeOK, NEW key \in Chars \cup {Nul}
    PROVE  Put(key) \in Lines /\ Len(Put(key)) < LenMod
<1> DEFINE X == Chars \cup {Nul}
<1>1. buffer \in Seq(X) /\ Len(buffer) \in Nat /\ Len(buffer) < LenMod /\ LenMod \in Nat /\ 0 < LenMod
  BY TermAssumption DEF TypeOK, Lines
<1>2. CASE Len(buffer) + 1 = LenMod
  <2>1. Put(key) = <<>>
    BY <1>2 DEF Put
  <2> QED
    BY <1>1, <2>1 DEF Lines
<1>3. CASE Len(buffer) + 1 # LenMod
  <2>1. Put(key) = Append(buffer, key)
    BY <1>3 DEF Put
  <2>2. Append(buffer, key) \in Seq(X) /\ Len(Append(buffer, key)) = Len(buffer) + 1
    BY <1>1
  <2> QED
    BY <1>1, <1>3, <2>1, <2>2 DEF Lines
<1> QED
  BY <1>2, <1>3

----------------------------------------------------------------------------
LEMMA InitInv == Init => Inv
<1> SUFFICES ASSUME Init PROVE Inv
  OBVIOUS
<1>1. SchedInv
  BY SchedInitInv DEF Init
<1>2. TypeOK
  <2>1. SchedTypeOK
    BY <1>1 DEF SchedInv
  <2> QED
    BY <2>1, ProcsAssumption, TermAssumption DEF Init, TypeOK, Lines
<1>3. WaitersQueued /\ WaitersSuspended
  BY DEF Init, SchedInit, WaitersQueued, WaitersSuspended
<1> QED
  BY <1>1, <1>2, <1>3 DEF Inv

\* Steps that touch neither the queue nor a process state nor a waiting
\* process's frame, and switch to a READY process if at all.
LEMMA QueueUntouched ==
    ASSUME Inv, SchedInv', UNCHANGED <<slot, head, tail>>, live \subseteq live',
           \A p \in Procs : pstate'[p] = pstate[p],
           \A p \in Procs : pstate[p] = "WAITING" => ctx'[p] = ctx[p]
    PROVE  WaitersQueued' /\ WaitersSuspended'
<1>1. WaitersQueued'
  BY DEF Inv, WaitersQueued
<1>2. pstate'[active'] = "READY" /\ active' \in Procs
  BY DEF SchedInv, RunningIsReady, SchedTypeOK
<1>3. WaitersSuspended'
  BY <1>2 DEF Inv, WaitersSuspended
<1> QED
  BY <1>1, <1>3

LEMMA NextInv == Inv /\ [Next]_vars => Inv'
<1> SUFFICES ASSUME Inv, [Next]_vars PROVE Inv'
  OBVIOUS
<1>0. SchedInv /\ TypeOK /\ WaitersQueued /\ WaitersSuspended /\ SchedTypeOK
  BY DEF Inv, SchedInv
<1>s. SchedInv' /\ SchedTypeOK'
  <2>1. SchedInv'
    BY <1>0, StepImplements, SchedNextInv
  <2> QED
    BY <2>1 DEF SchedInv
<1>r. active \in Procs /\ pstate[active] = "READY"
  BY <1>0 DEF SchedInv, RunningIsReady, SchedTypeOK
<1>1. CASE Kernel /\ UNCHANGED termVars
  <2>1. TypeOK'
    BY <1>0, <1>s, <1>1 DEF TypeOK, termVars
  <2>2. live \subseteq live' /\ \A p \in Procs : pstate'[p] = pstate[p]
    <3>1. CASE \E new \in Procs : Fork(new)
      <4>1. PICK new \in Procs : Fork(new)
        BY <3>1
      <4>2. pstate[new] = "READY"
        BY <1>0, <4>1 DEF Fork, WaitersSuspended, SchedTypeOK
      <4> QED
        BY <1>0, <1>r, <4>1, <4>2 DEF Fork, SchedTypeOK
    <3>2. CASE TimerInterrupt \/ ForkFails \/ Halted
      BY <3>2 DEF TimerInterrupt, ForkFails, Halted, schedVars
    <3> QED
      BY <1>1, <3>1, <3>2 DEF Kernel
  <2>3. \A p \in Procs : pstate[p] = "WAITING" => ctx'[p] = ctx[p]
    <3>1. CASE \E new \in Procs : Fork(new)
      <4>1. PICK new \in Procs : Fork(new)
        BY <3>1
      <4>2. pstate[new] = "READY"
        BY <1>0, <4>1 DEF Fork, WaitersSuspended, SchedTypeOK
      <4> QED
        BY <1>0, <4>1, <4>2 DEF Fork, FirstFrame, SchedTypeOK
    <3>2. CASE TimerInterrupt
      BY <1>0, <1>r, <3>2 DEF TimerInterrupt, Switch, SaveFrame, SchedTypeOK
    <3>3. CASE ForkFails \/ Halted
      BY <3>3 DEF ForkFails, Halted, schedVars
    <3> QED
      BY <1>1, <3>1, <3>2, <3>3 DEF Kernel
  <2>4. WaitersQueued' /\ WaitersSuspended'
    BY <1>s, <1>1, <2>2, <2>3, QueueUntouched DEF termVars
  <2> QED
    BY <1>s, <2>1, <2>4 DEF Inv
<1>2. CASE ResumeUser
  <2>1. TypeOK'
    BY <1>0, <1>s, <1>2 DEF ResumeUser, TypeOK, termVars
  <2>2. WaitersQueued' /\ WaitersSuspended'
    BY <1>s, <1>2, QueueUntouched DEF ResumeUser, Resume, termVars
  <2> QED
    BY <1>s, <2>1, <2>2 DEF Inv
<1>3. CASE FinishRead
  <2>1. TypeOK'
    <3>1. buffer' \in Lines /\ Len(buffer') < LenMod
      <4>1. buffer' = buffer \/ buffer' = <<>>
        BY <1>3 DEF FinishRead, AfterCopy
      <4>2. CASE buffer' = buffer
        BY <1>0, <4>2 DEF TypeOK
      <4>3. CASE buffer' = <<>>
        BY <4>3, TermAssumption DEF Lines
      <4> QED
        BY <4>1, <4>2, <4>3
    <3>2. got' \in [Procs -> Lines]
      BY <1>0, <1>3, <1>r DEF FinishRead, TypeOK
    <3>3. UNCHANGED <<slot, head, tail, count, careful>>
      BY <1>3 DEF FinishRead
    <3> QED
      BY <1>0, <1>s, <3>1, <3>2, <3>3 DEF TypeOK
  <2>2. WaitersQueued' /\ WaitersSuspended'
    BY <1>s, <1>3, QueueUntouched DEF FinishRead
  <2> QED
    BY <1>s, <2>1, <2>2 DEF Inv
<1>4. ASSUME NEW n \in Counts, Read(n) PROVE Inv'
  <2>0. /\ tail < QSlots
        /\ slot' = [slot EXCEPT ![tail] = active]
        /\ tail' = tail + 1
        /\ head' = head
        /\ pstate' = [pstate EXCEPT ![active] = "WAITING"]
        /\ ctx' = [ctx EXCEPT ![active] = "read"]
        /\ active # Idle
        /\ live' = live
    BY <1>4 DEF Read, Enqueue, Block, Switch, SaveFrame
  <2>t. /\ tail \in 0..(QSlots - 1) /\ head \in 0..tail
        /\ slot \in [0..(QSlots - 1) -> Procs]
        /\ QSlots \in Nat
    BY <1>0, <2>0, TermAssumption DEF TypeOK
  <2>1. TypeOK'
    <3>1. n % LenMod \in 0..(LenMod - 1)
      BY TermAssumption
    <3>2. count' \in [Procs -> 0..(LenMod - 1)] /\ buffer' = buffer /\ got' = got /\ careful' = careful
      BY <1>0, <1>4, <3>1 DEF Read, TypeOK
    <3>3. slot' \in [0..(QSlots - 1) -> Procs] /\ head' \in 0..QSlots /\ tail' \in 0..QSlots /\ head' <= tail'
      BY <2>0, <2>t, <1>r
    <3> QED
      BY <1>0, <1>s, <3>2, <3>3 DEF TypeOK
  <2>2. \A i \in head..(tail - 1) : slot[i] # active
    BY <1>0, <1>r DEF WaitersQueued
  <2>3. slot'[tail] = active /\ \A i \in head..(tail - 1) : slot'[i] = slot[i]
    BY <2>0, <2>t
  <2>4. head'..(tail' - 1) = (head..(tail - 1)) \cup {tail}
    BY <2>0, <2>t
  <2>5. \A p \in Procs : pstate'[p] = "WAITING" <=> (pstate[p] = "WAITING" \/ p = active)
    BY <1>0, <2>0 DEF SchedTypeOK
  <2>6. WaitersQueued'
    <3>1. \A p \in Procs : pstate'[p] = "WAITING" <=> \E i \in head'..(tail' - 1) : slot'[i] = p
      BY <1>0, <2>3, <2>4, <2>5 DEF WaitersQueued
    <3>2. \A i, j \in head'..(tail' - 1) : slot'[i] = slot'[j] => i = j
      BY <1>0, <2>2, <2>3, <2>4 DEF WaitersQueued
    <3> QED
      BY <3>1, <3>2 DEF WaitersQueued
  <2>7. WaitersSuspended'
    <3>1. pstate'[active'] = "READY"
      BY <1>s DEF SchedInv, RunningIsReady
    <3>2. active \in live
      BY <1>0 DEF SchedInv
    <3> QED
      BY <1>0, <1>r, <2>0, <2>5, <3>1, <3>2 DEF WaitersSuspended, SchedTypeOK
  <2> QED
    BY <1>s, <2>1, <2>6, <2>7 DEF Inv
<1>5. CASE (\E c \in Chars : Key(c)) \/ Backspace \/ Escape
  <2>1. buffer' \in Lines /\ Len(buffer') < LenMod
    <3>1. ASSUME NEW c \in Chars, Key(c) PROVE buffer' \in Lines /\ Len(buffer') < LenMod
      BY <1>0, <3>1, PutType DEF Key
    <3>2. CASE Backspace
      BY <1>0, <3>2, TermAssumption DEF Backspace, TypeOK, Lines
    <3>3. CASE Escape
      BY <3>3, TermAssumption DEF Escape, Lines
    <3> QED
      BY <1>5, <3>1, <3>2, <3>3
  <2>2. UNCHANGED <<schedVars, slot, head, tail, count, got, careful>>
    BY <1>5 DEF Key, Backspace, Escape
  <2>3. TypeOK'
    BY <1>0, <1>s, <2>1, <2>2 DEF TypeOK
  <2>4. WaitersQueued' /\ WaitersSuspended'
    BY <1>s, <2>2, QueueUntouched DEF schedVars
  <2> QED
    BY <1>s, <2>3, <2>4 DEF Inv
<1>6. CASE Newline
  <2>0. /\ head # tail
        /\ buffer' = Put(Nul)
        /\ head' = head + 1
        /\ pstate' = [pstate EXCEPT ![slot[head]] = "READY"]
        /\ UNCHANGED <<slot, tail, count, got, careful, live, ctx, active>>
    BY <1>6 DEF Newline, Dequeue, Unblock
  <2>1. slot[head] \in live /\ pstate[slot[head]] = "WAITING" /\ head \in 0..(QSlots - 1) /\ slot[head] \in Procs
    BY <1>0, <2>0, HeadWaits DEF SchedTypeOK
  <2>t. tail \in 0..QSlots /\ head < tail /\ head \in Nat /\ QSlots \in Nat
    BY <1>0, <2>0, <2>1, TermAssumption DEF TypeOK
  <2>2. TypeOK'
    <3>1. buffer' \in Lines /\ Len(buffer') < LenMod
      BY <1>0, <2>0, PutType
    <3>2. head' \in 0..QSlots /\ head' <= tail'
      BY <2>0, <2>t
    <3> QED
      BY <1>0, <1>s, <2>0, <3>1, <3>2 DEF TypeOK
  <2>3. head'..(tail' - 1) = (head..(tail - 1)) \ {head} /\ head \in head..(tail - 1)
    BY <2>0, <2>t
  <2>4. \A p \in Procs : pstate'[p] = "WAITING" <=> (pstate[p] = "WAITING" /\ p # slot[head])
    BY <1>0, <2>0 DEF SchedTypeOK
  <2>5. WaitersQueued'
    <3>1. \A p \in Procs : pstate'[p] = "WAITING" <=> \E i \in head'..(tail' - 1) : slot'[i] = p
      BY <1>0, <2>0, <2>1, <2>3, <2>4 DEF WaitersQueued
    <3>2. \A i, j \in head'..(tail' - 1) : slot'[i] = slot'[j] => i = j
      BY <1>0, <2>0, <2>3 DEF WaitersQueued
    <3> QED
      BY <3>1, <3>2 DEF WaitersQueued
  <2>6. WaitersSuspended'
    BY <1>0, <2>0, <2>4 DEF WaitersSuspended
  <2> QED
    BY <1>s, <2>2, <2>5, <2>6 DEF Inv
<1>7. CASE UNCHANGED vars
  <2>1. UNCHANGED <<schedVars, termVars>>
    BY <1>7 DEF vars
  <2>2. TypeOK'
    BY <1>0, <1>s, <2>1 DEF TypeOK, termVars
  <2>3. WaitersQueued' /\ WaitersSuspended'
    BY <1>s, <2>1, QueueUntouched DEF schedVars, termVars
  <2> QED
    BY <1>s, <2>2, <2>3 DEF Inv
<1> QED
  BY <1>1, <1>2, <1>3, <1>4, <1>5, <1>6, <1>7 DEF Next

----------------------------------------------------------------------------
\* The invariant holds in every reachable state of the terminal.
THEOREM Invariance == Spec => []Inv
BY InitInv, NextInv, PTL DEF Spec

\* Types, the bounds on the buffer length and on the queue pointers included.
THEOREM TypeTheorem == Spec => []TypeOK
<1>1. Inv => TypeOK
  BY DEF Inv
<1> QED
  BY <1>1, Invariance, PTL

\* No reader is lost: the queue holds exactly the processes that wait, whatever
\* keys arrive and whenever the timer fires.
THEOREM WaitersQueuedTheorem == Spec => []WaitersQueued
<1>1. Inv => WaitersQueued
  BY DEF Inv
<1> QED
  BY <1>1, Invariance, PTL

\* A process that waits is suspended in sendbuffer() and is not running.
THEOREM WaitersSuspendedTheorem == Spec => []WaitersSuspended
<1>1. Inv => WaitersSuspended
  BY DEF Inv
<1> QED
  BY <1>1, Invariance, PTL

\* The terminal implements the scheduler.
THEOREM ImplementsTheorem == Spec => ImplementsScheduler
<1>1. Init => SchedInit
  BY DEF Init
<1> QED
  BY <1>1, StepImplements, Invariance, PTL DEF Spec, SchedSpec, ImplementsScheduler

----------------------------------------------------------------------------
(* The terminal keeps the promise of LineDiscipline to a careful typist. *)

\* While the typist is careful at most one process is on its way back from a
\* read, and while none is, the buffer has room for the NUL that ends the line.
CarefulInv ==
    careful =>
        /\ \A p, q \in Woken : p = q
        /\ Woken = {} => Len(buffer) + 1 < LenMod

PromiseInv == Inv /\ CarefulInv

\* The view of the terminal's state that LineDiscipline is given.
Readers == IF careful THEN [i \in 1..(tail - head) |-> slot[head + i - 1]] ELSE <<>>
Edit == IF careful /\ Woken = {} THEN buffer ELSE <<>>
Handed == [p \in Procs |-> IF careful /\ p \in Woken THEN {buffer} ELSE {}]
Got == IF careful THEN got ELSE [p \in Procs |-> <<>>]

\* A tick, a fork, a read and a return to user mode outside sendbuffer() leave
\* the set of woken processes as it is: the process that is left is not woken.
LEMMA WokenKept ==
    ASSUME Inv, Kernel \/ ResumeUser \/ \E n \in Counts : Read(n)
    PROVE  Woken' = Woken
<1>0. SchedTypeOK /\ Ring /\ active \in live /\ active \in Procs /\ live \subseteq Procs /\ LoadedFrameCurrent
  BY DEF Inv, SchedInv, SchedTypeOK
<1>1. CASE TimerInterrupt
  BY <1>0, <1>1 DEF TimerInterrupt, Switch, SaveFrame, Woken, SchedTypeOK
<1>2. ASSUME NEW new \in Procs, Fork(new) PROVE Woken' = Woken
  BY <1>0, <1>2 DEF Fork, FirstFrame, Woken, SchedTypeOK
<1>3. CASE ForkFails
  BY <1>0, <1>3 DEF ForkFails, Woken
<1>4. CASE Halted
  BY <1>4 DEF Halted, schedVars, Woken
<1>5. CASE ResumeUser
  BY <1>0, <1>5 DEF ResumeUser, Resume, Woken, LoadedFrameCurrent
<1>6. ASSUME NEW n \in Counts, Read(n) PROVE Woken' = Woken
  BY <1>0, <1>6 DEF Read, Block, Switch, SaveFrame, Woken, SchedTypeOK
<1> QED
  BY <1>1, <1>2, <1>3, <1>4, <1>5, <1>6 DEF Kernel

\* The process that finishes its read was woken, and is so no longer.
LEMMA WokenFinishes ==
    ASSUME Inv, FinishRead
    PROVE  /\ active \in Woken
           /\ mode' = "toolarge" => Woken' = Woken
           /\ mode' = "user" => Woken' = Woken \ {active}
<1>0. active \in live /\ pstate[active] = "READY" /\ ctx[active] = "read" /\ mode = "switched"
  BY DEF Inv, SchedInv, RunningIsReady, LoadedFrameCurrent, FinishRead
<1>1. active \in Woken
  BY <1>0 DEF Woken
<1>2. UNCHANGED <<live, pstate, ctx, active>>
  BY DEF FinishRead
<1> QED
  BY <1>0, <1>1, <1>2 DEF Woken

\* The newline wakes the process that has waited longest and no other.
LEMMA WokenByNewline ==
    ASSUME Inv, Newline
    PROVE  Woken' = Woken \cup {slot[head]}
<1>1. slot[head] \in live /\ pstate[slot[head]] = "WAITING"
  BY HeadWaits DEF Newline
<1>2. live \subseteq Procs /\ slot[head] \in Procs /\ slot[head] # active /\ ctx[slot[head]] = "read"
  BY <1>1 DEF Inv, SchedInv, SchedTypeOK, WaitersSuspended
<1>3. pstate' = [pstate EXCEPT ![slot[head]] = "READY"] /\ UNCHANGED <<live, ctx, active, mode>>
  BY DEF Newline, Dequeue, Unblock
<1> QED
  BY <1>1, <1>2, <1>3 DEF Woken, Inv, SchedInv, SchedTypeOK

LEMMA PromiseInitInv == Init => PromiseInv
<1> SUFFICES ASSUME Init PROVE PromiseInv
  OBVIOUS
<1>1. Woken = {} /\ Len(buffer) = 0
  <2>1. Len(buffer) = 0
    BY DEF Init
  <2>2. \A p \in live : ctx[p] # "read"
    BY ProcsAssumption DEF Init, SchedInit
  <2> QED
    BY <2>1, <2>2 DEF Woken
<1> QED
  BY <1>1, InitInv, TermAssumption DEF PromiseInv, CarefulInv

LEMMA PromiseNextInv == PromiseInv /\ [Next]_vars => PromiseInv'
<1> SUFFICES ASSUME PromiseInv, [Next]_vars PROVE PromiseInv'
  OBVIOUS
<1>0. Inv /\ CarefulInv /\ Inv'
  BY NextInv DEF PromiseInv
<1>t. buffer \in Seq(Chars \cup {Nul}) /\ Len(buffer) \in Nat /\ Len(buffer) < LenMod /\ LenMod \in Nat /\ 1 < LenMod
  BY <1>0, TermAssumption DEF Inv, TypeOK, Lines
<1>1. ASSUME (Kernel /\ UNCHANGED termVars) \/ ResumeUser \/ \E n \in Counts : Read(n) PROVE CarefulInv'
  <2>1. Woken' = Woken
    BY <1>0, <1>1, WokenKept
  <2>2. UNCHANGED <<buffer, careful>>
    BY <1>1 DEF termVars, ResumeUser, Read
  <2> QED
    BY <1>0, <2>1, <2>2 DEF CarefulInv
<1>2. ASSUME FinishRead PROVE CarefulInv'
  <2>1. active \in Woken /\ (mode' = "toolarge" => Woken' = Woken) /\ (mode' = "user" => Woken' = Woken \ {active})
    BY <1>0, <1>2, WokenFinishes
  <2>2. CASE TooLarge(active)
    BY <1>0, <1>2, <2>1, <2>2 DEF FinishRead, CarefulInv
  <2>3. CASE ~ TooLarge(active)
    <3>1. mode' = "user" /\ Len(buffer') = 0 /\ careful' = careful
      BY <1>2, <2>3 DEF FinishRead, AfterCopy
    <3> QED
      BY <1>0, <1>t, <2>1, <3>1 DEF CarefulInv
  <2> QED
    BY <2>2, <2>3
<1>3. ASSUME (\E c \in Chars : Key(c)) \/ Backspace \/ Escape PROVE CarefulInv'
  <2>1. Woken' = Woken /\ careful' = careful
    BY <1>3 DEF Key, Backspace, Escape, schedVars, Woken
  <2>2. careful => Len(buffer') + 1 < LenMod
    <3>1. SUFFICES ASSUME careful PROVE Len(buffer') + 1 < LenMod
      OBVIOUS
    <3>2. Len(buffer) + 1 < LenMod
      BY <1>0, <1>3, <3>1 DEF CarefulInv, Key, Backspace, Escape, TypistMay
    <3>3. ASSUME NEW c \in Chars, Key(c) PROVE Len(buffer') + 1 < LenMod
      <4>1. Len(buffer) + 2 < LenMod /\ buffer' = Append(buffer, c)
        BY <1>t, <3>1, <3>3 DEF Key, Put
      <4>2. Len(buffer') = Len(buffer) + 1
        BY <1>t, <4>1
      <4> QED
        BY <1>t, <4>1, <4>2
    <3>4. CASE Backspace
      <4>1. buffer # <<>> /\ buffer' = SubSeq(buffer, 1, Len(buffer) - 1)
        BY <3>4 DEF Backspace
      <4>2. Len(buffer) # 0
        BY <1>t, <4>1
      <4>3. Len(buffer') = Len(buffer) - 1
        <5>1. Len(buffer) - 1 \in Int /\ \A i \in 1..(Len(buffer) - 1) : buffer[i] \in Chars \cup {Nul}
          BY <1>t, ElementOfSeq
        <5>2. Len(buffer') = IF 1 <= Len(buffer) - 1 THEN (Len(buffer) - 1) - 1 + 1 ELSE 0
          BY <4>1, <5>1, SubSeqProperties
        <5>3. Len(buffer) \in Nat
          BY <1>t
        <5>4. CASE Len(buffer) = 1
          BY <5>2, <5>4
        <5>5. CASE 1 < Len(buffer)
          <6>1. Len(buffer') = (Len(buffer) - 1) - 1 + 1
            BY <5>2, <5>3, <5>5
          <6> QED
            BY <5>3, <6>1
        <5> QED
          BY <4>2, <5>3, <5>4, <5>5
      <4> QED
        BY <1>t, <3>2, <4>3
    <3>5. CASE Escape
      BY <1>t, <3>5 DEF Escape
    <3> QED
      BY <1>3, <3>3, <3>4, <3>5
  <2> QED
    BY <1>0, <2>1, <2>2 DEF CarefulInv
<1>4. ASSUME Newline PROVE CarefulInv'
  <2>1. Woken' = Woken \cup {slot[head]} /\ careful' = careful /\ (careful => Woken = {})
    BY <1>0, <1>4, WokenByNewline DEF Newline, TypistMay
  <2> QED
    BY <2>1 DEF CarefulInv
<1>5. ASSUME UNCHANGED vars PROVE CarefulInv'
  <2>1. UNCHANGED <<live, pstate, ctx, active, mode, buffer, careful>>
    BY <1>5 DEF vars, schedVars, termVars
  <2> QED
    BY <1>0, <2>1 DEF CarefulInv, Woken
<1> QED
  BY <1>0, <1>1, <1>2, <1>3, <1>4, <1>5 DEF Next, PromiseInv

\* A function on 1..n is a sequence of length n.
LEMMA FunctionSeq ==
    ASSUME NEW S, NEW n \in Nat, NEW f \in [1..n -> S]
    PROVE  f \in Seq(S) /\ Len(f) = n
<1>1. f \in Seq(S)
  BY SeqDef
<1> QED
  BY <1>1, LenProperties

\* The waiting readers are a sequence of processes.
LEMMA ReadersSeq ==
    ASSUME Inv, careful
    PROVE  /\ Readers \in Seq(Procs)
           /\ Len(Readers) = tail - head
           /\ \A i \in 1..(tail - head) : Readers[i] = slot[head + i - 1]
<1>1. /\ slot \in [0..(QSlots - 1) -> Procs] /\ QSlots \in Nat
      /\ head \in 0..QSlots /\ tail \in 0..QSlots /\ head <= tail
  BY TermAssumption DEF Inv, TypeOK
<1>2. tail - head \in Nat /\ \A i \in 1..(tail - head) : slot[head + i - 1] \in Procs
  BY <1>1
<1>3. Readers \in [1..(tail - head) -> Procs]
  BY <1>2 DEF Readers
<1> QED
  BY <1>2, <1>3, FunctionSeq DEF Readers

\* To a typist who is not careful nothing is promised: the view never changes.
LEMMA CarelessView ==
    ASSUME [Next]_vars, ~ careful, careful \in BOOLEAN
    PROVE  Readers' = Readers /\ Edit' = Edit /\ Handed' = Handed /\ Got' = Got
<1>1. careful' = careful
  BY DEF Next, vars, termVars, Kernel, ResumeUser, FinishRead, Read, Key, Backspace, Escape, Newline
<1> QED
  BY <1>1 DEF Readers, Edit, Handed, Got

\* What each operation does to the view.
LEMMA ViewOfRead ==
    ASSUME Inv, careful, NEW n \in Counts, Read(n)
    PROVE  /\ \A i \in DOMAIN Readers : Readers[i] # active
           /\ Handed[active] = {}
           /\ Readers' = Append(Readers, active)
           /\ UNCHANGED <<Edit, Handed, Got>>
<1>0. /\ mode = "user" /\ active \in Procs /\ pstate[active] = "READY"
      /\ tail < QSlots /\ slot' = [slot EXCEPT ![tail] = active] /\ tail' = tail + 1
      /\ UNCHANGED <<buffer, head, got, careful>>
  BY DEF Inv, SchedInv, SchedTypeOK, RunningIsReady, Read, Block, Enqueue
<1>1. /\ slot \in [0..(QSlots - 1) -> Procs] /\ QSlots \in Nat
      /\ head \in 0..QSlots /\ tail \in 0..QSlots /\ head <= tail
  BY TermAssumption DEF Inv, TypeOK
<1>2. Woken' = Woken /\ active \notin Woken
  BY <1>0, WokenKept DEF Woken
<1>3. UNCHANGED <<Edit, Handed, Got>> /\ Handed[active] = {}
  BY <1>0, <1>2 DEF Edit, Handed, Got
<1>4. /\ Readers \in Seq(Procs) /\ Len(Readers) = tail - head
      /\ \A i \in 1..(tail - head) : Readers[i] = slot[head + i - 1]
  BY ReadersSeq
<1>5. DOMAIN Readers = 1..(tail - head)
  BY <1>4, LenProperties
<1>6. \A i \in DOMAIN Readers : Readers[i] # active
  <2>1. \A j \in head..(tail - 1) : slot[j] # active
    BY <1>0 DEF Inv, WaitersQueued
  <2>2. \A i \in 1..(tail - head) : head + i - 1 \in head..(tail - 1)
    BY <1>1
  <2> QED
    BY <1>4, <1>5, <2>1, <2>2
<1>7. Readers' = Append(Readers, active)
  <2> DEFINE R == [i \in 1..(tail + 1 - head) |-> slot'[head + i - 1]]
             A == Append(Readers, active)
  <2>1. Readers' = R
    <3>1. Readers' = [i \in 1..(tail' - head') |-> slot'[head' + i - 1]]
      BY <1>0 DEF Readers
    <3>2. tail' - head' = tail + 1 - head /\ head' = head
      BY <1>0, <1>1
    <3>3. 1..(tail' - head') = 1..(tail + 1 - head)
      BY <3>2
    <3>4. [i \in 1..(tail + 1 - head) |-> slot'[head' + i - 1]] = R
      BY <3>2
    <3> QED
      BY <3>1, <3>3, <3>4
  <2>2. /\ A \in Seq(Procs) /\ Len(A) = tail - head + 1
        /\ \A i \in 1..(tail - head) : A[i] = Readers[i]
        /\ A[tail - head + 1] = active
    BY <1>0, <1>4, AppendProperties
  <2>3. slot' \in [0..(QSlots - 1) -> Procs]
    BY <1>0, <1>1
  <2>4. tail + 1 - head \in Nat /\ \A i \in 1..(tail + 1 - head) : head + i - 1 \in 0..(QSlots - 1)
    BY <1>0, <1>1
  <2>5. R \in [1..(tail + 1 - head) -> Procs]
    BY <2>3, <2>4
  <2>6. R \in Seq(Procs) /\ Len(R) = tail + 1 - head
    <3> HIDE DEF R
    <3> QED
      BY <2>4, <2>5, FunctionSeq
  <2>7. ASSUME NEW i \in 1..(tail + 1 - head) PROVE R[i] = A[i]
    <3>1. CASE i = tail + 1 - head
      <4>1. R[i] = slot'[tail]
        BY <1>1, <3>1
      <4> QED
        BY <1>0, <1>1, <2>2, <3>1, <4>1
    <3>2. CASE i # tail + 1 - head
      <4>1. i \in 1..(tail - head) /\ head + i - 1 # tail /\ head + i - 1 \in 0..(QSlots - 1)
        BY <1>0, <1>1, <3>2
      <4> QED
        BY <1>0, <1>1, <1>4, <2>2, <4>1
    <3> QED
      BY <3>1, <3>2
  <2>8. Len(R) = Len(A)
    BY <1>1, <2>2, <2>6
  <2> HIDE DEF R, A
  <2>9. R = A
    BY <2>2, <2>6, <2>7, <2>8, SeqEqual
  <2> QED
    BY <2>1, <2>9 DEF A
<1> QED
  BY <1>3, <1>6, <1>7

LEMMA ViewOfNewline ==
    ASSUME PromiseInv, careful, Newline
    PROVE  /\ Readers # <<>>
           /\ Handed' = [Handed EXCEPT ![Head(Readers)] = {Append(Edit, Nul)}]
           /\ Readers' = Tail(Readers)
           /\ Edit' = <<>>
           /\ Got' = Got
<1>0. /\ head # tail /\ Woken = {} /\ buffer' = Put(Nul) /\ head' = head + 1
      /\ UNCHANGED <<slot, tail, got, careful>> /\ Inv /\ CarefulInv
  BY DEF Newline, TypistMay, Dequeue, PromiseInv
<1>1. /\ slot \in [0..(QSlots - 1) -> Procs] /\ QSlots \in Nat
      /\ head \in 0..QSlots /\ tail \in 0..QSlots /\ head < tail
  BY <1>0, TermAssumption DEF Inv, TypeOK
<1>2. buffer' = Append(buffer, Nul)
  <2>1. Len(buffer) + 1 < LenMod /\ Len(buffer) \in Nat /\ LenMod \in Nat
    BY <1>0, TermAssumption DEF CarefulInv, Inv, TypeOK, Lines
  <2> QED
    BY <1>0, <2>1 DEF Put
<1>3. Woken' = {slot[head]} /\ slot[head] \in Procs
  BY <1>0, <1>1, WokenByNewline
<1>4. /\ Readers \in Seq(Procs) /\ Len(Readers) = tail - head
      /\ \A i \in 1..(tail - head) : Readers[i] = slot[head + i - 1]
  BY <1>0, ReadersSeq
<1>5. Readers # <<>> /\ Head(Readers) = slot[head]
  <2>1. Len(Readers) > 0 /\ Readers[1] = slot[head]
    BY <1>1, <1>4
  <2> QED
    BY <1>4, <2>1
<1>6. Edit = buffer /\ Edit' = <<>> /\ Got' = Got
  BY <1>0, <1>3 DEF Edit, Got
<1>7. Handed' = [Handed EXCEPT ![slot[head]] = {Append(buffer, Nul)}]
  BY <1>0, <1>2, <1>3 DEF Handed
<1>8. Readers' = Tail(Readers)
  <2> DEFINE R == [i \in 1..(tail - (head + 1)) |-> slot[(head + 1) + i - 1]]
             T == Tail(Readers)
  <2>1. Readers' = R
    BY <1>0 DEF Readers
  <2>2. T \in Seq(Procs) /\ Len(T) = tail - head - 1 /\ \A i \in 1..(tail - head - 1) : T[i] = Readers[i + 1]
    BY <1>4, <1>5, HeadTailProperties
  <2>3. tail - (head + 1) \in Nat /\ \A i \in 1..(tail - (head + 1)) : (head + 1) + i - 1 \in 0..(QSlots - 1)
    BY <1>1
  <2>4. R \in [1..(tail - (head + 1)) -> Procs]
    BY <1>1, <2>3
  <2>5. R \in Seq(Procs) /\ Len(R) = tail - (head + 1)
    <3> HIDE DEF R
    <3> QED
      BY <2>3, <2>4, FunctionSeq
  <2>6. ASSUME NEW i \in 1..(tail - (head + 1)) PROVE R[i] = T[i]
    <3>1. i \in 1..(tail - head - 1) /\ i + 1 \in 1..(tail - head) /\ (head + 1) + i - 1 = head + (i + 1) - 1
      BY <1>1
    <3>2. R[i] = slot[head + (i + 1) - 1]
      BY <3>1
    <3> QED
      BY <1>4, <2>2, <3>1, <3>2
  <2>7. Len(R) = Len(T)
    BY <1>1, <2>2, <2>5
  <2> HIDE DEF R, T
  <2>8. R = T
    BY <2>2, <2>5, <2>6, <2>7, SeqEqual
  <2> QED
    BY <2>1, <2>8 DEF T
<1> QED
  BY <1>5, <1>6, <1>7, <1>8

\* Every step of the terminal is, in the view, a step of LineDiscipline or none.
LEMMA PromiseStep == PromiseInv /\ [Next]_vars => [Promise!LineNext]_(Promise!lineVars)
<1> SUFFICES ASSUME PromiseInv, [Next]_vars PROVE [Promise!LineNext]_(Promise!lineVars)
  OBVIOUS
<1>0. Inv /\ CarefulInv /\ careful \in BOOLEAN /\ active \in Procs /\ buffer \in Lines
      /\ Len(buffer) \in Nat /\ LenMod \in Nat
  BY TermAssumption DEF PromiseInv, Inv, TypeOK, SchedTypeOK, Lines
<1>s. ASSUME UNCHANGED <<Readers, Edit, Handed, Got>>
      PROVE  [Promise!LineNext]_(Promise!lineVars)
  BY <1>s DEF Promise!lineVars, Readers, Edit, Handed, Got
<1>c. CASE ~ careful
  BY <1>0, <1>c, <1>s, CarelessView
<1>1. ASSUME careful, UNCHANGED <<buffer, slot, head, tail, got, careful>>, Woken' = Woken
      PROVE  [Promise!LineNext]_(Promise!lineVars)
  BY <1>1, <1>s DEF Readers, Edit, Handed, Got
<1>2. CASE careful /\ ((Kernel /\ UNCHANGED termVars) \/ ResumeUser)
  <2>1. Woken' = Woken
    BY <1>0, <1>2, WokenKept
  <2> QED
    BY <1>1, <1>2, <2>1 DEF termVars, ResumeUser
<1>3. ASSUME careful, NEW n \in Counts, Read(n)
      PROVE  [Promise!LineNext]_(Promise!lineVars)
  <2>1. /\ \A i \in DOMAIN Readers : Readers[i] # active
        /\ Handed[active] = {}
        /\ Readers' = Append(Readers, active)
        /\ UNCHANGED <<Edit, Handed, Got>>
    BY <1>0, <1>3, ViewOfRead
  <2>2. PICK p \in Procs : p = active
    BY <1>0
  <2>3. Promise!Wait(p)
    BY <2>1, <2>2 DEF Promise!Wait, Readers, Edit, Handed, Got
  <2> QED
    BY <2>3 DEF Promise!LineNext
<1>4. CASE careful /\ FinishRead
  <2>1. active \in Woken /\ (mode' = "toolarge" => Woken' = Woken) /\ (mode' = "user" => Woken' = Woken \ {active})
    BY <1>0, <1>4, WokenFinishes
  <2>2. CASE TooLarge(active)
    BY <1>1, <1>4, <2>1, <2>2 DEF FinishRead
  <2>3. CASE ~ TooLarge(active)
    <3>1. /\ mode' = "user" /\ buffer' = <<>> /\ got' = [got EXCEPT ![active] = buffer]
          /\ UNCHANGED <<slot, head, tail, careful>>
      BY <1>4, <2>3 DEF FinishRead, AfterCopy
    <3>2. Woken = {active} /\ Woken' = {}
      BY <1>0, <1>4, <2>1, <3>1 DEF CarefulInv
    <3>3. /\ buffer \in Handed[active]
          /\ Got' = [Got EXCEPT ![active] = buffer]
          /\ Handed' = [Handed EXCEPT ![active] = {}]
          /\ UNCHANGED <<Readers, Edit>>
      BY <1>0, <1>4, <3>1, <3>2 DEF Readers, Edit, Handed, Got
    <3>4. PICK p \in Procs : p = active
      BY <1>0
    <3>5. Promise!Deliver(p)
      BY <3>3, <3>4 DEF Promise!Deliver, Readers, Edit, Handed, Got
    <3> QED
      BY <3>5 DEF Promise!LineNext
  <2> QED
    BY <2>2, <2>3
<1>5. ASSUME careful, Woken = {}, Woken' = {}, UNCHANGED <<slot, head, tail, got, careful>>
      PROVE  /\ Edit = buffer /\ Edit' = buffer'
             /\ UNCHANGED <<Readers, Handed, Got>>
  BY <1>5 DEF Readers, Edit, Handed, Got
<1>6. ASSUME careful, (\E c \in Chars : Key(c)) \/ Backspace \/ Escape
      PROVE  [Promise!LineNext]_(Promise!lineVars)
  <2>1. Woken = {} /\ Woken' = {} /\ UNCHANGED <<slot, head, tail, got, careful>>
    BY <1>6 DEF Key, Backspace, Escape, TypistMay, schedVars, Woken
  <2>2. Edit = buffer /\ Edit' = buffer' /\ UNCHANGED <<Readers, Handed, Got>>
    BY <1>5, <1>6, <2>1
  <2>3. ASSUME NEW c \in Chars, Key(c) PROVE Promise!Insert(c)
    <3>1. Edit' = Append(Edit, c)
      BY <1>0, <1>6, <2>2, <2>3 DEF Key, Put
    <3> QED
      BY <2>2, <3>1 DEF Promise!Insert, Readers, Edit, Handed, Got
  <2>4. ASSUME Backspace PROVE Promise!Erase
    <3>1. Edit # <<>> /\ Edit' = SubSeq(Edit, 1, Len(Edit) - 1)
      BY <2>2, <2>4 DEF Backspace
    <3> QED
      BY <2>2, <3>1 DEF Promise!Erase, Readers, Edit, Handed, Got
  <2>5. ASSUME Escape PROVE Promise!Clear
    <3>1. Edit' = <<>>
      BY <2>2, <2>5 DEF Escape
    <3> QED
      BY <2>2, <3>1 DEF Promise!Clear, Readers, Edit, Handed, Got
  <2> QED
    BY <1>6, <2>3, <2>4, <2>5 DEF Promise!LineNext
<1>7. CASE careful /\ Newline
  <2>1. /\ Readers # <<>>
        /\ Handed' = [Handed EXCEPT ![Head(Readers)] = {Append(Edit, Nul)}]
        /\ Readers' = Tail(Readers)
        /\ Edit' = <<>>
        /\ Got' = Got
    BY <1>7, ViewOfNewline
  <2>2. Promise!HandOver
    BY <2>1 DEF Promise!HandOver, Readers, Edit, Handed, Got
  <2> QED
    BY <2>2 DEF Promise!LineNext
<1>8. CASE careful /\ UNCHANGED vars
  <2>1. UNCHANGED <<buffer, slot, head, tail, got, careful, live, pstate, ctx, active, mode>>
    BY <1>8 DEF vars, schedVars, termVars
  <2>2. Woken' = Woken
    BY <2>1 DEF Woken
  <2> QED
    BY <1>1, <1>8, <2>1, <2>2
<1> QED
  BY <1>c, <1>2, <1>3, <1>4, <1>6, <1>7, <1>8 DEF Next

\* To a typist who waits for a line to be read before typing on, the terminal is
\* a line discipline: every read returns one whole line, as typed, edited and
\* closed by Enter, and the readers are served first come first served.
THEOREM KeepsPromiseTheorem == Spec => KeepsPromise
<1>1. Init => Promise!LineInit
  <2> SUFFICES ASSUME Init PROVE Promise!LineInit
    OBVIOUS
  <2>1. Woken = {}
    <3>1. \A p \in live : ctx[p] # "read"
      BY ProcsAssumption DEF Init, SchedInit
    <3> QED
      BY <3>1 DEF Woken
  <2>2. Readers = <<>>
    <3>1. tail - head = 0 /\ careful \in BOOLEAN
      BY DEF Init
    <3>2. 1..(tail - head) = {}
      BY <3>1
    <3>3. Inv
      BY InitInv
    <3>4. careful => Readers \in Seq(Procs) /\ Len(Readers) = 0
      BY <3>1, <3>3, ReadersSeq
    <3>5. careful => Readers = <<>>
      BY <3>4, EmptySeq
    <3>6. ~ careful => Readers = <<>>
      BY DEF Readers
    <3> QED
      BY <3>5, <3>6
  <2>3. Edit = <<>> /\ Handed = [p \in Procs |-> {}] /\ Got = [p \in Procs |-> <<>>]
    BY <2>1 DEF Init, Edit, Handed, Got
  <2> QED
    BY <2>2, <2>3 DEF Promise!LineInit, Readers, Edit, Handed, Got
<1>2. Spec => []PromiseInv
  BY PromiseInitInv, PromiseNextInv, PTL DEF Spec
<1> QED
  BY <1>1, <1>2, PromiseStep, PTL DEF Spec, KeepsPromise, Promise!LineSpec
=============================================================================
