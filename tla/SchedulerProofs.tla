-------------------------- MODULE SchedulerProofs --------------------------
(***************************************************************************)
(* Proofs about Scheduler for any number of processes: the list stays one  *)
(* ring, idle is always there to be switched to, and switch_kstack only    *)
(* ever loads the frame its process left last.                             *)
(***************************************************************************)
EXTENDS Scheduler, TLAPS

\* What the stack pointers designate. Idle leaves only from the timer, every
\* other process on the list has a frame, and idle's is missing only until
\* the first tick, when init is still READY behind it.
FramesInv ==
    /\ ctx[Idle] \in {"none", "timer"}
    /\ \A p \in live \ {Idle} : ctx[p] # "none"
    /\ ctx[Idle] = "none" =>
        active = Idle /\ next[Idle] = InitProc /\ pstate[InitProc] = "READY"

\* The inductive invariant.
SchedInv ==
    /\ SchedTypeOK
    /\ Ring
    /\ active \in live
    /\ RunningIsReady
    /\ FramesInv
    /\ LoadedFrameCurrent

----------------------------------------------------------------------------
\* The search loop stops at a process that is on the list and READY, and it
\* comes back to where it started only when it started at idle: the run it
\* skipped would be a closed part of the ring without idle in it.
LEMMA FirstReadyLemma ==
    ASSUME SchedTypeOK, Ring, NEW p \in live, NEW q \in live, NEW st \in [Procs -> {"READY", "WAITING"}],
           st[Idle] = "READY", FirstReady(p, q, st)
    PROVE  st[q] = "READY" /\ (q = p => p = Idle)
<1>1. st[q] = "READY"
  BY DEF FirstReady
<1>2. ASSUME q = p, p # Idle PROVE FALSE
  <2>1. PICK skipped \in SUBSET live :
          /\ {next[x] : x \in skipped \cup {p}} = skipped \cup {q}
          /\ \A x \in skipped : st[x] # "READY"
    BY DEF FirstReady
  <2> DEFINE S == skipped \cup {p}
  <2>2. S \in SUBSET live /\ S # {} /\ Idle \notin S
    BY <1>2, <2>1
  <2>3. \A x \in S : next[x] \in S
    BY <1>2, <2>1
  <2>4. S = live
    BY <2>2, <2>3 DEF Ring
  <2> QED
    BY <2>2, <2>4 DEF Ring
<1> QED
  BY <1>1, <1>2

\* From wherever it starts, the search loop stops: the processes it would not
\* stop from lead only to one another, so they would be the whole ring, and the
\* process in front of idle is not one of them.
LEMMA SearchStops ==
    ASSUME SchedTypeOK, Ring, NEW p \in live, NEW st \in [Procs -> {"READY", "WAITING"}],
           st[Idle] = "READY"
    PROVE  \E q \in live : FirstReady(p, q, st)
<1> DEFINE Stops(x) == \E q \in live : FirstReady(x, q, st)
           G == {x \in live : ~ Stops(x)}
<1>1. ASSUME NEW x \in live, st[next[x]] = "READY" PROVE Stops(x)
  <2>1. next[x] \in live
    BY DEF Ring
  <2>2. \E skipped \in SUBSET live :
          /\ {next[z] : z \in skipped \cup {x}} = skipped \cup {next[x]}
          /\ \A z \in skipped : st[z] # "READY"
    <3> WITNESS {} \in SUBSET live
    <3> QED
      OBVIOUS
  <2>3. FirstReady(x, next[x], st)
    BY <1>1, <2>2 DEF FirstReady
  <2> QED
    BY <2>1, <2>3
<1>2. ASSUME NEW x \in live, Stops(next[x]) PROVE Stops(x)
  <2>1. CASE st[next[x]] = "READY"
    BY <1>1, <2>1
  <2>2. CASE st[next[x]] # "READY"
    <3>1. PICK q \in live : FirstReady(next[x], q, st)
      BY <1>2
    <3>2. PICK skipped \in SUBSET live :
            /\ {next[z] : z \in skipped \cup {next[x]}} = skipped \cup {q}
            /\ \A z \in skipped : st[z] # "READY"
      BY <3>1 DEF FirstReady
    <3> DEFINE longer == skipped \cup {next[x]}
    <3>3. longer \in SUBSET live
      BY DEF Ring
    <3>4. {next[z] : z \in longer \cup {x}} = longer \cup {q}
      <4>1. {next[z] : z \in longer \cup {x}} = {next[z] : z \in longer} \cup {next[x]}
        OBVIOUS
      <4> QED
        BY <3>2, <4>1
    <3>5. \A z \in longer : st[z] # "READY"
      BY <2>2, <3>2
    <3>6. FirstReady(x, q, st)
      BY <3>1, <3>3, <3>4, <3>5 DEF FirstReady
    <3> QED
      BY <3>6
  <2> QED
    BY <2>1, <2>2
<1>3. PICK x \in live : next[x] = Idle
  <2>1. SUFFICES ASSUME \A x \in live : next[x] # Idle PROVE FALSE
    OBVIOUS
  <2> DEFINE S == live \ {Idle}
  <2>2. S # {} /\ \A x \in S : next[x] \in S
    BY <2>1 DEF Ring
  <2>3. S = live
    BY <2>2 DEF Ring
  <2> QED
    BY <2>3 DEF Ring
<1>4. x \notin G
  BY <1>1, <1>3
<1>5. \A z \in G : next[z] \in G
  BY <1>2 DEF Ring
<1>6. G = {}
  <2> HIDE DEF G
  <2>1. G \in SUBSET live
    BY DEF G
  <2> QED
    BY <1>3, <1>4, <1>5, <2>1 DEF Ring
<1> QED
  BY <1>6

\* Linking a process that is not on the list behind one that is keeps the list
\* one ring.
LEMMA LinkLemma ==
    ASSUME SchedTypeOK, Ring, NEW a \in live, NEW n \in Procs \ live
    PROVE  LET L == live \cup {n}
               N == [next EXCEPT ![n] = next[a], ![a] = n]
           IN  /\ \A p \in L : N[p] \in L
               /\ \A S \in SUBSET L : S # {} /\ (\A p \in S : N[p] \in S) => S = L
<1> DEFINE L == live \cup {n}
           N == [next EXCEPT ![n] = next[a], ![a] = n]
<1>0. live \subseteq Procs /\ next \in [Procs -> Procs] /\ a # n /\ next[a] \in live /\ next[a] # n
  BY DEF SchedTypeOK, Ring
<1>1. N[n] = next[a] /\ N[a] = n /\ \A p \in live \ {a} : N[p] = next[p]
  BY <1>0
<1>2. \A p \in L : N[p] \in L
  BY <1>0, <1>1 DEF Ring
<1>3. ASSUME NEW S \in SUBSET L, S # {}, \A p \in S : N[p] \in S
      PROVE  S = L
  <2> DEFINE T == S \ {n}
  <2>1. T \in SUBSET live
    BY <1>3
  <2>2. n \in S => next[a] \in T
    BY <1>0, <1>1, <1>3
  <2>3. T # {}
    BY <1>3, <2>2
  <2>4. \A p \in T : next[p] \in T
    <3>1. SUFFICES ASSUME NEW p \in T PROVE next[p] \in T
      OBVIOUS
    <3>2. CASE p = a
      <4>1. a \in S
        BY <3>2
      <4>2. N[a] \in S
        BY <1>3, <4>1
      <4>3. n \in S
        BY <1>1, <4>2, Zenon
      <4> QED
        BY <2>2, <3>2, <4>3, Zenon
    <3>3. CASE p # a
      <4>1. next[p] \in S
        BY <1>1, <1>3, <2>1, <3>3
      <4>2. next[p] \in live
        BY <2>1 DEF Ring
      <4> QED
        BY <4>1, <4>2
    <3> QED
      BY <3>2, <3>3
  <2>5. T = live
    BY <2>1, <2>3, <2>4 DEF Ring
  <2>6. n \in S
    BY <1>1, <1>3, <2>5
  <2> QED
    BY <1>3, <2>5, <2>6
<1> QED
  BY <1>2, <1>3

----------------------------------------------------------------------------
LEMMA SchedInitInv == SchedInit => SchedInv
<1> SUFFICES ASSUME SchedInit PROVE SchedInv
  OBVIOUS
<1> USE ProcsAssumption DEF SchedInit, BootRing
<1>1. SchedTypeOK
  BY DEF SchedTypeOK, Frames, Panics
<1>2. Ring
  <2>1. next[Idle] = InitProc /\ next[InitProc] = Idle
    OBVIOUS
  <2> QED
    BY <2>1 DEF Ring
<1>3. active \in live /\ RunningIsReady /\ FramesInv /\ LoadedFrameCurrent
  BY DEF RunningIsReady, FramesInv, LoadedFrameCurrent
<1> QED
  BY <1>1, <1>2, <1>3 DEF SchedInv

\* A switch, from the timer or from block(): kind is the frame saved, st the
\* states the loop looks at.
LEMMA SwitchLemma ==
    ASSUME SchedInv, mode = "user",
           NEW st \in [Procs -> {"READY", "WAITING"}], pstate' = st,
           NEW kind \in {"timer", "read"},
           \A p \in Procs : p # active => st[p] = pstate[p],
           st[Idle] = "READY",
           active = Idle => kind = "timer" /\ st = pstate,
           Switch(kind, st),
           UNCHANGED <<live, next, pid>>
    PROVE  SchedInv'
<1>0. SchedTypeOK /\ Ring /\ active \in live /\ FramesInv /\ live \subseteq Procs /\ Idle \in live
  BY DEF SchedInv, Ring, SchedTypeOK
<1>1. PICK q \in live : /\ FirstReady(active, q, st)
                        /\ active' = q
                        /\ frame' = ctx[q]
                        /\ ctx' = [ctx EXCEPT ![active] = kind]
                        /\ mode' = "switched"
  BY DEF Switch, SaveFrame
<1>2. st[q] = "READY" /\ (q = active => active = Idle)
  BY <1>0, <1>1, FirstReadyLemma
<1>3. SchedTypeOK'
  BY <1>0, <1>1 DEF SchedTypeOK, Frames
<1>4. Ring' /\ active' \in live' /\ RunningIsReady'
  BY <1>0, <1>1, <1>2 DEF Ring, RunningIsReady
<1>5. ctx[q] # "none"
  <2>1. CASE q # Idle
    BY <1>0, <2>1 DEF FramesInv
  <2>2. CASE q = Idle /\ active # Idle
    BY <1>0, <2>2 DEF FramesInv
  <2>3. CASE q = Idle /\ active = Idle
    <3>1. SUFFICES ASSUME ctx[Idle] = "none" PROVE FALSE
      BY <2>3
    <3>2. next[Idle] = InitProc /\ st[InitProc] = "READY"
      BY <1>0, <2>3, <3>1 DEF FramesInv
    <3>3. PICK skipped \in SUBSET live :
            /\ {next[x] : x \in skipped \cup {Idle}} = skipped \cup {Idle}
            /\ \A x \in skipped : st[x] # "READY"
      BY <1>1, <2>3 DEF FirstReady
    <3>4. InitProc \in skipped
      BY <3>2, <3>3, ProcsAssumption
    <3> QED
      BY <3>2, <3>3, <3>4
  <2> QED
    BY <2>1, <2>2, <2>3
<1>6. FramesInv'
  <2>1. ctx'[Idle] \in {"none", "timer"}
    BY <1>0, <1>1 DEF FramesInv, SchedTypeOK
  <2>2. \A p \in live' \ {Idle} : ctx'[p] # "none"
    BY <1>0, <1>1 DEF FramesInv, SchedTypeOK
  <2>3. ctx'[Idle] # "none"
    BY <1>0, <1>1 DEF FramesInv, SchedTypeOK
  <2> QED
    BY <2>1, <2>2, <2>3 DEF FramesInv
<1>7. LoadedFrameCurrent'
  <2>1. CASE q # active
    BY <1>0, <1>1, <1>5, <2>1 DEF LoadedFrameCurrent, SchedTypeOK
  <2>2. CASE q = active
    <3>1. active = Idle /\ kind = "timer" /\ ctx[Idle] = "timer"
      BY <1>0, <1>2, <1>5, <2>2 DEF FramesInv
    <3> QED
      BY <1>0, <1>1, <2>2, <3>1 DEF LoadedFrameCurrent, SchedTypeOK
  <2> QED
    BY <2>1, <2>2
<1> QED
  BY <1>3, <1>4, <1>6, <1>7 DEF SchedInv

LEMMA SchedNextInv == SchedInv /\ [SchedNext]_schedVars => SchedInv'
<1> SUFFICES ASSUME SchedInv, [SchedNext]_schedVars PROVE SchedInv'
  OBVIOUS
<1>0. SchedTypeOK /\ Ring /\ active \in live /\ RunningIsReady /\ FramesInv /\ LoadedFrameCurrent
  BY DEF SchedInv
<1>1. CASE TimerInterrupt
  <2>1. pstate \in [Procs -> {"READY", "WAITING"}] /\ pstate[Idle] = "READY"
    BY <1>0 DEF SchedTypeOK, RunningIsReady
  <2> QED
    BY <1>1, <2>1, SwitchLemma DEF TimerInterrupt
<1>2. CASE Block
  <2> DEFINE st == [pstate EXCEPT ![active] = "WAITING"]
  <2>1. st \in [Procs -> {"READY", "WAITING"}] /\ st[Idle] = "READY"
    BY <1>0, <1>2, ProcsAssumption DEF SchedTypeOK, RunningIsReady, Block
  <2>2. \A p \in Procs : p # active => st[p] = pstate[p]
    BY <1>0 DEF SchedTypeOK
  <2>3. mode = "user" /\ active # Idle /\ pstate' = st /\ Switch("read", st) /\ UNCHANGED <<live, next, pid>>
    BY <1>2 DEF Block
  <2> HIDE DEF st
  <2> QED
    BY <2>1, <2>2, <2>3, SwitchLemma
<1>3. ASSUME NEW p \in live, pstate[p] = "WAITING", Unblock(p) PROVE SchedInv'
  <2>1. SchedTypeOK' /\ Ring' /\ active' \in live'
    BY <1>0, <1>3 DEF Unblock, SchedTypeOK, Ring
  <2>2. RunningIsReady' /\ FramesInv' /\ LoadedFrameCurrent'
    BY <1>0, <1>3, ProcsAssumption DEF Unblock, RunningIsReady, FramesInv, LoadedFrameCurrent, SchedTypeOK
  <2> QED
    BY <2>1, <2>2 DEF SchedInv
<1>4. ASSUME NEW new \in Procs, Fork(new) PROVE SchedInv'
  <2>0. /\ new \in Procs \ live
        /\ live' = live \cup {new}
        /\ next' = [next EXCEPT ![new] = next[active], ![active] = new]
    BY <1>4 DEF Fork, LinkBehindActive
  <2>1. SchedTypeOK'
    BY <1>0, <1>4 DEF Fork, LinkBehindActive, FirstFrame, SchedTypeOK, Frames
  <2>2. Ring'
    <3>1. /\ \A p \in live' : next'[p] \in live'
          /\ \A S \in SUBSET live' : S # {} /\ (\A p \in S : next'[p] \in S) => S = live'
      <4> DEFINE L == live \cup {new}
                 N == [next EXCEPT ![new] = next[active], ![active] = new]
      <4>1. /\ \A p \in L : N[p] \in L
            /\ \A S \in SUBSET L : S # {} /\ (\A p \in S : N[p] \in S) => S = L
        BY <1>0, <2>0, LinkLemma
      <4>2. live' = L /\ next' = N
        BY <2>0
      <4> HIDE DEF L, N
      <4> QED
        BY <4>1, <4>2
    <3>2. Idle \in live'
      BY <1>0, <2>0 DEF Ring
    <3> QED
      BY <3>1, <3>2 DEF Ring
  <2>3. active' \in live' /\ RunningIsReady' /\ FramesInv' /\ LoadedFrameCurrent'
    BY <1>0, <1>4, <2>0 DEF Fork, FirstFrame, RunningIsReady, FramesInv, LoadedFrameCurrent, SchedTypeOK, Ring
  <2> QED
    BY <2>1, <2>2, <2>3 DEF SchedInv
<1>5. CASE ForkFails
  BY <1>0, <1>5 DEF ForkFails, SchedInv, SchedTypeOK, Panics, Ring, RunningIsReady, FramesInv, LoadedFrameCurrent
<1>6. CASE Resume
  BY <1>0, <1>6 DEF Resume, SchedInv, SchedTypeOK, Panics, Ring, RunningIsReady, FramesInv, LoadedFrameCurrent
<1>7. CASE ResumePanics
  BY <1>0, <1>7 DEF ResumePanics, SchedInv, SchedTypeOK, Panics, Ring, RunningIsReady, FramesInv, LoadedFrameCurrent
<1>8. CASE UNCHANGED schedVars
  BY <1>0, <1>8 DEF schedVars, SchedInv, SchedTypeOK, Ring, RunningIsReady, FramesInv, LoadedFrameCurrent
<1> QED
  BY <1>1, <1>2, <1>3, <1>4, <1>5, <1>6, <1>7, <1>8 DEF SchedNext, Halted

\* The invariant holds in every reachable state of the scheduler.
THEOREM SchedInvariance == SchedSpec => []SchedInv
BY SchedInitInv, SchedNextInv, PTL DEF SchedSpec

\* The process list is one ring through every live process, idle included, for
\* any sequence of forks, blocks, wake-ups and ticks.
THEOREM RingTheorem == SchedSpec => []Ring
<1>1. SchedInv => Ring
  BY DEF SchedInv
<1> QED
  BY <1>1, SchedInvariance, PTL

\* switch_kstack never loads a stack pointer that was not saved or built, and
\* always the one its process left last.
THEOREM LoadedFrameTheorem == SchedSpec => []LoadedFrameCurrent
<1>1. SchedInv => LoadedFrameCurrent
  BY DEF SchedInv
<1> QED
  BY <1>1, SchedInvariance, PTL

\* Idle is always READY, and so is whatever runs.
THEOREM RunningTheorem == SchedSpec => []RunningIsReady
<1>1. SchedInv => RunningIsReady
  BY DEF SchedInv
<1> QED
  BY <1>1, SchedInvariance, PTL

\* The do-while loop of scheduler() terminates whenever it can be entered, from
\* the timer and from block(), for any number of processes in any states.
THEOREM LoopTerminatesTheorem == SchedSpec => []LoopTerminates
<1>1. SchedInv => LoopTerminates
  <2> SUFFICES ASSUME SchedInv PROVE LoopTerminates
    OBVIOUS
  <2>1. SchedTypeOK /\ Ring /\ active \in live /\ pstate[Idle] = "READY"
        /\ pstate \in [Procs -> {"READY", "WAITING"}]
    BY DEF SchedInv, SchedTypeOK, RunningIsReady
  <2>2. \E q \in live : FirstReady(active, q, pstate)
    BY <2>1, SearchStops
  <2>3. ASSUME active # Idle
        PROVE  \E q \in live : FirstReady(active, q, [pstate EXCEPT ![active] = "WAITING"])
    <3> DEFINE st == [pstate EXCEPT ![active] = "WAITING"]
    <3>1. st \in [Procs -> {"READY", "WAITING"}] /\ st[Idle] = "READY"
      BY <2>1, <2>3, ProcsAssumption
    <3> HIDE DEF st
    <3>2. \E q \in live : FirstReady(active, q, st)
      BY <2>1, <3>1, SearchStops
    <3> QED
      BY <3>2 DEF st
  <2> QED
    BY <2>2, <2>3 DEF LoopTerminates
<1> QED
  BY <1>1, SchedInvariance, PTL

\* Only idle switches to itself.
THEOREM SelfSwitchTheorem == SchedSpec => SelfSwitchOnlyIdle
<1> DEFINE A == mode = "user" /\ mode' = "switched" /\ active' = active => active = Idle
<1>1. SchedInv /\ [SchedNext]_schedVars => [A]_schedVars
  <2>1. SUFFICES ASSUME SchedInv, SchedNext, mode = "user", mode' = "switched", active' = active
                 PROVE  active = Idle
    BY DEF schedVars
  <2>2. TimerInterrupt \/ Block
    BY <2>1 DEF SchedNext, Unblock, Fork, ForkFails, Resume, ResumePanics, Halted, schedVars
  <2>3. ASSUME NEW st \in [Procs -> {"READY", "WAITING"}], NEW kind, st[Idle] = "READY", Switch(kind, st)
        PROVE  active = Idle
    <3>1. PICK q \in live : FirstReady(active, q, st) /\ active' = q
      BY <2>3 DEF Switch
    <3> QED
      BY <2>1, <2>3, <3>1, FirstReadyLemma DEF SchedInv
  <2>4. CASE TimerInterrupt
    BY <2>1, <2>3, <2>4 DEF TimerInterrupt, SchedInv, SchedTypeOK, RunningIsReady
  <2>5. CASE Block
    <3>1. pstate' \in [Procs -> {"READY", "WAITING"}] /\ (active # Idle => pstate'[Idle] = "READY")
      BY <2>1, <2>5, ProcsAssumption DEF Block, SchedInv, SchedTypeOK, RunningIsReady
    <3> QED
      BY <2>3, <2>5, <3>1 DEF Block
  <2> QED
    BY <2>2, <2>4, <2>5
<1> QED
  BY <1>1, SchedInvariance, PTL DEF SchedSpec, SelfSwitchOnlyIdle
=============================================================================
