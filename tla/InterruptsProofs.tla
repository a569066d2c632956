-------------------------- MODULE InterruptsProofs --------------------------
(***************************************************************************)
(* Proofs about Interrupts for any number of processes and any depth of    *)
(* mmap()'s frame: whatever is saved on a kernel stack is restored, and    *)
(* int_depth is the number of handlers on the stack in use.                *)
(***************************************************************************)
EXTENDS Interrupts, SchedulerProofs, SequenceTheorems, FiniteSetTheorems

\* The words of a stack are labelled values.
Vectors == {"none", "timer", "syscall", "keyboard", "page fault"}
Labels == {"edi", "esi", "ebp", "esp", "ebx", "edx", "ecx", "eax", "eip", "cs", "eflags", "ss",
           "vector", "error", "call", "saved", "mmap"}
Values == Procs \cup Nat \cup Vectors
          \cup {"own", "child", "zero", "result", "entry", "set", "kernel", "user", "idle", "mmap"}
Word == Labels \X Values

\* The frame of a process suspended with registers r: generic_isr on top of
\* the stack of its running program.
Saved(v, p, r, n) == Enter(v, Base(p), Context(p, r), n)

Suspended(p) == \E v \in Vectors : kst[p] = Saved(v, p, prog[p], pid[p])

\* The stack of a process in mmap(), in the page fault, and when the fault has
\* taken two words of mmap()'s frame away.
Mmapped(p, r, n) == MmapFrame \o Saved("syscall", p, r, n)
Faulted(p, r, n) == Enter("page fault", Mmapped(p, r, n), InMmap(p), n)
Clipped(p, r, n) == SubSeq(Mmapped(p, r, n), 3, MmapWords + 15)

IsrTypeOK ==
    /\ prog \in [Procs -> Registers]
    /\ kst \in [Procs -> Seq(Word)]
    /\ where \in {"program", "fault", "mmap"}

\* Only idle has pid 0, by which generic_isr knows a frame from kernel mode.
PidInv == pid[Idle] = 0 /\ \A p \in live \ {Idle} : pid[p] # 0

\* What is on the stack in use, and int_depth.
StackInv ==
    /\ mode \in {"user", "nomem"} /\ where = "program" =>
        depth = 0 /\ kst[active] = Base(active) /\ cpu = Context(active, prog[active])
    /\ mode \in {"switched", "toolarge"} => depth = 1 /\ Suspended(active)
    /\ where = "fault" => depth = 2 /\ kst[active] = Faulted(active, prog[active], pid[active])
    /\ where = "mmap" =>
        depth = 1 /\ kst[active] = Clipped(active, prog[active], pid[active]) /\ cpu = InMmap(active)

\* The inductive invariant: RestoresContext and DepthExact need the frames of
\* the processes that are switched away from, and where the kernel may be.
Inv ==
    /\ SchedInv
    /\ IsrTypeOK
    /\ PidInv
    /\ where # "program" => mode = "user" /\ active # Idle
    /\ StackInv
    /\ \A p \in live \ {active} : Suspended(p)

----------------------------------------------------------------------------
(* Stacks as sequences. *)

LEMMA WordIs ==
    ASSUME NEW l \in Labels, NEW v \in Values
    PROVE  <<l, v>> \in Word
BY DEF Word

\* A part of a sequence is known by its length and its elements.
LEMMA SubSeqIs ==
    ASSUME NEW W, NEW f \in Seq(W), NEW x \in Seq(W), NEW m \in Nat \ {0}, NEW n \in Nat,
           n = m + Len(x) - 1, n <= Len(f), \A i \in 1..Len(x) : f[m + i - 1] = x[i]
    PROVE  SubSeq(f, m, n) = x
<1>0. Len(x) \in Nat /\ Len(f) \in Nat
  BY LenProperties
<1>1. \A i \in m..n : f[i] \in W
  <2>1. \A i \in m..n : i \in 1..Len(f)
    BY <1>0
  <2> QED
    BY <2>1, ElementOfSeq
<1>2. /\ SubSeq(f, m, n) \in Seq(W)
      /\ Len(SubSeq(f, m, n)) = IF m <= n THEN n - m + 1 ELSE 0
      /\ \A i \in 1..(n - m + 1) : SubSeq(f, m, n)[i] = f[m + i - 1]
  BY <1>1, SubSeqProperties
<1> DEFINE g == SubSeq(f, m, n)
<1> HIDE DEF g
<1>3. n - m + 1 = Len(x)
  BY <1>0
<1>4. Len(g) = Len(x)
  <2>1. CASE m <= n
    BY <1>2, <1>3, <2>1 DEF g
  <2>2. CASE ~ (m <= n)
    <3>1. Len(x) = 0
      BY <1>0, <2>2
    <3>2. Len(g) = 0
      BY <1>2, <2>2 DEF g
    <3> QED
      BY <3>1, <3>2
  <2> QED
    BY <2>1, <2>2
<1>5. \A i \in 1..Len(g) : g[i] = x[i]
  BY <1>2, <1>3, <1>4 DEF g
<1>6. g \in Seq(W)
  BY <1>2 DEF g
<1>7. g = x
  BY <1>4, <1>5, <1>6, SeqEqual
<1> QED
  BY <1>7 DEF g

\* What is where in a concatenation z of x and y.
IsConcat(z, x, y) ==
    /\ z \in Seq(Word)
    /\ Len(z) = Len(x) + Len(y)
    /\ \A i \in 1..Len(x) : z[i] = x[i]
    /\ \A i \in 1..Len(y) : z[Len(x) + i] = y[i]

LEMMA Concat ==
    ASSUME NEW x \in Seq(Word), NEW y \in Seq(Word)
    PROVE  IsConcat(x \o y, x, y)
<1>1. Len(x) \in Nat /\ Len(y) \in Nat
  BY LenProperties
<1>2. /\ x \o y \in Seq(Word)
      /\ Len(x \o y) = Len(x) + Len(y)
      /\ \A i \in 1..(Len(x) + Len(y)) : (x \o y)[i] = IF i <= Len(x) THEN x[i] ELSE y[i - Len(x)]
  BY ConcatProperties
<1> DEFINE z == x \o y
<1> HIDE DEF z
<1>3. \A i \in 1..Len(x) : z[i] = x[i]
  BY <1>1, <1>2 DEF z
<1>4. \A i \in 1..Len(y) : z[Len(x) + i] = y[i]
  BY <1>1, <1>2 DEF z
<1>5. z \in Seq(Word) /\ Len(z) = Len(x) + Len(y)
  BY <1>2 DEF z
<1>6. IsConcat(z, x, y)
  BY <1>3, <1>4, <1>5 DEF IsConcat
<1> QED
  BY <1>6 DEF z

\* The five parts of a frame f: registers, stub, return address, user stack
\* pointer, and the stack below.
FrameOf(f, a, b, c, d, s) ==
    /\ f \in Seq(Word)
    /\ Len(f) = 13 + Len(d) + Len(s)
    /\ \A i \in 1..8 : f[i] = a[i]
    /\ \A i \in 1..2 : f[8 + i] = b[i]
    /\ \A i \in 1..3 : f[10 + i] = c[i]
    /\ \A i \in 1..Len(d) : f[13 + i] = d[i]
    /\ \A i \in 1..Len(s) : f[13 + Len(d) + i] = s[i]

\* Pushed one after the other they are a frame.
LEMMA Parts ==
    ASSUME NEW a \in Seq(Word), NEW b \in Seq(Word), NEW c \in Seq(Word), NEW d \in Seq(Word), NEW s \in Seq(Word),
           Len(a) = 8, Len(b) = 2, Len(c) = 3
    PROVE  FrameOf(a \o b \o c \o d \o s, a, b, c, d, s)
<1>0. Len(d) \in Nat /\ Len(s) \in Nat
  BY LenProperties
<1> DEFINE f1 == a \o b
           f2 == f1 \o c
           f3 == f2 \o d
           f == f3 \o s
<1>1. IsConcat(f1, a, b)
  BY Concat
<1> HIDE DEF f1
<1>2. IsConcat(f2, f1, c)
  BY <1>1, Concat DEF IsConcat
<1> HIDE DEF f2
<1>3. IsConcat(f3, f2, d)
  BY <1>2, Concat DEF IsConcat
<1> HIDE DEF f3
<1>4. IsConcat(f, f3, s)
  BY <1>3, Concat DEF IsConcat
<1> HIDE DEF f
<1>5. Len(f1) = 10 /\ Len(f2) = 13 /\ Len(f3) = 13 + Len(d) /\ Len(f) = 13 + Len(d) + Len(s) /\ f \in Seq(Word)
  BY <1>1, <1>2, <1>3, <1>4 DEF IsConcat
<1>6. (\A i \in 1..8 : f1[i] = a[i]) /\ \A i \in 1..2 : f1[8 + i] = b[i]
  BY <1>1 DEF IsConcat
<1>7. (\A i \in 1..10 : f2[i] = f1[i]) /\ \A i \in 1..3 : f2[10 + i] = c[i]
  BY <1>2, <1>5 DEF IsConcat
<1>8. (\A i \in 1..13 : f3[i] = f2[i]) /\ \A i \in 1..Len(d) : f3[13 + i] = d[i]
  BY <1>3, <1>5 DEF IsConcat
<1>9. (\A i \in 1..(13 + Len(d)) : f[i] = f3[i]) /\ \A i \in 1..Len(s) : f[13 + Len(d) + i] = s[i]
  BY <1>4, <1>5 DEF IsConcat
<1>10. ASSUME NEW i \in 1..13 PROVE f[i] = f2[i]
  <2>1. i \in 1..(13 + Len(d))
    BY <1>0
  <2> QED
    BY <1>8, <1>9, <2>1
<1>11. /\ \A i \in 1..8 : f[i] = a[i]
       /\ \A i \in 1..2 : f[8 + i] = b[i]
       /\ \A i \in 1..3 : f[10 + i] = c[i]
  <2>1. ASSUME NEW i \in 1..8 PROVE f[i] = a[i]
    <3>1. i \in 1..13 /\ i \in 1..10
      OBVIOUS
    <3> QED
      BY <1>6, <1>7, <1>10, <3>1
  <2>2. ASSUME NEW i \in 1..2 PROVE f[8 + i] = b[i]
    <3>1. 8 + i \in 1..13 /\ 8 + i \in 1..10
      OBVIOUS
    <3> QED
      BY <1>6, <1>7, <1>10, <3>1
  <2>3. ASSUME NEW i \in 1..3 PROVE f[10 + i] = c[i]
    <3>1. 10 + i \in 1..13
      OBVIOUS
    <3> QED
      BY <1>7, <1>10, <3>1
  <2> QED
    BY <2>1, <2>2, <2>3
<1>12. ASSUME NEW i \in 1..Len(d) PROVE f[13 + i] = d[i]
  <2>1. 13 + i \in 1..(13 + Len(d))
    BY <1>0
  <2> QED
    BY <1>8, <1>9, <2>1
<1>13. FrameOf(f, a, b, c, d, s)
  BY <1>5, <1>9, <1>11, <1>12 DEF FrameOf
<1> QED
  BY <1>13 DEF f, f3, f2, f1

\* A frame has only one sequence of parts, and is made of them.
LEMMA SameParts ==
    ASSUME NEW a, NEW b, NEW c, NEW d \in Seq(Word), NEW s \in Seq(Word),
           NEW f, FrameOf(f, a, b, c, d, s), NEW g, FrameOf(g, a, b, c, d, s)
    PROVE  f = g
<1>0. Len(d) \in Nat /\ Len(s) \in Nat
  BY LenProperties
<1>1. f \in Seq(Word) /\ g \in Seq(Word) /\ Len(f) = Len(g) /\ Len(f) = 13 + Len(d) + Len(s)
  BY DEF FrameOf
<1>2. ASSUME NEW i \in 1..Len(f) PROVE f[i] = g[i]
  <2>0. i \in 1..(13 + Len(d) + Len(s))
    BY <1>1
  <2>1. CASE i \in 1..8
    BY <2>1 DEF FrameOf
  <2>2. CASE i \in 9..10
    <3>1. i - 8 \in 1..2 /\ i = 8 + (i - 8)
      BY <2>2
    <3> QED
      BY <3>1 DEF FrameOf
  <2>3. CASE i \in 11..13
    <3>1. i - 10 \in 1..3 /\ i = 10 + (i - 10)
      BY <2>3
    <3> QED
      BY <3>1 DEF FrameOf
  <2>4. CASE i \in 14..(13 + Len(d))
    <3>1. i - 13 \in 1..Len(d) /\ i = 13 + (i - 13)
      BY <1>0, <2>4
    <3>2. f[13 + (i - 13)] = d[i - 13] /\ g[13 + (i - 13)] = d[i - 13]
      BY <3>1 DEF FrameOf
    <3> QED
      BY <3>1, <3>2
  <2>5. CASE i \in (14 + Len(d))..(13 + Len(d) + Len(s))
    <3>1. i - 13 - Len(d) \in 1..Len(s) /\ i = 13 + Len(d) + (i - 13 - Len(d))
      BY <1>0, <2>5
    <3> DEFINE j == i - 13 - Len(d)
    <3>2. f[13 + Len(d) + j] = s[j] /\ g[13 + Len(d) + j] = s[j]
      BY <3>1 DEF FrameOf
    <3> QED
      BY <3>1, <3>2
  <2> QED
    BY <1>0, <2>0, <2>1, <2>2, <2>3, <2>4, <2>5
<1> QED
  BY <1>1, <1>2, SeqEqual

\* The parts are what the words at their places are.
SplitInto(f, a, b, c, d, s) ==
    /\ SubSeq(f, 1, 8) = a
    /\ SubSeq(f, 11, 13) = c
    /\ f[12] = c[2]
    /\ SubSeq(f, 14, 13 + Len(d)) = d
    /\ SubSeq(f, 14 + Len(d), Len(f)) = s

LEMMA Unparts ==
    ASSUME NEW a \in Seq(Word), NEW b \in Seq(Word), NEW c \in Seq(Word), NEW d \in Seq(Word), NEW s \in Seq(Word),
           Len(a) = 8, Len(b) = 2, Len(c) = 3,
           NEW f, FrameOf(f, a, b, c, d, s)
    PROVE  SplitInto(f, a, b, c, d, s)
<1>0. Len(d) \in Nat /\ Len(s) \in Nat
  BY LenProperties
<1>1. /\ f \in Seq(Word) /\ Len(f) = 13 + Len(d) + Len(s)
      /\ \A i \in 1..8 : f[i] = a[i]
      /\ \A i \in 1..3 : f[10 + i] = c[i]
      /\ \A i \in 1..Len(d) : f[13 + i] = d[i]
      /\ \A i \in 1..Len(s) : f[13 + Len(d) + i] = s[i]
  BY DEF FrameOf
<1>2. SubSeq(f, 1, 8) = a
  <2>1. ASSUME NEW i \in 1..Len(a) PROVE f[1 + i - 1] = a[i]
    <3>1. i \in 1..8 /\ 1 + i - 1 = i
      OBVIOUS
    <3> QED
      BY <1>1, <3>1
  <2>2. 8 = 1 + Len(a) - 1 /\ 8 <= Len(f) /\ 8 \in Nat /\ 1 \in Nat \ {0}
    BY <1>0, <1>1
  <2> QED
    BY <1>1, <2>1, <2>2, SubSeqIs, SMTT(30)
<1>3. SubSeq(f, 11, 13) = c
  <2>1. ASSUME NEW i \in 1..Len(c) PROVE f[11 + i - 1] = c[i]
    <3>1. i \in 1..3 /\ 11 + i - 1 = 10 + i
      OBVIOUS
    <3> QED
      BY <1>1, <3>1
  <2>2. 13 = 11 + Len(c) - 1 /\ 13 <= Len(f) /\ 13 \in Nat /\ 11 \in Nat \ {0}
    BY <1>0, <1>1
  <2> QED
    BY <1>1, <2>1, <2>2, SubSeqIs
<1>4. SubSeq(f, 14, 13 + Len(d)) = d
  <2>1. ASSUME NEW i \in 1..Len(d) PROVE f[14 + i - 1] = d[i]
    <3>1. 14 + i - 1 = 13 + i
      BY <1>0
    <3> QED
      BY <1>1, <3>1
  <2>2. 13 + Len(d) = 14 + Len(d) - 1 /\ 13 + Len(d) <= Len(f) /\ 13 + Len(d) \in Nat /\ 14 \in Nat \ {0}
    BY <1>0, <1>1
  <2> QED
    BY <1>1, <2>1, <2>2, SubSeqIs
<1>5. SubSeq(f, 14 + Len(d), Len(f)) = s
  <2>1. ASSUME NEW i \in 1..Len(s) PROVE f[14 + Len(d) + i - 1] = s[i]
    <3>1. 14 + Len(d) + i - 1 = 13 + Len(d) + i
      BY <1>0
    <3> QED
      BY <1>1, <3>1
  <2>2. Len(f) = 14 + Len(d) + Len(s) - 1 /\ Len(f) \in Nat /\ 14 + Len(d) \in Nat \ {0} /\ Len(f) <= Len(f)
    BY <1>0, <1>1
  <2> QED
    BY <1>1, <2>1, <2>2, SubSeqIs
<1>6. f[12] = c[2]
  BY <1>1
<1> QED
  BY <1>2, <1>3, <1>4, <1>5, <1>6 DEF SplitInto

\* A function on 1..n is a sequence of length n.
LEMMA FunctionSeq ==
    ASSUME NEW S, NEW n \in Nat, NEW f \in [1..n -> S]
    PROVE  f \in Seq(S) /\ Len(f) = n
<1>1. f \in Seq(S)
  BY SeqDef
<1> QED
  BY <1>1, LenProperties

\* A part x of a stack, by its length and its elements.
IsSlice(x, f, m, n) ==
    /\ x \in Seq(Word)
    /\ Len(x) = n - m + 1
    /\ \A i \in 1..(n - m + 1) : x[i] = f[m + i - 1]

LEMMA Slice ==
    ASSUME NEW f \in Seq(Word), NEW m \in Nat \ {0}, NEW n \in Nat, m <= n + 1, n <= Len(f)
    PROVE  IsSlice(SubSeq(f, m, n), f, m, n)
<1>0. Len(f) \in Nat
  BY LenProperties
<1>1. \A i \in m..n : f[i] \in Word
  <2>1. \A i \in m..n : i \in 1..Len(f)
    BY <1>0
  <2> QED
    BY <2>1, ElementOfSeq
<1>2. /\ SubSeq(f, m, n) \in Seq(Word)
      /\ Len(SubSeq(f, m, n)) = IF m <= n THEN n - m + 1 ELSE 0
      /\ \A i \in 1..(n - m + 1) : SubSeq(f, m, n)[i] = f[m + i - 1]
  BY <1>1, SubSeqProperties
<1>3. (IF m <= n THEN n - m + 1 ELSE 0) = n - m + 1
  OBVIOUS
<1> QED
  BY <1>2, <1>3 DEF IsSlice

----------------------------------------------------------------------------
(* Frames. *)

\* What pad and depad make of a stack f, and that depad undoes pad.
IsPadded(g, f) ==
    /\ g \in Seq(Word)
    /\ Len(g) = Len(f) + 2
    /\ \A i \in 1..13 : g[i] = f[i]
    /\ \A i \in 12..Len(f) : g[i + 2] = f[i]

IsDepadded(g, f) ==
    /\ g \in Seq(Word)
    /\ Len(g) = Len(f) - 2
    /\ \A i \in 1..13 : g[i] = f[i]
    /\ \A i \in 14..(Len(f) - 2) : g[i] = f[i + 2]

LEMMA PadLemma ==
    ASSUME NEW f \in Seq(Word), 13 <= Len(f)
    PROVE  IsPadded(Pad(f), f)
<1> DEFINE z == [i \in 1..8 |-> <<"saved", i>>]
           t == z \o f
           x == SubSeq(t, 9, 21)
           y == SubSeq(t, 20, Len(t))
           g == x \o y
<1>0. Len(f) \in Nat
  BY LenProperties
<1>1. z \in Seq(Word) /\ Len(z) = 8
  <2>1. ASSUME NEW i \in 1..8 PROVE <<"saved", i>> \in Word
    <3>1. i \in Values
      BY DEF Values
    <3> QED
      BY <3>1, WordIs DEF Labels
  <2>2. z \in [1..8 -> Word]
    BY <2>1
  <2> HIDE DEF z
  <2> QED
    BY <2>2, FunctionSeq
<1> HIDE DEF z
<1>2. IsConcat(t, z, f)
  BY <1>1, Concat
<1> HIDE DEF t
<1>3. t \in Seq(Word) /\ Len(t) = 8 + Len(f) /\ \A i \in 1..Len(f) : t[8 + i] = f[i]
  BY <1>1, <1>2 DEF IsConcat
<1>4. IsSlice(x, t, 9, 21)
  BY <1>0, <1>3, Slice
<1>5. IsSlice(y, t, 20, Len(t))
  BY <1>0, <1>3, Slice
<1> HIDE DEF x, y
<1>6. IsConcat(g, x, y)
  BY <1>4, <1>5, Concat DEF IsSlice
<1> HIDE DEF g
<1>7. g \in Seq(Word) /\ Len(x) = 13 /\ Len(y) = Len(f) - 11 /\ Len(g) = Len(f) + 2
  BY <1>0, <1>3, <1>4, <1>5, <1>6 DEF IsConcat, IsSlice
<1>8. ASSUME NEW i \in 1..13 PROVE g[i] = f[i]
  <2>1. g[i] = x[i]
    BY <1>6, <1>7 DEF IsConcat
  <2>2. x[i] = t[8 + i]
    <3>1. i \in 1..(21 - 9 + 1) /\ 9 + i - 1 = 8 + i
      OBVIOUS
    <3>2. x[i] = t[9 + i - 1]
      BY <1>4, <3>1 DEF IsSlice
    <3> QED
      BY <3>1, <3>2
  <2>3. i \in 1..Len(f)
    BY <1>0
  <2> QED
    BY <1>3, <2>1, <2>2, <2>3
<1>9. ASSUME NEW i \in 12..Len(f) PROVE g[i + 2] = f[i]
  <2> DEFINE j == i - 11
  <2>1. j \in 1..Len(y) /\ 13 + j = i + 2 /\ j \in 1..(Len(t) - 20 + 1) /\ 20 + j - 1 = 8 + i /\ i \in 1..Len(f)
    BY <1>0, <1>3, <1>7
  <2>2. g[13 + j] = y[j]
    BY <1>6, <1>7, <2>1 DEF IsConcat
  <2>3. y[j] = t[20 + j - 1]
    BY <1>5, <2>1 DEF IsSlice
  <2>4. t[8 + i] = f[i]
    BY <1>3, <2>1
  <2> QED
    BY <2>1, <2>2, <2>3, <2>4
<1>10. Pad(f) = g
  BY DEF Pad, g, x, y, t, z
<1> QED
  BY <1>7, <1>8, <1>9, <1>10 DEF IsPadded

LEMMA DepadLemma ==
    ASSUME NEW f \in Seq(Word), 15 <= Len(f)
    PROVE  IsDepadded(Depad(f), f)
<1> DEFINE x == SubSeq(f, 1, 13)
           y == SubSeq(f, 16, Len(f))
           g == x \o y
<1>0. Len(f) \in Nat
  BY LenProperties
<1>1. IsSlice(x, f, 1, 13)
  BY <1>0, Slice
<1>2. IsSlice(y, f, 16, Len(f))
  BY <1>0, Slice
<1> HIDE DEF x, y
<1>3. IsConcat(g, x, y)
  BY <1>1, <1>2, Concat DEF IsSlice
<1> HIDE DEF g
<1>4. g \in Seq(Word) /\ Len(x) = 13 /\ Len(y) = Len(f) - 15 /\ Len(g) = Len(f) - 2
  BY <1>0, <1>1, <1>2, <1>3 DEF IsConcat, IsSlice
<1>5. ASSUME NEW i \in 1..13 PROVE g[i] = f[i]
  <2>1. g[i] = x[i]
    BY <1>3, <1>4 DEF IsConcat
  <2>2. i \in 1..(13 - 1 + 1) /\ 1 + i - 1 = i
    OBVIOUS
  <2>3. x[i] = f[1 + i - 1]
    BY <1>1, <2>2 DEF IsSlice
  <2> QED
    BY <2>1, <2>2, <2>3
<1>6. ASSUME NEW i \in 14..(Len(f) - 2) PROVE g[i] = f[i + 2]
  <2> DEFINE j == i - 13
  <2>1. j \in 1..Len(y) /\ 13 + j = i /\ j \in 1..(Len(f) - 16 + 1) /\ 16 + j - 1 = i + 2
    BY <1>0, <1>4
  <2>2. g[13 + j] = y[j]
    BY <1>3, <1>4, <2>1 DEF IsConcat
  <2>3. y[j] = f[16 + j - 1]
    BY <1>2, <2>1 DEF IsSlice
  <2> QED
    BY <2>1, <2>2, <2>3
<1>7. Depad(f) = g
  BY DEF Depad, g, x, y
<1> QED
  BY <1>4, <1>5, <1>6, <1>7 DEF IsDepadded

LEMMA DepadPad ==
    ASSUME NEW f \in Seq(Word), 13 <= Len(f)
    PROVE  Depad(Pad(f)) = f
<1> DEFINE g == Pad(f)
           h == Depad(g)
<1>0. Len(f) \in Nat
  BY LenProperties
<1>1. IsPadded(g, f)
  BY PadLemma
<1> HIDE DEF g
<1>2. g \in Seq(Word) /\ Len(g) = Len(f) + 2
  BY <1>1 DEF IsPadded
<1>3. IsDepadded(h, g)
  BY <1>0, <1>2, DepadLemma
<1> HIDE DEF h
<1>4. h \in Seq(Word) /\ Len(h) = Len(f)
  BY <1>0, <1>2, <1>3 DEF IsDepadded
<1>5. ASSUME NEW i \in 1..Len(f) PROVE h[i] = f[i]
  <2>1. CASE i \in 1..13
    BY <1>1, <1>3, <2>1 DEF IsPadded, IsDepadded
  <2>2. CASE i \in 14..Len(f)
    <3>1. i \in 14..(Len(g) - 2) /\ i \in 12..Len(f)
      BY <1>0, <1>2, <2>2
    <3>2. h[i] = g[i + 2] /\ g[i + 2] = f[i]
      BY <1>1, <1>3, <3>1 DEF IsPadded, IsDepadded
    <3> QED
      BY <3>2
  <2> QED
    BY <1>0, <2>1, <2>2
<1>6. h = f
  BY <1>4, <1>5, SeqEqual
<1> QED
  BY <1>6 DEF h, g

\* The parts of a frame are of the lengths the handlers count on, and only the
\* first word of the stub is a vector.
LEMMA FrameParts ==
    ASSUME NEW p \in Procs, NEW r \in Registers, NEW v \in Vectors
    PROVE  /\ Regs(r) \in Seq(Word) /\ Len(Regs(r)) = 8
           /\ Stub(v) \in Seq(Word) /\ Len(Stub(v)) = 2
           /\ Return(p, r) \in Seq(Word) /\ Len(Return(p, r)) = 3 /\ Return(p, r)[2] = <<"cs", Level(p)>>
           /\ UserStack(p, r) \in Seq(Word) /\ Len(UserStack(p, r)) = IF p = Idle THEN 0 ELSE 2
           /\ Base(p) \in Seq(Word) /\ Len(Base(p)) = IF p = Idle THEN 1 ELSE 0
<1>1. r.id \in Values /\ r.eax \in Values
  BY DEF Registers, Values
<1>2. Regs(r) \in Seq(Word) /\ Len(Regs(r)) = 8
  <2>1. /\ <<"edi", r.id>> \in Word /\ <<"esi", r.id>> \in Word /\ <<"ebp", r.id>> \in Word
        /\ <<"esp", r.id>> \in Word /\ <<"ebx", r.id>> \in Word /\ <<"edx", r.id>> \in Word
        /\ <<"ecx", r.id>> \in Word /\ <<"eax", r.eax>> \in Word
    BY <1>1, WordIs DEF Labels
  <2> QED
    BY <2>1 DEF Regs
<1>3. Stub(v) \in Seq(Word) /\ Len(Stub(v)) = 2
  <2>1. <<"vector", v>> \in Word /\ <<"error", 0>> \in Word
    BY WordIs DEF Labels, Values
  <2> QED
    BY <2>1 DEF Stub
<1> DEFINE e == IF r.at = "entry" THEN "entry" ELSE r.id
           z == IF r.flags = "set" THEN "set" ELSE r.id
<1>4. e \in Values /\ z \in Values
  BY <1>1 DEF Values
<1>5. Level(p) \in Values
  BY DEF Level, Values
<1>6. Return(p, r) \in Seq(Word) /\ Len(Return(p, r)) = 3 /\ Return(p, r)[2] = <<"cs", Level(p)>>
  <2> HIDE DEF e, z
  <2>1. <<"eip", e>> \in Word /\ <<"cs", Level(p)>> \in Word /\ <<"eflags", z>> \in Word
    BY <1>4, <1>5, WordIs DEF Labels
  <2>2. Return(p, r) = <<<<"eip", e>>, <<"cs", Level(p)>>, <<"eflags", z>>>>
    BY DEF Return, e, z
  <2> QED
    BY <2>1, <2>2
<1>7. UserStack(p, r) \in Seq(Word) /\ Len(UserStack(p, r)) = IF p = Idle THEN 0 ELSE 2
  <2> HIDE DEF e
  <2>1. <<"esp", e>> \in Word /\ <<"ss", "user">> \in Word
    BY <1>4, WordIs DEF Labels, Values
  <2>2. UserStack(p, r) = IF p = Idle THEN <<>> ELSE <<<<"esp", e>>, <<"ss", "user">>>>
    BY DEF UserStack, e
  <2> QED
    BY <2>1, <2>2
<1>8. Base(p) \in Seq(Word) /\ Len(Base(p)) = IF p = Idle THEN 1 ELSE 0
  <2>1. <<"call", "idle">> \in Word
    BY WordIs DEF Labels, Values
  <2> QED
    BY <2>1 DEF Base
<1> QED
  BY <1>2, <1>3, <1>6, <1>7, <1>8

\* The way out, from stack f with int_depth i in a process with pid n: the
\* registers r, return address c, user stack pointer d and segment l are
\* restored and stack s is left.
Restores(f, i, n, r, c, d, l, s) ==
    /\ Leave(f, i, n).cpu = [regs |-> r, ret |-> c, ustack |-> d, ds |-> l]
    /\ Leave(f, i, n).kst = s

\* From firstret to iret on a frame from user mode.
LEMMA LeaveUser ==
    ASSUME NEW a \in Seq(Word), NEW b \in Seq(Word), NEW c \in Seq(Word), NEW d \in Seq(Word), NEW s \in Seq(Word),
           Len(a) = 8, Len(b) = 2, Len(c) = 3, Len(d) = 2, c[2] = <<"cs", "user">>,
           NEW f, FrameOf(f, a, b, c, d, s), NEW i, NEW n, ~ Depads(i, n)
    PROVE  Restores(f, i, n, a, c, d, "user", s)
<1>1. SplitInto(f, a, b, c, d, s)
  BY Unparts
<1>2. /\ SubSeq(f, 1, 8) = a
      /\ SubSeq(f, 11, 13) = c
      /\ f[12] = <<"cs", "user">>
      /\ SubSeq(f, 14, 15) = d
      /\ SubSeq(f, 16, Len(f)) = s
  BY <1>1 DEF SplitInto
<1>3. Leave(f, i, n) = [cpu |-> [regs |-> SubSeq(f, 1, 8), ret |-> SubSeq(f, 11, 13),
                                 ustack |-> SubSeq(f, 14, 15), ds |-> "user"],
                        kst |-> SubSeq(f, 16, Len(f))]
  BY <1>2, Zenon DEF Leave
<1>4. Leave(f, i, n) = [cpu |-> [regs |-> a, ret |-> c, ustack |-> d, ds |-> "user"], kst |-> s]
  BY <1>2, <1>3, Zenon
<1> QED
  BY <1>4 DEF Restores

\* The same on a frame from kernel mode, whose padding is removed.
LEMMA LeaveKernel ==
    ASSUME NEW a \in Seq(Word), NEW b \in Seq(Word), NEW c \in Seq(Word), NEW s \in Seq(Word),
           Len(a) = 8, Len(b) = 2, Len(c) = 3, c[2] = <<"cs", "kernel">>,
           NEW f, FrameOf(Depad(f), a, b, c, <<>>, s), NEW i, NEW n, Depads(i, n)
    PROVE  Restores(f, i, n, a, c, <<>>, "kernel", s)
<1> DEFINE d == <<>>
           g == Depad(f)
<1>0. d \in Seq(Word) /\ Len(d) = 0
  OBVIOUS
<1>1. FrameOf(g, a, b, c, d, s)
  OBVIOUS
<1> HIDE DEF d, g
<1>2. SplitInto(g, a, b, c, d, s)
  BY <1>0, <1>1, Unparts
<1>3. /\ SubSeq(g, 1, 8) = a
      /\ SubSeq(g, 11, 13) = c
      /\ g[12] = <<"cs", "kernel">>
      /\ SubSeq(g, 14, Len(g)) = s
  BY <1>0, <1>2 DEF SplitInto
<1>4. g[12] # <<"cs", "user">>
  BY <1>3
<1>5. Leave(f, i, n) = [cpu |-> [regs |-> SubSeq(g, 1, 8), ret |-> SubSeq(g, 11, 13), ustack |-> <<>>, ds |-> "kernel"],
                        kst |-> SubSeq(g, 14, Len(g))]
  BY <1>4, Zenon DEF Leave, g
<1>6. Leave(f, i, n) = [cpu |-> [regs |-> a, ret |-> c, ustack |-> <<>>, ds |-> "kernel"], kst |-> s]
  BY <1>3, <1>5, Zenon
<1> QED
  BY <1>6 DEF Restores

\* What generic_isr leaves on the stack of a user process.
LEMMA SavedUser ==
    ASSUME NEW p \in Procs \ {Idle}, NEW r \in Registers, NEW v \in Vectors, NEW n, n # 0
    PROVE  /\ FrameOf(Saved(v, p, r, n), Regs(r), Stub(v), Return(p, r), UserStack(p, r), <<>>)
           /\ Saved(v, p, r, n) \in Seq(Word)
           /\ Len(Saved(v, p, r, n)) = 15
<1>1. Saved(v, p, r, n) = Regs(r) \o Stub(v) \o Return(p, r) \o UserStack(p, r) \o <<>>
  BY DEF Saved, Enter, Context, Base
<1>2. /\ Regs(r) \in Seq(Word) /\ Len(Regs(r)) = 8
      /\ Stub(v) \in Seq(Word) /\ Len(Stub(v)) = 2
      /\ Return(p, r) \in Seq(Word) /\ Len(Return(p, r)) = 3
      /\ UserStack(p, r) \in Seq(Word) /\ Len(UserStack(p, r)) = 2
  BY FrameParts
<1> DEFINE e == <<>>
           f == Saved(v, p, r, n)
<1>3. e \in Seq(Word) /\ Len(e) = 0
  OBVIOUS
<1> HIDE DEF e
<1>4. FrameOf(f, Regs(r), Stub(v), Return(p, r), UserStack(p, r), e)
  BY <1>1, <1>2, <1>3, Parts DEF e
<1> HIDE DEF f
<1>5. f \in Seq(Word) /\ Len(f) = 15
  BY <1>2, <1>3, <1>4 DEF FrameOf
<1> QED
  BY <1>4, <1>5 DEF e, f

\* What it leaves on idle's is padded.
LEMMA SavedIdle ==
    ASSUME NEW r \in Registers, NEW v \in Vectors
    PROVE  \E f \in Seq(Word) :
              /\ Saved(v, Idle, r, 0) = Pad(f)
              /\ Len(f) = 14
              /\ FrameOf(f, Regs(r), Stub(v), Return(Idle, r), <<>>, Base(Idle))
<1> DEFINE e == <<>>
           b == Base(Idle)
           f == Regs(r) \o Stub(v) \o Return(Idle, r) \o e \o b
<1>1. Saved(v, Idle, r, 0) = Pad(f)
  BY DEF Saved, Enter, Context, UserStack
<1>2. /\ Regs(r) \in Seq(Word) /\ Len(Regs(r)) = 8
      /\ Stub(v) \in Seq(Word) /\ Len(Stub(v)) = 2
      /\ Return(Idle, r) \in Seq(Word) /\ Len(Return(Idle, r)) = 3
      /\ b \in Seq(Word) /\ Len(b) = 1
  BY FrameParts, ProcsAssumption
<1>3. e \in Seq(Word) /\ Len(e) = 0
  OBVIOUS
<1> HIDE DEF e, b
<1>4. FrameOf(f, Regs(r), Stub(v), Return(Idle, r), e, b)
  BY <1>2, <1>3, Parts
<1> HIDE DEF f
<1>5. f \in Seq(Word) /\ Len(f) = 14
  BY <1>2, <1>3, <1>4 DEF FrameOf
<1> QED
  BY <1>1, <1>4, <1>5 DEF e, b

\* What generic_isr saves, the way out restores.
LEMMA LeaveSaved ==
    ASSUME NEW p \in Procs, NEW r \in Registers, NEW v \in Vectors, NEW n, n = 0 <=> p = Idle
    PROVE  /\ Leave(Saved(v, p, r, n), 1, n).cpu = Context(p, r)
           /\ Leave(Saved(v, p, r, n), 1, n).kst = Base(p)
<1>1. /\ Regs(r) \in Seq(Word) /\ Len(Regs(r)) = 8
      /\ Stub(v) \in Seq(Word) /\ Len(Stub(v)) = 2
      /\ Return(p, r) \in Seq(Word) /\ Len(Return(p, r)) = 3 /\ Return(p, r)[2] = <<"cs", Level(p)>>
      /\ UserStack(p, r) \in Seq(Word) /\ Len(UserStack(p, r)) = IF p = Idle THEN 0 ELSE 2
      /\ Base(p) \in Seq(Word)
  BY FrameParts
<1>2. CASE p # Idle
  <2> DEFINE e == <<>>
             f == Saved(v, p, r, n)
  <2>1. FrameOf(f, Regs(r), Stub(v), Return(p, r), UserStack(p, r), e)
    BY <1>2, SavedUser
  <2>2. ~ Depads(1, n) /\ e \in Seq(Word) /\ Base(p) = e /\ Level(p) = "user"
    BY <1>2 DEF Depads, Base, Level
  <2> HIDE DEF e, f
  <2>3. Return(p, r)[2] = <<"cs", "user">> /\ Len(UserStack(p, r)) = 2
    BY <1>1, <1>2, <2>2
  <2>4. Restores(f, 1, n, Regs(r), Return(p, r), UserStack(p, r), "user", e)
    BY <1>1, <2>1, <2>2, <2>3, LeaveUser
  <2> QED
    BY <2>2, <2>4, Zenon DEF Context, f, Restores
<1>3. CASE p = Idle
  <2>1. PICK f \in Seq(Word) :
              /\ Saved(v, p, r, n) = Pad(f)
              /\ Len(f) = 14
              /\ FrameOf(f, Regs(r), Stub(v), Return(p, r), <<>>, Base(p))
    BY <1>3, SavedIdle
  <2>2. Depad(Pad(f)) = f
    <3>1. 13 <= Len(f)
      BY <2>1
    <3> QED
      BY <3>1, DepadPad
  <2>3. Depads(1, n) /\ UserStack(p, r) = <<>> /\ Level(p) = "kernel"
    BY <1>3 DEF Depads, UserStack, Level
  <2> DEFINE g == Pad(f)
  <2>4. FrameOf(Depad(g), Regs(r), Stub(v), Return(p, r), <<>>, Base(p))
    BY <2>1, <2>2
  <2> HIDE DEF g
  <2>5. Return(p, r)[2] = <<"cs", "kernel">>
    BY <1>1, <2>3
  <2>6. Restores(g, 1, n, Regs(r), Return(p, r), <<>>, "kernel", Base(p))
    BY <1>1, <2>3, <2>4, <2>5, LeaveKernel
  <2> QED
    BY <2>1, <2>3, <2>6, Zenon DEF Context, g, Restores
<1> QED
  BY <1>2, <1>3

\* One word of a frame of 15 written.
IsWritten(g, f, i, w) ==
    /\ g \in Seq(Word)
    /\ Len(g) = 15
    /\ \A j \in 1..15 : g[j] = IF j = i THEN w ELSE f[j]

LEMMA Written ==
    ASSUME NEW f \in Seq(Word), Len(f) = 15, NEW i \in 1..15, NEW w \in Word
    PROVE  IsWritten([f EXCEPT ![i] = w], f, i, w)
<1> DEFINE g == [f EXCEPT ![i] = w]
<1>1. f \in [1..15 -> Word]
  BY LenProperties
<1>2. \A j \in 1..15 : g[j] = IF j = i THEN w ELSE f[j]
  BY <1>1
<1>3. g \in [1..15 -> Word] /\ 15 \in Nat
  BY <1>1
<1> HIDE DEF g
<1>4. g \in Seq(Word) /\ Len(g) = 15
  BY <1>3, FunctionSeq
<1>5. IsWritten(g, f, i, w)
  BY <1>2, <1>4 DEF IsWritten
<1> QED
  BY <1>5 DEF g

\* Writing the eax of a saved frame is saving another eax.
LEMMA SavedEax ==
    ASSUME NEW p \in Procs \ {Idle}, NEW r \in Registers, NEW v \in Vectors, NEW n, n # 0,
           NEW x \in {"child", "zero", "result"}
    PROVE  SetEax(Saved(v, p, r, n), x) = Saved(v, p, [r EXCEPT !.eax = x], n)
<1> DEFINE q == [r EXCEPT !.eax = x]
           f == Saved(v, p, r, n)
           w == <<"eax", x>>
           g == [f EXCEPT ![8] = w]
           h == Saved(v, p, q, n)
           e == <<>>
<1>0. /\ q \in Registers /\ q.id = r.id /\ q.at = r.at /\ q.eax = x /\ q.flags = r.flags
      /\ Return(p, q) = Return(p, r) /\ UserStack(p, q) = UserStack(p, r)
  BY DEF Registers, Return, UserStack
<1>1. FrameOf(f, Regs(r), Stub(v), Return(p, r), UserStack(p, r), e) /\ f \in Seq(Word) /\ Len(f) = 15
  BY SavedUser
<1>2. FrameOf(h, Regs(q), Stub(v), Return(p, r), UserStack(p, r), e)
  <2> HIDE DEF q, e
  <2>1. FrameOf(h, Regs(q), Stub(v), Return(p, q), UserStack(p, q), e)
    BY <1>0, SavedUser DEF e
  <2> QED
    BY <1>0, <2>1
<1>3. w \in Word
  BY WordIs DEF Labels, Values
<1>4. e \in Seq(Word) /\ Len(e) = 0 /\ UserStack(p, r) \in Seq(Word) /\ Len(UserStack(p, r)) = 2
  BY FrameParts
<1>5. \A i \in 1..8 : Regs(q)[i] = IF i = 8 THEN w ELSE Regs(r)[i]
  BY <1>0 DEF Regs
<1> HIDE DEF f, e, h, q, w
<1>a. IsWritten(g, f, 8, w)
  <2>1. 8 \in 1..15
    OBVIOUS
  <2> QED
    BY <1>1, <1>3, <2>1, Written
<1> HIDE DEF g
<1>6. g \in Seq(Word) /\ Len(g) = 15 /\ \A j \in 1..15 : g[j] = IF j = 8 THEN w ELSE f[j]
  BY <1>a DEF IsWritten
<1>7. FrameOf(g, Regs(q), Stub(v), Return(p, r), UserStack(p, r), e)
  <2>1. ASSUME NEW i \in 1..8 PROVE g[i] = Regs(q)[i]
    BY <1>1, <1>5, <1>6 DEF FrameOf
  <2>2. ASSUME NEW i \in 1..2 PROVE g[8 + i] = Stub(v)[i]
    BY <1>1, <1>6 DEF FrameOf
  <2>3. ASSUME NEW i \in 1..3 PROVE g[10 + i] = Return(p, r)[i]
    BY <1>1, <1>6 DEF FrameOf
  <2>4. ASSUME NEW i \in 1..Len(UserStack(p, r)) PROVE g[13 + i] = UserStack(p, r)[i]
    BY <1>1, <1>4, <1>6 DEF FrameOf
  <2> QED
    BY <1>4, <1>6, <2>1, <2>2, <2>3, <2>4 DEF FrameOf
<1>8. g = h
  BY <1>2, <1>4, <1>7, SameParts
<1> QED
  BY <1>8 DEF SetEax, g, f, w, h, q

\* Writing its flags is saving the flags a process starts with.
LEMMA SavedFlags ==
    ASSUME NEW p \in Procs \ {Idle}, NEW r \in Registers, NEW v \in Vectors, NEW n, n # 0
    PROVE  SetFlags(Saved(v, p, r, n)) = Saved(v, p, [r EXCEPT !.flags = "set"], n)
<1> DEFINE q == [r EXCEPT !.flags = "set"]
           f == Saved(v, p, r, n)
           w == <<"eflags", "set">>
           g == [f EXCEPT ![13] = w]
           h == Saved(v, p, q, n)
           e == <<>>
<1>0. /\ q \in Registers /\ q.id = r.id /\ q.at = r.at /\ q.eax = r.eax /\ q.flags = "set"
      /\ Regs(q) = Regs(r) /\ UserStack(p, q) = UserStack(p, r)
  BY DEF Registers, Regs, UserStack
<1>1. FrameOf(f, Regs(r), Stub(v), Return(p, r), UserStack(p, r), e) /\ f \in Seq(Word) /\ Len(f) = 15
  BY SavedUser
<1>2. FrameOf(h, Regs(r), Stub(v), Return(p, q), UserStack(p, r), e)
  <2> HIDE DEF q, e
  <2>1. FrameOf(h, Regs(q), Stub(v), Return(p, q), UserStack(p, q), e)
    BY <1>0, SavedUser DEF e
  <2> QED
    BY <1>0, <2>1
<1>3. w \in Word
  BY WordIs DEF Labels, Values
<1>4. e \in Seq(Word) /\ Len(e) = 0 /\ UserStack(p, r) \in Seq(Word) /\ Len(UserStack(p, r)) = 2
  BY FrameParts
<1>5. \A i \in 1..3 : Return(p, q)[i] = IF i = 3 THEN w ELSE Return(p, r)[i]
  BY <1>0 DEF Return
<1> HIDE DEF f, e, h, q, w
<1>a. IsWritten(g, f, 13, w)
  <2>1. 13 \in 1..15
    OBVIOUS
  <2> QED
    BY <1>1, <1>3, <2>1, Written
<1> HIDE DEF g
<1>6. g \in Seq(Word) /\ Len(g) = 15 /\ \A j \in 1..15 : g[j] = IF j = 13 THEN w ELSE f[j]
  BY <1>a DEF IsWritten
<1>7. FrameOf(g, Regs(r), Stub(v), Return(p, q), UserStack(p, r), e)
  <2>1. ASSUME NEW i \in 1..8 PROVE g[i] = Regs(r)[i]
    BY <1>1, <1>6 DEF FrameOf
  <2>2. ASSUME NEW i \in 1..2 PROVE g[8 + i] = Stub(v)[i]
    BY <1>1, <1>6 DEF FrameOf
  <2>3. ASSUME NEW i \in 1..3 PROVE g[10 + i] = Return(p, q)[i]
    BY <1>1, <1>5, <1>6 DEF FrameOf
  <2>4. ASSUME NEW i \in 1..Len(UserStack(p, r)) PROVE g[13 + i] = UserStack(p, r)[i]
    BY <1>1, <1>4, <1>6 DEF FrameOf
  <2> QED
    BY <1>4, <1>6, <2>1, <2>2, <2>3, <2>4 DEF FrameOf
<1>8. g = h
  BY <1>2, <1>4, <1>7, SameParts
<1> QED
  BY <1>8 DEF SetFlags, g, f, w, h, q

\* Writing its return address and stack pointer is saving a program at its
\* first instruction.
LEMMA SavedEntry ==
    ASSUME NEW p \in Procs \ {Idle}, NEW r \in Registers, NEW v \in Vectors, NEW n, n # 0
    PROVE  [Saved(v, p, r, n) EXCEPT ![11] = <<"eip", "entry">>, ![14] = <<"esp", "entry">>]
             = Saved(v, p, [r EXCEPT !.at = "entry"], n)
<1> DEFINE q == [r EXCEPT !.at = "entry"]
           f == Saved(v, p, r, n)
           w == <<"eip", "entry">>
           z == <<"esp", "entry">>
           k == [f EXCEPT ![11] = w]
           g == [k EXCEPT ![14] = z]
           h == Saved(v, p, q, n)
           e == <<>>
<1>0. /\ q \in Registers /\ q.id = r.id /\ q.at = "entry" /\ q.eax = r.eax /\ q.flags = r.flags
      /\ Regs(q) = Regs(r)
  BY DEF Registers, Regs
<1>1. FrameOf(f, Regs(r), Stub(v), Return(p, r), UserStack(p, r), e) /\ f \in Seq(Word) /\ Len(f) = 15
  BY SavedUser
<1>2. FrameOf(h, Regs(r), Stub(v), Return(p, q), UserStack(p, q), e)
  <2> HIDE DEF q, e
  <2>1. FrameOf(h, Regs(q), Stub(v), Return(p, q), UserStack(p, q), e)
    BY <1>0, SavedUser DEF e
  <2> QED
    BY <1>0, <2>1
<1>3. w \in Word /\ z \in Word
  BY WordIs DEF Labels, Values
<1>4. /\ e \in Seq(Word) /\ Len(e) = 0 /\ Len(UserStack(p, r)) = 2
      /\ UserStack(p, q) \in Seq(Word) /\ Len(UserStack(p, q)) = 2
  <2> HIDE DEF q
  <2> QED
    BY <1>0, FrameParts
<1>5. /\ \A i \in 1..3 : Return(p, q)[i] = IF i = 1 THEN w ELSE Return(p, r)[i]
      /\ \A i \in 1..2 : UserStack(p, q)[i] = IF i = 1 THEN z ELSE UserStack(p, r)[i]
  BY <1>0 DEF Return, UserStack
<1> HIDE DEF f, e, h, q, w, z
<1>a. 11 \in 1..15 /\ 14 \in 1..15
  OBVIOUS
<1>b. IsWritten(k, f, 11, w)
  BY <1>1, <1>3, <1>a, Written
<1> HIDE DEF k
<1>6. k \in Seq(Word) /\ Len(k) = 15 /\ \A j \in 1..15 : k[j] = IF j = 11 THEN w ELSE f[j]
  BY <1>b DEF IsWritten
<1>c. IsWritten(g, k, 14, z)
  BY <1>3, <1>6, <1>a, Written
<1> HIDE DEF g
<1>7. g \in Seq(Word) /\ Len(g) = 15 /\ \A j \in 1..15 : g[j] = IF j = 14 THEN z ELSE k[j]
  BY <1>c DEF IsWritten
<1>8. \A j \in 1..15 : g[j] = IF j = 14 THEN z ELSE IF j = 11 THEN w ELSE f[j]
  BY <1>6, <1>7
<1>9. FrameOf(g, Regs(r), Stub(v), Return(p, q), UserStack(p, q), e)
  <2>1. ASSUME NEW i \in 1..8 PROVE g[i] = Regs(r)[i]
    BY <1>1, <1>8 DEF FrameOf
  <2>2. ASSUME NEW i \in 1..2 PROVE g[8 + i] = Stub(v)[i]
    BY <1>1, <1>8 DEF FrameOf
  <2>3. ASSUME NEW i \in 1..3 PROVE g[10 + i] = Return(p, q)[i]
    BY <1>1, <1>5, <1>8 DEF FrameOf
  <2>4. ASSUME NEW i \in 1..Len(UserStack(p, q)) PROVE g[13 + i] = UserStack(p, q)[i]
    BY <1>1, <1>4, <1>5, <1>8 DEF FrameOf
  <2> QED
    BY <1>4, <1>7, <2>1, <2>2, <2>3, <2>4 DEF FrameOf
<1>10. g = h
  BY <1>2, <1>4, <1>9, SameParts
<1>11. g = [f EXCEPT ![11] = w, ![14] = z]
  BY DEF g, k
<1> QED
  BY <1>10, <1>11 DEF f, w, z, h, q

\* A child is saved like its parent: both are user processes.
LEMMA SavedChild ==
    ASSUME NEW p \in Procs \ {Idle}, NEW c \in Procs \ {Idle}, NEW r, NEW v, NEW n, n # 0, NEW m, m # 0
    PROVE  Saved(v, p, r, n) = Saved(v, c, r, m)
BY DEF Saved, Enter, Context, Base, UserStack, Return, Level

\* All of a stack.
LEMMA WholeStack ==
    ASSUME NEW f \in Seq(Word), Len(f) = 15
    PROVE  SubSeq(f, 1, 15) = f
<1>1. \A i \in 1..Len(f) : f[1 + i - 1] = f[i]
  OBVIOUS
<1>2. 15 = 1 + Len(f) - 1 /\ 15 <= Len(f) /\ 15 \in Nat /\ 1 \in Nat \ {0}
  OBVIOUS
<1> QED
  BY <1>1, <1>2, SubSeqIs

----------------------------------------------------------------------------
(* The handlers on a stack, by the vectors isr<vector> pushed. *)

NoVector(x) == \A i \in 1..Len(x) : x[i][1] # "vector"

StubVector(b) == b[1][1] = "vector" /\ b[2][1] # "vector"

\* The first n words of f hold the vector of one handler; the words behind
\* them are those of s.
OneVector(f, n) == \A i \in 1..n : f[i][1] = "vector" <=> i = 9
BelowVectors(f, n, s) == \A i \in 1..Len(s) : f[n + i][1] = "vector" <=> s[i][1] = "vector"

VectorsAt(f, I) == \A i \in 1..Len(f) : f[i][1] = "vector" <=> i \in I

\* A frame has one vector, and those of the stack below.
LEMMA FrameVectors ==
    ASSUME NEW a, NEW b, NEW c, NEW d \in Seq(Word), NEW s \in Seq(Word),
           Len(a) = 8, Len(c) = 3, NoVector(a), NoVector(c), NoVector(d),
           StubVector(b),
           NEW f, FrameOf(f, a, b, c, d, s)
    PROVE  OneVector(f, 13 + Len(d)) /\ BelowVectors(f, 13 + Len(d), s)
<1>0. Len(d) \in Nat /\ Len(s) \in Nat
  BY LenProperties
<1>1. ASSUME NEW i \in 1..(13 + Len(d)) PROVE f[i][1] = "vector" <=> i = 9
  <2>1. CASE i \in 1..8
    <3>1. f[i] = a[i] /\ a[i][1] # "vector"
      BY <2>1 DEF FrameOf, NoVector
    <3> QED
      BY <2>1, <3>1
  <2>2. CASE i = 9 \/ i = 10
    <3>1. f[8 + 1] = b[1] /\ f[8 + 2] = b[2]
      BY DEF FrameOf
    <3>2. f[9] = b[1] /\ f[10] = b[2]
      BY <3>1
    <3> QED
      BY <2>2, <3>2 DEF StubVector
  <2>3. CASE i \in 11..13
    <3>1. i - 10 \in 1..3 /\ i = 10 + (i - 10)
      BY <2>3
    <3>2. f[10 + (i - 10)] = c[i - 10] /\ c[i - 10][1] # "vector"
      BY <3>1 DEF FrameOf, NoVector
    <3> QED
      BY <2>3, <3>1, <3>2
  <2>4. CASE i \in 14..(13 + Len(d))
    <3>1. i - 13 \in 1..Len(d) /\ i = 13 + (i - 13)
      BY <1>0, <2>4
    <3>2. f[13 + (i - 13)] = d[i - 13] /\ d[i - 13][1] # "vector"
      BY <3>1 DEF FrameOf, NoVector
    <3> QED
      BY <1>0, <2>4, <3>1, <3>2
  <2> QED
    BY <1>0, <2>1, <2>2, <2>3, <2>4
<1>2. ASSUME NEW i \in 1..Len(s) PROVE f[13 + Len(d) + i][1] = "vector" <=> s[i][1] = "vector"
  BY DEF FrameOf
<1> QED
  BY <1>1, <1>2 DEF OneVector, BelowVectors

\* Only the stub holds a vector.
LEMMA PartVectors ==
    ASSUME NEW p \in Procs, NEW r \in Registers, NEW v \in Vectors
    PROVE  /\ NoVector(Regs(r)) /\ NoVector(Return(p, r)) /\ NoVector(UserStack(p, r)) /\ NoVector(Base(p))
           /\ StubVector(Stub(v))
<1>1. NoVector(Regs(r))
  BY DEF NoVector, Regs
<1>2. NoVector(Return(p, r))
  BY DEF NoVector, Return
<1>3. NoVector(UserStack(p, r))
  BY DEF NoVector, UserStack
<1>4. NoVector(Base(p))
  BY DEF NoVector, Base
<1>5. StubVector(Stub(v))
  BY DEF Stub, StubVector
<1> QED
  BY <1>1, <1>2, <1>3, <1>4, <1>5

\* One handler is on the stack of a suspended process.
LEMMA SavedVectors ==
    ASSUME NEW p \in Procs, NEW r \in Registers, NEW v \in Vectors, NEW n, n = 0 <=> p = Idle
    PROVE  /\ Saved(v, p, r, n) \in Seq(Word)
           /\ 9 <= Len(Saved(v, p, r, n))
           /\ VectorsAt(Saved(v, p, r, n), {9})
<1> DEFINE g == Saved(v, p, r, n)
<1>1. /\ Regs(r) \in Seq(Word) /\ Len(Regs(r)) = 8
      /\ Return(p, r) \in Seq(Word) /\ Len(Return(p, r)) = 3
      /\ UserStack(p, r) \in Seq(Word) /\ Len(UserStack(p, r)) = IF p = Idle THEN 0 ELSE 2
      /\ Base(p) \in Seq(Word) /\ Len(Base(p)) = IF p = Idle THEN 1 ELSE 0
  BY FrameParts
<1>2. /\ NoVector(Regs(r)) /\ NoVector(Return(p, r)) /\ NoVector(UserStack(p, r)) /\ NoVector(Base(p))
      /\ StubVector(Stub(v))
  BY PartVectors
<1>3. CASE p # Idle
  <2> DEFINE e == <<>>
  <2>1. e \in Seq(Word) /\ Len(e) = 0
    OBVIOUS
  <2>2. g \in Seq(Word) /\ Len(g) = 15 /\ FrameOf(g, Regs(r), Stub(v), Return(p, r), UserStack(p, r), e)
    BY <1>3, SavedUser
  <2> HIDE DEF e, g
  <2>3. Len(UserStack(p, r)) = 2
    BY <1>1, <1>3
  <2>4. OneVector(g, 13 + Len(UserStack(p, r)))
    BY <1>1, <1>2, <2>1, <2>2, FrameVectors
  <2>5. VectorsAt(g, {9})
    BY <2>2, <2>3, <2>4 DEF VectorsAt, OneVector
  <2> QED
    BY <2>2, <2>5 DEF g
<1>4. CASE p = Idle
  <2> DEFINE e == <<>>
  <2>0. e \in Seq(Word) /\ Len(e) = 0 /\ NoVector(e)
    BY DEF NoVector
  <2>1. PICK f \in Seq(Word) :
              /\ Saved(v, p, r, n) = Pad(f)
              /\ Len(f) = 14
              /\ FrameOf(f, Regs(r), Stub(v), Return(p, r), e, Base(p))
    BY <1>4, SavedIdle
  <2> HIDE DEF e
  <2>2. IsPadded(g, f)
    <3>1. 13 <= Len(f)
      BY <2>1
    <3>2. IsPadded(Pad(f), f)
      BY <3>1, PadLemma
    <3> QED
      BY <2>1, <3>2
  <2> HIDE DEF g
  <2>3. Len(Base(p)) = 1
    BY <1>1, <1>4
  <2>4. \A i \in 1..13 : f[i][1] = "vector" <=> i = 9
    <3>1. OneVector(f, 13 + Len(e))
      BY <1>1, <1>2, <2>0, <2>1, FrameVectors
    <3> QED
      BY <2>0, <3>1 DEF OneVector
  <2>5. f[14][1] # "vector"
    <3>1. f[13 + Len(e) + 1] = Base(p)[1]
      BY <2>1, <2>3 DEF FrameOf
    <3>2. Base(p)[1][1] # "vector"
      BY <1>2, <2>3 DEF NoVector
    <3> QED
      BY <2>0, <3>1, <3>2
  <2>6. g \in Seq(Word) /\ Len(g) = 16 /\ (\A i \in 1..13 : g[i] = f[i])
        /\ g[14] = f[12] /\ g[15] = f[13] /\ g[16] = f[14]
    <3>1. \A i \in 12..14 : g[i + 2] = f[i]
      BY <2>1, <2>2 DEF IsPadded
    <3>2. g[12 + 2] = f[12] /\ g[13 + 2] = f[13] /\ g[14 + 2] = f[14]
      BY <3>1
    <3> QED
      BY <2>1, <2>2, <3>2 DEF IsPadded
  <2>7. ASSUME NEW i \in 1..16 PROVE g[i][1] = "vector" <=> i = 9
    <3>1. CASE i \in 1..13
      BY <2>4, <2>6, <3>1
    <3>2. CASE i \in 14..16
      BY <2>4, <2>5, <2>6, <3>2, SMTT(30)
    <3> QED
      BY <3>1, <3>2
  <2>8. VectorsAt(g, {9})
    BY <2>6, <2>7 DEF VectorsAt
  <2> QED
    BY <2>6, <2>8 DEF g
<1> QED
  BY <1>3, <1>4

----------------------------------------------------------------------------
(* The fault in mmap(). *)

LEMMA MmapStack ==
    ASSUME NEW p \in Procs \ {Idle}, NEW r \in Registers, NEW n, n # 0
    PROVE  /\ Mmapped(p, r, n) \in Seq(Word)
           /\ Len(Mmapped(p, r, n)) = MmapWords + 15
           /\ \A i \in 1..15 : Mmapped(p, r, n)[MmapWords + i] = Saved("syscall", p, r, n)[i]
           /\ VectorsAt(Mmapped(p, r, n), {MmapWords + 9})
<1> DEFINE x == MmapFrame
           y == Saved("syscall", p, r, n)
           t == x \o y
<1>0. MmapWords \in Nat /\ "syscall" \in Vectors
  BY MmapWordsAssumption DEF Vectors
<1>1. ASSUME NEW i \in 1..MmapWords PROVE <<"mmap", i>> \in Word
  <2>1. i \in Values
    BY <1>0 DEF Values
  <2> QED
    BY <2>1, WordIs DEF Labels
<1>2. x \in [1..MmapWords -> Word] /\ \A i \in 1..MmapWords : x[i][1] # "vector"
  BY <1>1 DEF MmapFrame
<1>3. y \in Seq(Word) /\ Len(y) = 15
  BY <1>0, SavedUser
<1>4. VectorsAt(y, {9})
  BY <1>0, SavedVectors
<1> HIDE DEF x, y
<1>5. x \in Seq(Word) /\ Len(x) = MmapWords
  BY <1>0, <1>2, FunctionSeq
<1>6. IsConcat(t, x, y)
  BY <1>3, <1>5, Concat
<1> HIDE DEF t
<1>7. /\ t \in Seq(Word) /\ Len(t) = MmapWords + 15
      /\ \A i \in 1..MmapWords : t[i] = x[i]
      /\ \A i \in 1..15 : t[MmapWords + i] = y[i]
  BY <1>3, <1>5, <1>6 DEF IsConcat
<1>8. ASSUME NEW i \in 1..(MmapWords + 15) PROVE t[i][1] = "vector" <=> i = MmapWords + 9
  <2>1. CASE i \in 1..MmapWords
    <3>1. t[i] = x[i] /\ x[i][1] # "vector"
      BY <1>2, <1>7, <2>1
    <3>2. i # MmapWords + 9
      BY <1>0, <2>1
    <3> QED
      BY <3>1, <3>2
  <2>2. CASE i \in (MmapWords + 1)..(MmapWords + 15)
    <3>1. i - MmapWords \in 1..15 /\ i = MmapWords + (i - MmapWords)
      BY <1>0, <2>2
    <3>2. t[MmapWords + (i - MmapWords)] = y[i - MmapWords]
      BY <1>7, <3>1
    <3>3. y[i - MmapWords][1] = "vector" <=> i - MmapWords = 9
      BY <1>3, <1>4, <3>1 DEF VectorsAt
    <3>4. t[i] = y[i - MmapWords]
      BY <3>1, <3>2
    <3>5. i - MmapWords = 9 <=> i = MmapWords + 9
      BY <1>0
    <3> QED
      BY <3>3, <3>4, <3>5
  <2> QED
    BY <1>0, <2>1, <2>2
<1>9. VectorsAt(t, {MmapWords + 9})
  BY <1>7, <1>8 DEF VectorsAt
<1> QED
  BY <1>7, <1>9 DEF Mmapped, t, x, y

\* The frame of the fault, and what is in it of the handlers.
LEMMA FaultFrame ==
    ASSUME NEW p \in Procs \ {Idle}, NEW r \in Registers, NEW n, n # 0
    PROVE  LET c == InMmap(p).ret
           IN  /\ c \in Seq(Word) /\ Len(c) = 3 /\ c[2] = <<"cs", "kernel">> /\ NoVector(c)
               /\ FrameOf(Faulted(p, r, n), Regs(Own(p)), Stub("page fault"), c, <<>>, Mmapped(p, r, n))
<1> DEFINE o == Own(p)
           c == InMmap(p).ret
           t == Mmapped(p, r, n)
           e == <<>>
           f == Faulted(p, r, n)
<1>1. o \in Registers /\ "page fault" \in Vectors /\ o.id = p
  BY DEF Own, Registers, Vectors
<1>2. c = <<<<"eip", "mmap">>, <<"cs", "kernel">>, <<"eflags", p>>>>
  <2>1. Return(Idle, o) = <<<<"eip", p>>, <<"cs", "kernel">>, <<"eflags", p>>>>
    BY DEF Return, Level, Own
  <2>2. c = [Return(Idle, o) EXCEPT ![1] = <<"eip", "mmap">>]
    BY DEF InMmap, Context
  <2> QED
    BY <2>1, <2>2
<1>3. c \in Seq(Word) /\ Len(c) = 3 /\ c[2] = <<"cs", "kernel">> /\ NoVector(c)
  <2> HIDE DEF c
  <2>1. <<"eip", "mmap">> \in Word /\ <<"cs", "kernel">> \in Word /\ <<"eflags", p>> \in Word
    BY WordIs DEF Labels, Values
  <2>2. c \in Seq(Word) /\ Len(c) = 3 /\ c[2] = <<"cs", "kernel">>
    BY <1>2, <2>1
  <2>3. NoVector(c)
    BY <1>2 DEF NoVector
  <2> QED
    BY <2>2, <2>3
<1>4. f = Regs(o) \o Stub("page fault") \o c \o e \o t
  <2>1. InMmap(p).regs = Regs(o) /\ InMmap(p).ustack = e
    BY DEF InMmap, Context, UserStack
  <2> QED
    BY <2>1, Zenon DEF Faulted, Enter
<1>5. t \in Seq(Word) /\ e \in Seq(Word)
  BY MmapStack
<1>6. Regs(o) \in Seq(Word) /\ Len(Regs(o)) = 8 /\ Stub("page fault") \in Seq(Word) /\ Len(Stub("page fault")) = 2
  BY <1>1, FrameParts
<1> HIDE DEF o, c, t, e, f
<1>7. FrameOf(f, Regs(o), Stub("page fault"), c, e, t)
  BY <1>3, <1>4, <1>5, <1>6, Parts
<1> QED
  BY <1>3, <1>7 DEF o, c, t, e, f

\* Two handlers are on the stack in the fault.
LEMMA FaultVectors ==
    ASSUME NEW p \in Procs \ {Idle}, NEW r \in Registers, NEW n, n # 0
    PROVE  /\ Faulted(p, r, n) \in Seq(Word)
           /\ Len(Faulted(p, r, n)) = MmapWords + 28
           /\ VectorsAt(Faulted(p, r, n), {9, MmapWords + 22})
<1> DEFINE a == Regs(Own(p))
           b == Stub("page fault")
           c == InMmap(p).ret
           t == Mmapped(p, r, n)
           e == <<>>
           f == Faulted(p, r, n)
<1>0. MmapWords \in Nat
  BY MmapWordsAssumption
<1>1. c \in Seq(Word) /\ Len(c) = 3 /\ NoVector(c) /\ FrameOf(f, a, b, c, e, t)
  BY FaultFrame, Zenon
<1>2. t \in Seq(Word) /\ Len(t) = MmapWords + 15 /\ VectorsAt(t, {MmapWords + 9})
  BY MmapStack
<1>3. e \in Seq(Word) /\ Len(e) = 0 /\ NoVector(e)
  BY DEF NoVector
<1>4. Len(a) = 8 /\ NoVector(a) /\ StubVector(b)
  <2>1. Own(p) \in Registers /\ "page fault" \in Vectors
    BY DEF Own, Registers, Vectors
  <2> QED
    BY <2>1, FrameParts, PartVectors
<1> HIDE DEF a, b, c, t, e, f
<1>5. OneVector(f, 13 + Len(e)) /\ BelowVectors(f, 13 + Len(e), t)
  BY <1>1, <1>2, <1>3, <1>4, FrameVectors
<1>6. f \in Seq(Word) /\ Len(f) = MmapWords + 28
  BY <1>0, <1>1, <1>2, <1>3 DEF FrameOf
<1>7. ASSUME NEW i \in 1..(MmapWords + 28) PROVE f[i][1] = "vector" <=> i \in {9, MmapWords + 22}
  <2>1. CASE i \in 1..13
    BY <1>0, <1>3, <1>5, <2>1 DEF OneVector
  <2>2. CASE i \in 14..(MmapWords + 28)
    <3>1. i - 13 \in 1..(MmapWords + 15) /\ i = 13 + 0 + (i - 13)
      BY <1>0, <2>2
    <3>2. f[13 + 0 + (i - 13)][1] = "vector" <=> t[i - 13][1] = "vector"
      BY <1>2, <1>3, <1>5, <3>1 DEF BelowVectors
    <3>3. t[i - 13][1] = "vector" <=> i - 13 = MmapWords + 9
      BY <1>2, <3>1 DEF VectorsAt
    <3>4. f[i][1] = "vector" <=> t[i - 13][1] = "vector"
      BY <3>1, <3>2
    <3>5. i \in {9, MmapWords + 22} <=> i - 13 = MmapWords + 9
      BY <1>0, <2>2
    <3> QED
      BY <3>3, <3>4, <3>5
  <2> QED
    BY <1>0, <2>1, <2>2
<1>8. VectorsAt(f, {9, MmapWords + 22})
  BY <1>6, <1>7 DEF VectorsAt
<1> QED
  BY <1>6, <1>8 DEF f

\* One is left when the fault has returned.
LEMMA ClippedStack ==
    ASSUME NEW p \in Procs \ {Idle}, NEW r \in Registers, NEW n, n # 0
    PROVE  /\ IsSlice(Clipped(p, r, n), Mmapped(p, r, n), 3, MmapWords + 15)
           /\ Clipped(p, r, n) \in Seq(Word)
           /\ Len(Clipped(p, r, n)) = MmapWords + 13
           /\ VectorsAt(Clipped(p, r, n), {MmapWords + 7})
<1> DEFINE t == Mmapped(p, r, n)
           s == SubSeq(t, 3, MmapWords + 15)
<1>0. MmapWords \in Nat
  BY MmapWordsAssumption
<1>1. t \in Seq(Word) /\ Len(t) = MmapWords + 15 /\ VectorsAt(t, {MmapWords + 9})
  BY MmapStack
<1> HIDE DEF t
<1>2. IsSlice(s, t, 3, MmapWords + 15)
  <2>1. 3 \in Nat \ {0} /\ MmapWords + 15 \in Nat /\ 3 <= MmapWords + 15 + 1 /\ MmapWords + 15 <= Len(t)
    BY <1>0, <1>1
  <2> QED
    BY <1>1, <2>1, Slice
<1> HIDE DEF s
<1>3. s \in Seq(Word) /\ Len(s) = MmapWords + 13
  BY <1>0, <1>2 DEF IsSlice
<1>4. ASSUME NEW i \in 1..(MmapWords + 13) PROVE s[i][1] = "vector" <=> i = MmapWords + 7
  <2>1. i \in 1..(MmapWords + 15 - 3 + 1) /\ 3 + i - 1 = i + 2 /\ i + 2 \in 1..(MmapWords + 15)
    BY <1>0
  <2>2. s[i] = t[3 + i - 1]
    <3>1. \A k \in 1..(MmapWords + 15 - 3 + 1) : s[k] = t[3 + k - 1]
      BY <1>0, <1>2 DEF IsSlice
    <3> QED
      BY <2>1, <3>1, Zenon
  <2>3. s[i] = t[i + 2]
    BY <2>1, <2>2
  <2>4. t[i + 2][1] = "vector" <=> i + 2 = MmapWords + 9
    BY <1>1, <2>1 DEF VectorsAt
  <2>5. i + 2 = MmapWords + 9 <=> i = MmapWords + 7
    BY <1>0
  <2> QED
    BY <2>3, <2>4, <2>5
<1>5. VectorsAt(s, {MmapWords + 7})
  BY <1>3, <1>4 DEF VectorsAt
<1> QED
  BY <1>2, <1>3, <1>5 DEF Clipped, s, t

\* The fault was taken with int_depth 1 and leaves through depad, although its
\* frame was not padded: two words of mmap()'s frame go with it.
LEMMA LeaveFault ==
    ASSUME NEW p \in Procs \ {Idle}, NEW r \in Registers, NEW n, n # 0
    PROVE  /\ Leave(Faulted(p, r, n), 2, n).cpu = InMmap(p)
           /\ Leave(Faulted(p, r, n), 2, n).kst = Clipped(p, r, n)
<1> DEFINE a == Regs(Own(p))
           b == Stub("page fault")
           c == InMmap(p).ret
           t == Mmapped(p, r, n)
           s == Clipped(p, r, n)
           e == <<>>
           f == Faulted(p, r, n)
           g == Depad(f)
<1>0. MmapWords \in Nat /\ MmapWords >= 2
  BY MmapWordsAssumption
<1>1. c \in Seq(Word) /\ Len(c) = 3 /\ c[2] = <<"cs", "kernel">> /\ FrameOf(f, a, b, c, e, t)
  BY FaultFrame, Zenon
<1>2. t \in Seq(Word) /\ Len(t) = MmapWords + 15
  BY MmapStack
<1>3. e \in Seq(Word) /\ Len(e) = 0
  OBVIOUS
<1>4. a \in Seq(Word) /\ Len(a) = 8 /\ b \in Seq(Word) /\ Len(b) = 2
  <2>1. Own(p) \in Registers /\ "page fault" \in Vectors
    BY DEF Own, Registers, Vectors
  <2> QED
    BY <2>1, FrameParts
<1>5. IsSlice(s, t, 3, MmapWords + 15) /\ s \in Seq(Word) /\ Len(s) = MmapWords + 13
  BY ClippedStack
<1>6. f \in Seq(Word) /\ Len(f) = MmapWords + 28
  BY FaultVectors
<1> HIDE DEF a, b, c, t, s, e, f
<1>7. IsDepadded(g, f)
  <2>1. 15 <= Len(f)
    BY <1>0, <1>6
  <2> QED
    BY <1>6, <2>1, DepadLemma
<1> HIDE DEF g
<1>8. FrameOf(g, a, b, c, e, s)
  <2>1. g \in Seq(Word) /\ Len(g) = MmapWords + 26 /\ \A i \in 1..13 : g[i] = f[i]
    BY <1>0, <1>6, <1>7 DEF IsDepadded
  <2>2. Len(g) = 13 + Len(e) + Len(s)
    BY <1>0, <1>3, <1>5, <2>1
  <2>3. /\ \A i \in 1..8 : g[i] = a[i]
        /\ \A i \in 1..2 : g[8 + i] = b[i]
        /\ \A i \in 1..3 : g[10 + i] = c[i]
    BY <1>1, <2>1 DEF FrameOf
  <2>4. \A i \in 1..Len(e) : g[13 + i] = e[i]
    BY <1>3
  <2>5. ASSUME NEW i \in 1..Len(s) PROVE g[13 + Len(e) + i] = s[i]
    <3>1. i \in 1..(MmapWords + 15 - 3 + 1) /\ 3 + i - 1 = i + 2 /\ i + 2 \in 1..Len(t)
          /\ 13 + i \in 14..(Len(f) - 2) /\ 13 + Len(e) + i = 13 + i /\ 13 + i + 2 = 13 + Len(e) + (i + 2)
      BY <1>0, <1>2, <1>3, <1>5, <1>6
    <3>2. s[i] = t[3 + i - 1]
      BY <1>5, <3>1 DEF IsSlice
    <3>3. s[i] = t[i + 2]
      BY <3>1, <3>2
    <3>4. g[13 + i] = f[13 + i + 2]
      BY <1>7, <3>1 DEF IsDepadded
    <3>5. f[13 + Len(e) + (i + 2)] = t[i + 2]
      BY <1>1, <3>1 DEF FrameOf
    <3>6. g[13 + Len(e) + i] = g[13 + i] /\ f[13 + i + 2] = f[13 + Len(e) + (i + 2)]
      BY <3>1
    <3> QED
      BY <3>3, <3>4, <3>5, <3>6
  <2> QED
    BY <2>1, <2>2, <2>3, <2>4, <2>5 DEF FrameOf
<1>9. FrameOf(Depad(f), a, b, c, <<>>, s)
  BY <1>8 DEF g, e
<1>10. Depads(2, n)
  BY DEF Depads
<1>11. Restores(f, 2, n, a, c, <<>>, "kernel", s)
  BY <1>1, <1>4, <1>5, <1>9, <1>10, LeaveKernel
<1>12. InMmap(p) = [regs |-> a, ret |-> c, ustack |-> <<>>, ds |-> "kernel"]
  <2>1. /\ InMmap(p) = [regs |-> InMmap(p).regs, ret |-> InMmap(p).ret,
                        ustack |-> InMmap(p).ustack, ds |-> InMmap(p).ds]
        /\ InMmap(p).regs = Regs(Own(p)) /\ InMmap(p).ustack = <<>> /\ InMmap(p).ds = "kernel"
    BY DEF InMmap, Context, UserStack, Level
  <2> QED
    BY <2>1, Zenon DEF a, c
<1> QED
  BY <1>11, <1>12 DEF Restores, f, s

\* What mmap() returns to is the frame of its system call.
LEMMA LeaveMmap ==
    ASSUME NEW p \in Procs \ {Idle}, NEW r \in Registers, NEW n, n # 0
    PROVE  LET s == Clipped(p, r, n)
           IN  SubSeq(s, Len(s) - 14, Len(s)) = Saved("syscall", p, r, n)
<1> DEFINE t == Mmapped(p, r, n)
           s == Clipped(p, r, n)
           x == Saved("syscall", p, r, n)
<1>0. MmapWords \in Nat /\ MmapWords >= 2
  BY MmapWordsAssumption
<1>1. IsSlice(s, t, 3, MmapWords + 15) /\ s \in Seq(Word) /\ Len(s) = MmapWords + 13
  BY ClippedStack
<1>2. \A i \in 1..15 : t[MmapWords + i] = x[i]
  BY MmapStack, SMTT(30)
<1>3. x \in Seq(Word) /\ Len(x) = 15
  BY SavedUser DEF Vectors
<1> HIDE DEF t, s, x
<1>4. ASSUME NEW i \in 1..Len(x) PROVE s[(MmapWords - 1) + i - 1] = x[i]
  <2> DEFINE j == (MmapWords - 1) + i - 1
  <2>1. i \in 1..15 /\ j \in 1..(MmapWords + 15 - 3 + 1) /\ 3 + j - 1 = MmapWords + i
    BY <1>0, <1>3
  <2> HIDE DEF j
  <2>2. s[j] = t[3 + j - 1]
    <3>1. \A k \in 1..(MmapWords + 15 - 3 + 1) : s[k] = t[3 + k - 1]
      BY <1>0, <1>1 DEF IsSlice
    <3> QED
      BY <2>1, <3>1, Zenon
  <2>3. s[j] = x[i]
    BY <1>2, <2>1, <2>2
  <2> QED
    BY <2>3 DEF j
<1>5. /\ MmapWords - 1 \in Nat \ {0} /\ MmapWords + 13 \in Nat
      /\ MmapWords + 13 = (MmapWords - 1) + Len(x) - 1 /\ MmapWords + 13 <= Len(s)
  BY <1>0, <1>1, <1>3
<1>6. SubSeq(s, MmapWords - 1, MmapWords + 13) = x
  BY <1>1, <1>3, <1>4, <1>5, SubSeqIs
<1>7. Len(s) - 14 = MmapWords - 1 /\ Len(s) = MmapWords + 13
  BY <1>0, <1>1
<1> QED
  BY <1>6, <1>7 DEF s, x

----------------------------------------------------------------------------
(* The inductive invariant. *)

LEMMA Depths ==
    ASSUME NEW n
    PROVE  Deeper(0, n) = 1 /\ Deeper(1, n) = 2 /\ Shallower(1) = 0 /\ Shallower(2) = 1
BY DEF Deeper, Shallower

LEMMA PidOf ==
    ASSUME PidInv, NEW p \in live
    PROVE  pid[p] = 0 <=> p = Idle
BY DEF PidInv

\* Every step is one of the scheduler, or none.
LEMMA StepImplements == [Next]_vars => [SchedNext]_schedVars
<1> SUFFICES ASSUME [Next]_vars PROVE [SchedNext]_schedVars
  OBVIOUS
<1>1. CASE Compute \/ Calls \/ Executes \/ MmapFaults \/ FaultReturns \/ MmapReturns
  BY <1>1 DEF Compute, Calls, Executes, MmapFaults, FaultReturns, MmapReturns
<1>2. CASE Timer \/ Blocking \/ Resumed
  BY <1>2 DEF Timer, Blocking, Resumed, SchedNext
<1>3. ASSUME NEW p \in live, Wakes(p) PROVE SchedNext
  BY <1>3 DEF Wakes, SchedNext
<1>4. ASSUME NEW new \in Procs, Forks(new) PROVE SchedNext
  BY <1>4 DEF Forks, SchedNext
<1>5. CASE Panic \/ Spinning
  BY <1>5 DEF Panic, Spinning, SchedNext
<1>6. CASE UNCHANGED vars
  BY <1>6 DEF vars
<1> QED
  BY <1>1, <1>2, <1>3, <1>4, <1>5, <1>6 DEF Next

\* What an interrupt leaves on the stack of the running program.
LEMMA EnteredIs ==
    ASSUME Inv, Interruptible, NEW v
    PROVE  /\ Entered(v) = Saved(v, active, prog[active], pid[active])
           /\ depth = 0
           /\ active \in live /\ active \in Procs /\ prog[active] \in Registers
           /\ pid[active] = 0 <=> active = Idle
<1>1. depth = 0 /\ kst[active] = Base(active) /\ cpu = Context(active, prog[active])
  BY DEF Inv, StackInv, Interruptible
<1>2. Entered(v) = Saved(v, active, prog[active], pid[active])
  BY <1>1, Zenon DEF Entered, Saved
<1>3. active \in live /\ active \in Procs /\ prog[active] \in Registers
  BY DEF Inv, SchedInv, SchedTypeOK, IsrTypeOK
<1>4. pid[active] = 0 <=> active = Idle
  BY <1>3, PidOf DEF Inv
<1> QED
  BY <1>1, <1>2, <1>3, <1>4

\* A process that is not touched stays suspended.
LEMMA SuspendedKept ==
    ASSUME NEW p, Suspended(p), kst'[p] = kst[p], prog'[p] = prog[p], pid'[p] = pid[p]
    PROVE  Suspended(p)'
BY DEF Suspended

LEMMA InitInv == Init => Inv
<1> SUFFICES ASSUME Init PROVE Inv
  OBVIOUS
<1>0. /\ SchedInit /\ prog = [p \in Procs |-> Start(p)] /\ cpu = Context(Idle, Own(Idle))
      /\ kst = [p \in Procs |-> IF p = InitProc THEN FirstStack(p, Start(p)) ELSE Base(p)]
      /\ depth = 0 /\ where = "program"
  BY DEF Init
<1>1. SchedInv
  BY <1>0, SchedInitInv
<1>2. /\ active = Idle /\ live = {Idle, InitProc} /\ mode = "user" /\ Idle # InitProc
      /\ pid[Idle] = 0 /\ pid[InitProc] = 1 /\ Idle \in Procs /\ InitProc \in Procs
  BY <1>0, ProcsAssumption DEF SchedInit
<1>3. \A p \in Procs : Start(p) \in Registers
  BY DEF Start, Own, Registers
<1>4. FirstStack(InitProc, Start(InitProc)) = Saved("none", InitProc, Start(InitProc), 1)
  <2> DEFINE o == Start(InitProc)
             f == Regs(o) \o Stub("none") \o Return(InitProc, o) \o UserStack(InitProc, o)
  <2>1. Saved("none", InitProc, o, 1) = f \o <<>>
    BY <1>2 DEF Saved, Enter, Context, Base
  <2>2. FirstStack(InitProc, o) = f
    BY DEF FirstStack
  <2>3. /\ Regs(o) \in Seq(Word) /\ Stub("none") \in Seq(Word)
        /\ Return(InitProc, o) \in Seq(Word) /\ UserStack(InitProc, o) \in Seq(Word)
    BY <1>2, <1>3, FrameParts DEF Vectors
  <2>4. f \in Seq(Word)
    <3> HIDE DEF o
    <3>1. Regs(o) \o Stub("none") \in Seq(Word)
      BY <2>3, ConcatProperties
    <3>2. (Regs(o) \o Stub("none")) \o Return(InitProc, o) \in Seq(Word)
      BY <2>3, <3>1, ConcatProperties
    <3> QED
      BY <2>3, <3>2, ConcatProperties
  <2> HIDE DEF f
  <2>5. f \o <<>> = f
    BY <2>4, ConcatEmptySeq
  <2> QED
    BY <2>1, <2>2, <2>5
<1>5. Suspended(InitProc)
  <2>1. "none" \in Vectors /\ prog[InitProc] = Start(InitProc) /\ kst[InitProc] = FirstStack(InitProc, Start(InitProc))
    BY <1>0, <1>2 DEF Vectors
  <2> QED
    BY <1>2, <1>4, <2>1 DEF Suspended
<1>6. IsrTypeOK
  <2>1. prog \in [Procs -> Registers]
    BY <1>0, <1>3
  <2>2. FirstStack(InitProc, Start(InitProc)) \in Seq(Word)
    <3>1. InitProc \in Procs \ {Idle} /\ Start(InitProc) \in Registers /\ "none" \in Vectors /\ 1 # 0
      BY <1>2, <1>3 DEF Vectors
    <3>2. Saved("none", InitProc, Start(InitProc), 1) \in Seq(Word)
      BY <3>1, SavedUser
    <3> QED
      BY <1>4, <3>2
  <2>3. \A p \in Procs : Base(p) \in Seq(Word)
    BY <1>3, FrameParts DEF Vectors
  <2>4. kst \in [Procs -> Seq(Word)]
    BY <1>0, <2>2, <2>3
  <2> QED
    BY <1>0, <2>1, <2>4 DEF IsrTypeOK
<1>7. PidInv
  BY <1>2 DEF PidInv
<1>8. StackInv
  <2>1. prog[Idle] = Own(Idle) /\ kst[Idle] = Base(Idle)
    BY <1>0, <1>2 DEF Start
  <2> QED
    BY <1>0, <1>2, <2>1 DEF StackInv
<1> QED
  BY <1>0, <1>1, <1>2, <1>5, <1>6, <1>7, <1>8 DEF Inv

\* An interrupt whose handler switches away.
LEMMA SuspendStep ==
    ASSUME Inv, SchedInv', NEW v \in Vectors, Suspend(v), mode' = "switched", UNCHANGED <<live, pid>>
    PROVE  Inv'
<1> DEFINE s == Saved(v, active, prog[active], pid[active])
<1>0. Interruptible
  BY DEF Suspend
<1>1. /\ Entered(v) = s /\ depth = 0 /\ active \in live /\ active \in Procs /\ prog[active] \in Registers
      /\ pid[active] = 0 <=> active = Idle
  BY <1>0, EnteredIs
<1>2. kst' = [kst EXCEPT ![active] = s] /\ depth' = 1 /\ UNCHANGED <<prog, cpu, where>>
  BY <1>1, Depths DEF Suspend
<1>3. s \in Seq(Word)
  BY <1>1, SavedVectors
<1>4. IsrTypeOK /\ PidInv /\ live \subseteq Procs /\ where = "program"
  BY <1>0 DEF Inv, SchedInv, SchedTypeOK, Interruptible
<1> HIDE DEF s
<1>5. IsrTypeOK' /\ PidInv'
  BY <1>1, <1>2, <1>3, <1>4 DEF IsrTypeOK, PidInv
<1>6. ASSUME NEW p \in live PROVE Suspended(p)'
  <2>1. CASE p = active
    <3>1. kst'[p] = s
      BY <1>1, <1>2, <1>4, <2>1 DEF IsrTypeOK
    <3> QED
      BY <1>2, <2>1, <3>1, Zenon DEF Suspended, s
  <2>2. CASE p # active
    <3>1. Suspended(p) /\ kst'[p] = kst[p]
      BY <1>1, <1>2, <1>4, <2>2 DEF IsrTypeOK, Inv
    <3> QED
      BY <1>2, <3>1, SuspendedKept
  <2> QED
    BY <2>1, <2>2
<1>7. active' \in live'
  BY DEF SchedInv
<1>8. StackInv'
  BY <1>2, <1>4, <1>6, <1>7 DEF StackInv
<1> QED
  BY <1>2, <1>4, <1>5, <1>6, <1>8 DEF Inv

\* A return to the program of the process whose stack is in use, with
\* registers r.
LEMMA ReturnStep ==
    ASSUME Inv, SchedInv', NEW r \in Registers, mode' = "user", where' = "program", depth' = 0,
           UNCHANGED <<live, pid, active>>,
           prog' = [prog EXCEPT ![active] = r],
           cpu' = Context(active, r),
           kst' = [kst EXCEPT ![active] = Base(active)]
    PROVE  Inv'
<1>1. /\ IsrTypeOK /\ PidInv /\ live \subseteq Procs /\ active \in live /\ active \in Procs
      /\ \A p \in live \ {active} : Suspended(p)
  BY DEF Inv, SchedInv, SchedTypeOK
<1>2. Base(active) \in Seq(Word)
  BY <1>1, FrameParts DEF Vectors
<1>3. IsrTypeOK' /\ PidInv'
  BY <1>1, <1>2 DEF IsrTypeOK, PidInv
<1>4. ASSUME NEW p \in live \ {active} PROVE Suspended(p)'
  <2>1. kst'[p] = kst[p] /\ prog'[p] = prog[p]
    BY <1>1 DEF IsrTypeOK
  <2> QED
    BY <1>1, <2>1, SuspendedKept
<1>5. kst'[active] = Base(active) /\ prog'[active] = r
  BY <1>1 DEF IsrTypeOK
<1>6. StackInv'
  BY <1>5 DEF StackInv
<1> QED
  BY <1>3, <1>4, <1>6 DEF Inv

\* The handlers that return at once.
LEMMA ReturnsStep ==
    ASSUME Inv, SchedInv', Interruptible, NEW r \in Registers, NEW v \in Vectors,
           Returns(Saved(v, active, r, pid[active])), mode' = mode,
           UNCHANGED <<live, pid, active>>,
           prog' = [prog EXCEPT ![active] = r]
    PROVE  Inv'
<1>1. depth = 0 /\ active \in live /\ active \in Procs /\ (pid[active] = 0 <=> active = Idle)
  BY EnteredIs
<1> DEFINE l == Leave(Saved(v, active, r, pid[active]), 1, pid[active])
<1>2. l.cpu = Context(active, r) /\ l.kst = Base(active)
  BY <1>1, LeaveSaved
<1>3. cpu' = l.cpu /\ kst' = [kst EXCEPT ![active] = l.kst] /\ depth' = 0 /\ where' = where
  BY <1>1, Depths, Zenon DEF Returns
<1> HIDE DEF l
<1>4. cpu' = Context(active, r) /\ kst' = [kst EXCEPT ![active] = Base(active)]
  BY <1>2, <1>3
<1>5. mode' = "user" /\ where' = "program"
  BY <1>3 DEF Interruptible
<1> QED
  BY <1>3, <1>4, <1>5, ReturnStep

LEMMA NextInv == Inv /\ [Next]_vars => Inv'
<1> SUFFICES ASSUME Inv, [Next]_vars PROVE Inv'
  OBVIOUS
<1>0. SchedInv'
  BY StepImplements, SchedNextInv DEF Inv
<1>a. /\ SchedInv /\ IsrTypeOK /\ PidInv /\ StackInv /\ live \subseteq Procs /\ active \in live /\ active \in Procs
      /\ Idle \in live /\ prog[active] \in Registers /\ prog = [prog EXCEPT ![active] = prog[active]]
      /\ (pid[active] = 0 <=> active = Idle)
      /\ \A p \in live \ {active} : Suspended(p)
  BY PidOf DEF Inv, SchedInv, SchedTypeOK, IsrTypeOK, Ring
<1>b. {"none", "timer", "syscall", "keyboard", "page fault"} \subseteq Vectors /\ "syscall" \in Vectors
  BY DEF Vectors
<1>c. ASSUME active # Idle
      PROVE  \A v \in Vectors, x \in {"child", "zero", "result"} :
                SetEax(Saved(v, active, prog[active], pid[active]), x)
                  = Saved(v, active, [prog[active] EXCEPT !.eax = x], pid[active])
  <2>1. active \in Procs \ {Idle} /\ pid[active] # 0
    BY <1>a, <1>c
  <2>2. PICK r \in Registers : r = prog[active]
    BY <1>a
  <2>3. \A v \in Vectors, x \in {"child", "zero", "result"} :
           SetEax(Saved(v, active, r, pid[active]), x) = Saved(v, active, [r EXCEPT !.eax = x], pid[active])
    BY <2>1, SavedEax
  <2> QED
    BY <2>2, <2>3
<1>d. \A v \in Vectors, r \in Registers :
        /\ Leave(Saved(v, active, r, pid[active]), 1, pid[active]).cpu = Context(active, r)
        /\ Leave(Saved(v, active, r, pid[active]), 1, pid[active]).kst = Base(active)
  BY <1>a, LeaveSaved
<1>1. CASE Compute
  <2> DEFINE o == Own(active)
  <2>1. o \in Registers
    BY <1>a DEF Own, Registers
  <2>2. /\ prog' = [prog EXCEPT ![active] = o] /\ cpu' = Context(active, o)
        /\ UNCHANGED <<live, pid, active>> /\ mode' = "user" /\ where' = "program"
        /\ kst' = kst /\ depth' = depth /\ mode = "user" /\ where = "program"
    BY <1>1 DEF Compute, schedVars, Interruptible
  <2> HIDE DEF o
  <2>3. depth = 0 /\ kst[active] = Base(active)
    BY <1>a, <2>2 DEF StackInv
  <2>4. kst' = [kst EXCEPT ![active] = Base(active)] /\ depth' = 0
    BY <1>a, <2>2, <2>3 DEF IsrTypeOK
  <2> QED
    BY <1>0, <2>1, <2>2, <2>4, ReturnStep
<1>2. CASE Calls
  <2>1. Interruptible /\ active \in Procs \ {Idle} /\ mode' = mode /\ UNCHANGED <<live, pid, active>>
    BY <1>2, CallersAssumption DEF Calls, schedVars
  <2>2. Entered("syscall") = Saved("syscall", active, prog[active], pid[active])
    BY <2>1, EnteredIs
  <2>3. CASE Returns(Entered("syscall")) /\ UNCHANGED prog
    BY <1>0, <1>a, <1>b, <2>1, <2>2, <2>3, ReturnsStep
  <2>4. CASE Returns(SetEax(Entered("syscall"), "result")) /\ prog' = [prog EXCEPT ![active].eax = "result"]
    <3> DEFINE r == [prog[active] EXCEPT !.eax = "result"]
    <3>1. r \in Registers /\ prog' = [prog EXCEPT ![active] = r]
      BY <1>a, <2>4 DEF Registers
    <3>2. SetEax(Entered("syscall"), "result") = Saved("syscall", active, r, pid[active])
      <4>1. "result" \in {"child", "zero", "result"} /\ active # Idle
        BY <2>1
      <4> QED
        BY <1>b, <1>c, <2>2, <4>1, Zenon
    <3> HIDE DEF r
    <3> QED
      BY <1>0, <1>b, <2>1, <2>4, <3>1, <3>2, ReturnsStep
  <2> QED
    BY <1>2, <2>3, <2>4 DEF Calls
<1>3. CASE Executes
  <2>1. /\ Interruptible /\ active \in Procs \ {Idle} /\ mode' = mode /\ UNCHANGED <<live, pid, active>>
        /\ Returns([Entered("syscall") EXCEPT ![11] = <<"eip", "entry">>, ![14] = <<"esp", "entry">>])
        /\ prog' = [prog EXCEPT ![active].at = "entry"]
    BY <1>3, CallersAssumption DEF Executes, schedVars
  <2>2. Entered("syscall") = Saved("syscall", active, prog[active], pid[active])
    BY <2>1, EnteredIs
  <2> DEFINE r == [prog[active] EXCEPT !.at = "entry"]
  <2>3. r \in Registers /\ prog' = [prog EXCEPT ![active] = r]
    BY <1>a, <2>1 DEF Registers
  <2>4. [Entered("syscall") EXCEPT ![11] = <<"eip", "entry">>, ![14] = <<"esp", "entry">>]
          = Saved("syscall", active, r, pid[active])
    <3>1. active \in Procs \ {Idle} /\ prog[active] \in Registers /\ pid[active] # 0 /\ "syscall" \in Vectors
      BY <1>a, <1>b, <2>1
    <3>2. \A v \in Vectors :
             [Saved(v, active, prog[active], pid[active]) EXCEPT ![11] = <<"eip", "entry">>, ![14] = <<"esp", "entry">>]
               = Saved(v, active, r, pid[active])
      BY <3>1, SavedEntry
    <3> QED
      BY <2>2, <3>1, <3>2, Zenon
  <2> HIDE DEF r
  <2>5. Returns(Saved("syscall", active, r, pid[active]))
    BY <2>1, <2>4
  <2> QED
    BY <1>0, <1>b, <2>1, <2>3, <2>5, ReturnsStep
<1>4. CASE Timer
  <2>1. Suspend("timer") /\ mode' = "switched" /\ UNCHANGED <<live, pid>>
    BY <1>4 DEF Timer, TimerInterrupt, Switch
  <2> QED
    BY <1>0, <1>b, <2>1, SuspendStep
<1>5. CASE Blocking
  <2>1. Suspend("syscall") /\ mode' = "switched" /\ UNCHANGED <<live, pid>>
    BY <1>5 DEF Blocking, Block, Switch
  <2> QED
    BY <1>0, <1>b, <2>1, SuspendStep
<1>6. CASE Resumed
  <2>1. mode = "switched" /\ mode' = "user" /\ UNCHANGED <<live, pid, active, prog, where>> /\ depth' = Shallower(depth)
    BY <1>6 DEF Resumed, Resume
  <2>2. depth = 1 /\ Suspended(active) /\ where = "program"
    BY <1>a, <2>1 DEF StackInv, Inv
  <2>3. PICK v \in Vectors : kst[active] = Saved(v, active, prog[active], pid[active])
    BY <2>2 DEF Suspended
  <2> DEFINE l == Leave(Saved(v, active, prog[active], pid[active]), 1, pid[active])
  <2>4. l.cpu = Context(active, prog[active]) /\ l.kst = Base(active)
    BY <1>a, LeaveSaved
  <2>5. cpu' = l.cpu /\ kst' = [kst EXCEPT ![active] = l.kst]
    BY <1>6, <2>2, <2>3, Zenon DEF Resumed
  <2> HIDE DEF l
  <2>6. cpu' = Context(active, prog[active]) /\ kst' = [kst EXCEPT ![active] = Base(active)] /\ depth' = 0
    BY <2>1, <2>2, <2>4, <2>5, Depths
  <2>7. prog' = [prog EXCEPT ![active] = prog[active]] /\ where' = "program"
    BY <1>a, <2>1, <2>2
  <2> QED
    BY <1>0, <1>a, <2>1, <2>6, <2>7, ReturnStep
<1>7. ASSUME NEW p \in live, Wakes(p) PROVE Inv'
  <2>1. /\ Interruptible /\ mode' = mode /\ UNCHANGED <<live, pid, active, prog>> /\ Returns(Entered("keyboard"))
    BY <1>7 DEF Wakes, Unblock
  <2>2. Entered("keyboard") = Saved("keyboard", active, prog[active], pid[active])
    BY <2>1, EnteredIs
  <2>3. prog' = [prog EXCEPT ![active] = prog[active]]
    BY <1>a, <2>1
  <2> QED
    BY <1>0, <1>a, <1>b, <2>1, <2>2, <2>3, ReturnsStep
<1>8. ASSUME NEW new \in Procs, Forks(new) PROVE Inv'
  <2> DEFINE r == prog[active]
             rp == [r EXCEPT !.eax = "child"]
             rz == [r EXCEPT !.eax = "zero"]
             rc == [r EXCEPT !.eax = "zero", !.flags = "set"]
             s == Saved("syscall", active, r, pid[active])
             l == Leave(Saved("syscall", active, rp, pid[active]), 1, pid[active])
             k == Saved("syscall", new, rc, 2)
  <2>1. /\ Interruptible /\ active # Idle /\ new \notin live /\ live' = live \cup {new}
        /\ pid' = [pid EXCEPT ![new] = 2] /\ UNCHANGED <<active, mode, depth, where>>
        /\ prog' = [prog EXCEPT ![active].eax = "child", ![new] = rc]
    BY <1>8 DEF Forks, Fork
  <2>2. Entered("syscall") = s /\ depth = 0 /\ mode = "user" /\ where = "program" /\ pid[active] # 0
    BY <1>a, <2>1, EnteredIs DEF Interruptible
  <2>3. rp \in Registers /\ rz \in Registers /\ rc \in Registers /\ active # new
    BY <1>a, <2>1 DEF Registers
  <2>4. prog' = [prog EXCEPT ![active] = rp, ![new] = rc]
    BY <2>1
  <2>5. SetEax(s, "child") = Saved("syscall", active, rp, pid[active]) /\ s \in Seq(Word) /\ Len(s) = 15
    <3>1. "child" \in {"child", "zero", "result"}
      OBVIOUS
    <3>2. active \in Procs \ {Idle} /\ prog[active] \in Registers
      BY <1>a, <2>1
    <3>3. s \in Seq(Word) /\ Len(s) = 15
      BY <1>b, <2>2, <3>2, SavedUser, Zenon
    <3> QED
      BY <1>b, <1>c, <2>1, <3>1, <3>3, Zenon
  <2>6. SetFlags(SetEax(SubSeq(s, 1, 15), "zero")) = k
    <3>1. SubSeq(s, 1, 15) = s
      BY <2>5, WholeStack
    <3>2. SetEax(s, "zero") = Saved("syscall", active, rz, pid[active])
      <4>1. "zero" \in {"child", "zero", "result"}
        OBVIOUS
      <4> QED
        BY <1>b, <1>c, <2>1, <4>1, Zenon
    <3>3. new # Idle
      BY <1>a, <2>1
    <3>5. rc = [rz EXCEPT !.flags = "set"]
      OBVIOUS
    <3> HIDE DEF rc, rz
    <3>6. SetFlags(Saved("syscall", active, rz, pid[active])) = Saved("syscall", active, rc, pid[active])
      <4>1. active \in Procs \ {Idle} /\ "syscall" \in Vectors
        BY <1>a, <1>b, <2>1
      <4>2. SetFlags(Saved("syscall", active, rz, pid[active]))
              = Saved("syscall", active, [rz EXCEPT !.flags = "set"], pid[active])
        BY <2>2, <2>3, <4>1, SavedFlags
      <4> QED
        BY <3>5, <4>2, Zenon
    <3>4. Saved("syscall", active, rc, pid[active]) = k
      <4>1. 2 # 0
        OBVIOUS
      <4> QED
        BY <1>a, <2>1, <2>2, <3>3, <4>1, SavedChild
    <3> QED
      BY <3>1, <3>2, <3>4, <3>6, Zenon
  <2>7. l.cpu = Context(active, rp) /\ l.kst = Base(active)
    <3> HIDE DEF rp
    <3> QED
      BY <1>b, <1>d, <2>3, Zenon
  <2>8. cpu' = l.cpu /\ kst' = [kst EXCEPT ![active] = l.kst, ![new] = k]
    <3>1. Deeper(depth, pid[active]) = 1
      BY <2>2, Depths
    <3> HIDE DEF rp, rz, rc, s, k
    <3>2. /\ cpu' = Leave(SetEax(s, "child"), 1, pid[active]).cpu
          /\ kst' = [kst EXCEPT ![active] = Leave(SetEax(s, "child"), 1, pid[active]).kst,
                                ![new] = SetFlags(SetEax(SubSeq(s, 1, 15), "zero"))]
      BY <1>8, <2>2, <3>1, Zenon DEF Forks
    <3> QED
      BY <2>5, <2>6, <3>2, Zenon
  <2> HIDE DEF rp, rz, rc, s, l, k, r
  <2>9. /\ cpu' = Context(active, rp) /\ kst' = [kst EXCEPT ![active] = Base(active), ![new] = k]
    BY <2>7, <2>8
  <2>10. k \in Seq(Word) /\ Base(active) \in Seq(Word) /\ new # Idle
    <3>1. Base(active) \in Seq(Word)
      BY <1>a, <1>b, FrameParts
    <3>2. new # Idle
      BY <1>a, <2>1
    <3>3. k \in Seq(Word)
      <4>1. 2 # 0
        OBVIOUS
      <4> QED
        BY <1>b, <2>3, <3>2, <4>1, SavedUser DEF k
    <3> QED
      BY <3>1, <3>2, <3>3
  <2>11. IsrTypeOK'
    BY <1>a, <2>1, <2>3, <2>4, <2>9, <2>10 DEF IsrTypeOK
  <2>12. PidInv'
    BY <1>a, <2>1, <2>10 DEF PidInv, SchedInv, SchedTypeOK
  <2>13. kst'[active] = Base(active) /\ prog'[active] = rp /\ kst'[new] = k /\ prog'[new] = rc /\ pid'[new] = 2
    BY <1>a, <2>1, <2>3, <2>4, <2>9 DEF IsrTypeOK, SchedInv, SchedTypeOK
  <2>14. StackInv'
    BY <2>1, <2>2, <2>9, <2>13 DEF StackInv
  <2>15. ASSUME NEW p \in live' \ {active'} PROVE Suspended(p)'
    <3>1. CASE p = new
      <4>1. kst'[p] = Saved("syscall", p, prog'[p], pid'[p])
        BY <2>13, <3>1 DEF k
      <4>2. "syscall" \in Vectors
        BY <1>b
      <4> QED
        BY <4>1, <4>2, Zenon DEF Suspended
    <3>2. CASE p # new
      <4>1. p \in live \ {active} /\ kst'[p] = kst[p] /\ prog'[p] = prog[p] /\ pid'[p] = pid[p]
        BY <1>a, <2>1, <2>4, <2>9, <3>2 DEF IsrTypeOK, SchedInv, SchedTypeOK
      <4> QED
        BY <1>a, <4>1, SuspendedKept
    <3> QED
      BY <3>1, <3>2
  <2> QED
    BY <1>0, <2>1, <2>2, <2>11, <2>12, <2>14, <2>15 DEF Inv
<1>9. ASSUME UNCHANGED schedVars, UNCHANGED prog, active # Idle, mode = "user",
             NEW s \in Seq(Word), kst' = [kst EXCEPT ![active] = s],
             \/ where' = "fault" /\ depth' = 2 /\ s = Faulted(active, prog[active], pid[active])
             \/ where' = "mmap" /\ depth' = 1 /\ s = Clipped(active, prog[active], pid[active]) /\ cpu' = InMmap(active)
      PROVE  Inv'
  <2>1. UNCHANGED <<live, pid, active, mode>>
    BY <1>9 DEF schedVars
  <2>2. kst'[active] = s
    BY <1>9, <1>a DEF IsrTypeOK
  <2>3. IsrTypeOK' /\ PidInv'
    BY <1>9, <1>a, <2>1 DEF IsrTypeOK, PidInv
  <2>4. StackInv'
    <3>1. InMmap(active)' = InMmap(active)
      BY <2>1 DEF InMmap, Context, Own
    <3> QED
      BY <1>9, <2>1, <2>2, <3>1 DEF StackInv
  <2>5. ASSUME NEW p \in live \ {active} PROVE Suspended(p)'
    <3>1. kst'[p] = kst[p]
      BY <1>9, <1>a DEF IsrTypeOK
    <3> QED
      BY <1>9, <1>a, <2>1, <3>1, SuspendedKept
  <2> QED
    BY <1>0, <1>9, <2>1, <2>3, <2>4, <2>5 DEF Inv
<1>10. CASE MmapFaults
  <2> DEFINE s == Faulted(active, prog[active], pid[active])
  <2>1. Interruptible /\ active # Idle /\ UNCHANGED <<schedVars, prog>> /\ where' = "fault"
    BY <1>10, CallersAssumption DEF MmapFaults
  <2>2. Entered("syscall") = Saved("syscall", active, prog[active], pid[active]) /\ depth = 0
    BY <2>1, EnteredIs
  <2>3. kst' = [kst EXCEPT ![active] = s]
    BY <1>10, <2>2, Zenon DEF MmapFaults, Faulted, Mmapped
  <2>4. depth' = 2
    BY <1>10, <2>2, Depths DEF MmapFaults
  <2>5. s \in Seq(Word)
    BY <1>a, <2>1, FaultVectors
  <2>6. mode = "user"
    BY <2>1 DEF Interruptible
  <2> HIDE DEF s
  <2> QED
    BY <1>9, <2>1, <2>3, <2>4, <2>5, <2>6 DEF s
<1>11. CASE FaultReturns
  <2> DEFINE s == Clipped(active, prog[active], pid[active])
             l == Leave(kst[active], depth, pid[active])
  <2>1. /\ where = "fault" /\ UNCHANGED <<schedVars, prog>> /\ where' = "mmap"
        /\ cpu' = l.cpu /\ kst' = [kst EXCEPT ![active] = l.kst] /\ depth' = Shallower(depth)
    BY <1>11 DEF FaultReturns
  <2>2. depth = 2 /\ kst[active] = Faulted(active, prog[active], pid[active]) /\ active # Idle /\ mode = "user"
    BY <1>a, <2>1 DEF StackInv, Inv
  <2>3. l.cpu = InMmap(active) /\ l.kst = s /\ s \in Seq(Word)
    BY <1>a, <2>2, LeaveFault, ClippedStack
  <2>4. depth' = 1
    BY <2>1, <2>2, Depths
  <2> HIDE DEF s, l
  <2> QED
    BY <1>9, <2>1, <2>2, <2>3, <2>4 DEF s
<1>12. CASE MmapReturns
  <2> DEFINE s == kst[active]
             r == [prog[active] EXCEPT !.eax = "result"]
             x == Saved("syscall", active, r, pid[active])
             l == Leave(x, 1, pid[active])
  <2>1. /\ where = "mmap" /\ UNCHANGED schedVars /\ where' = "program" /\ depth' = Shallower(depth)
        /\ prog' = [prog EXCEPT ![active] = r] /\ r \in Registers
    BY <1>12, <1>a DEF MmapReturns, Registers
  <2>2. depth = 1 /\ s = Clipped(active, prog[active], pid[active]) /\ active # Idle /\ mode = "user"
    BY <1>a, <2>1 DEF StackInv, Inv
  <2>3. SetEax(SubSeq(s, Len(s) - 14, Len(s)), "result") = x
    <3>1. SubSeq(s, Len(s) - 14, Len(s)) = Saved("syscall", active, prog[active], pid[active])
      BY <1>a, <2>2, LeaveMmap, Zenon
    <3>2. SetEax(Saved("syscall", active, prog[active], pid[active]), "result") = x
      <4>1. "result" \in {"child", "zero", "result"}
        OBVIOUS
      <4> QED
        BY <1>b, <1>c, <2>2, <4>1, Zenon
    <3> QED
      BY <3>1, <3>2, Zenon
  <2>4. cpu' = l.cpu /\ kst' = [kst EXCEPT ![active] = l.kst]
    BY <1>12, <2>2, <2>3, Zenon DEF MmapReturns
  <2> HIDE DEF r
  <2>5. l.cpu = Context(active, r) /\ l.kst = Base(active)
    BY <1>b, <1>d, <2>1, Zenon
  <2> HIDE DEF s, x, l
  <2>6. cpu' = Context(active, r) /\ kst' = [kst EXCEPT ![active] = Base(active)] /\ depth' = 0
    BY <2>1, <2>2, <2>4, <2>5, Depths
  <2>7. UNCHANGED <<live, pid, active>> /\ mode' = "user"
    BY <2>1, <2>2 DEF schedVars
  <2> QED
    BY <1>0, <1>a, <2>1, <2>6, <2>7, ReturnStep
<1>13. CASE Panic
  <2>1. /\ UNCHANGED <<live, pid, active, prog, cpu, kst, depth, where>> /\ where = "program"
        /\ \/ mode = "user" /\ mode' = "nomem"
           \/ mode = "switched" /\ mode' = "toolarge"
    BY <1>13 DEF Panic, ForkFails, ResumePanics, isrVars
  <2>2. IsrTypeOK' /\ PidInv'
    BY <1>a, <2>1 DEF IsrTypeOK, PidInv
  <2>3. \A p : Suspended(p) => Suspended(p)'
    BY <2>1 DEF Suspended
  <2>4. StackInv'
    BY <1>a, <2>1, <2>3 DEF StackInv
  <2> QED
    BY <1>0, <1>a, <2>1, <2>2, <2>3, <2>4 DEF Inv
<1>14. CASE Spinning \/ UNCHANGED vars
  <2>1. UNCHANGED <<live, pid, active, mode, prog, cpu, kst, depth, where>>
    BY <1>14 DEF Spinning, Halted, vars, schedVars, isrVars
  <2>2. IsrTypeOK' /\ PidInv'
    BY <1>a, <2>1 DEF IsrTypeOK, PidInv
  <2>3. \A p : Suspended(p) => Suspended(p)'
    BY <2>1 DEF Suspended
  <2>4. StackInv'
    BY <1>a, <2>1, <2>3 DEF StackInv
  <2> QED
    BY <1>0, <1>a, <2>1, <2>2, <2>3, <2>4 DEF Inv
<1> QED
  BY <1>1, <1>2, <1>3, <1>4, <1>5, <1>6, <1>7, <1>8, <1>10, <1>11, <1>12, <1>13, <1>14 DEF Next

\* The invariant holds in every reachable state.
THEOREM Invariance == Spec => []Inv
BY InitInv, NextInv, PTL DEF Spec

\* Whatever runs in between, a program that runs has the registers, segments
\* and stack it was interrupted with (isrs.asm:22-108, scheduler.c:57-70).
THEOREM RestoresContextTheorem == Spec => []RestoresContext
<1>1. Inv => RestoresContext
  BY DEF Inv, StackInv, RestoresContext, Interruptible
<1> QED
  BY <1>1, Invariance, PTL

\* A fault in kernel mode goes back to mmap() with its registers, above the
\* frame by which the system call returns: what depad takes without a pad is
\* at least not that (isrs.asm:33-34, 41-42, 85-108).
THEOREM MmapGoesOnTheorem == Spec => []MmapGoesOn
<1>1. Inv => MmapGoesOn
  <2> SUFFICES ASSUME Inv, where = "mmap" PROVE MmapGoesOn
    BY DEF MmapGoesOn
  <2> DEFINE p == active
             r == prog[active]
             s == kst[active]
             f == Regs(r) \o Stub("syscall") \o Return(p, r) \o UserStack(p, r)
  <2>1. /\ p \in Procs \ {Idle} /\ r \in Registers /\ pid[p] # 0
        /\ s = Clipped(p, r, pid[p]) /\ cpu = InMmap(p)
    BY PidOf DEF Inv, SchedInv, SchedTypeOK, IsrTypeOK, StackInv
  <2>2. SubSeq(s, Len(s) - 14, Len(s)) = Saved("syscall", p, r, pid[p])
    BY <2>1, LeaveMmap, Zenon
  <2>3. Saved("syscall", p, r, pid[p]) = f \o <<>>
    BY <2>1 DEF Saved, Enter, Context, Base
  <2>4. f \in Seq(Word)
    <3>1. /\ Regs(r) \in Seq(Word) /\ Stub("syscall") \in Seq(Word)
          /\ Return(p, r) \in Seq(Word) /\ UserStack(p, r) \in Seq(Word)
      BY <2>1, FrameParts DEF Vectors
    <3> HIDE DEF p, r
    <3>2. Regs(r) \o Stub("syscall") \in Seq(Word)
      BY <3>1, ConcatProperties
    <3>3. (Regs(r) \o Stub("syscall")) \o Return(p, r) \in Seq(Word)
      BY <3>1, <3>2, ConcatProperties
    <3> QED
      BY <3>1, <3>3, ConcatProperties
  <2>5. f \o <<>> = f
    <3> HIDE DEF f
    <3> QED
      BY <2>4, ConcatEmptySeq
  <2> QED
    BY <2>1, <2>2, <2>3, <2>5, Zenon DEF MmapGoesOn
<1> QED
  BY <1>1, Invariance, PTL

\* int_depth, counted up on one stack and down on another, is the number of
\* handlers on the stack in use (isrs.asm:31, 55).
THEOREM DepthExactTheorem == Spec => []DepthExact
<1> DEFINE V(f) == {i \in DOMAIN f : f[i][1] = "vector"}
<1>1. ASSUME NEW f \in Seq(Word), NEW I, VectorsAt(f, I), I \subseteq 1..Len(f) PROVE V(f) = I
  <2>1. DOMAIN f = 1..Len(f)
    BY LenProperties
  <2> QED
    BY <1>1, <2>1 DEF VectorsAt
<1>2. Inv => DepthExact
  <2> SUFFICES ASSUME Inv PROVE DepthExact
    OBVIOUS
  <2>1. /\ StackInv /\ active \in Procs /\ prog[active] \in Registers /\ (pid[active] = 0 <=> active = Idle)
        /\ mode \in {"user", "switched", "nomem", "toolarge"} /\ where \in {"program", "fault", "mmap"}
        /\ (where # "program" => mode = "user" /\ active # Idle)
    BY PidOf DEF Inv, SchedInv, SchedTypeOK, IsrTypeOK, Panics
  <2> HIDE DEF V
  <2>2. CASE mode \in {"user", "nomem"} /\ where = "program"
    <3>1. depth = 0 /\ kst[active] = Base(active)
      BY <2>1, <2>2 DEF StackInv
    <3>2. Base(active) \in Seq(Word) /\ NoVector(Base(active))
      BY <2>1, FrameParts, PartVectors DEF Vectors
    <3>3. V(kst[active]) = {}
      <4>1. VectorsAt(kst[active], {}) /\ {} \subseteq 1..Len(kst[active])
        BY <3>1, <3>2 DEF VectorsAt, NoVector
      <4> QED
        BY <1>1, <3>1, <3>2, <4>1
    <3> QED
      BY <3>1, <3>3, FS_EmptySet DEF DepthExact, V
  <2>3. CASE mode \in {"switched", "toolarge"}
    <3>1. depth = 1 /\ Suspended(active)
      BY <2>1, <2>3 DEF StackInv
    <3>2. PICK v \in Vectors : kst[active] = Saved(v, active, prog[active], pid[active])
      BY <3>1 DEF Suspended
    <3>3. kst[active] \in Seq(Word) /\ 9 <= Len(kst[active]) /\ VectorsAt(kst[active], {9})
      BY <2>1, <3>2, SavedVectors
    <3>4. V(kst[active]) = {9}
      <4>1. {9} \subseteq 1..Len(kst[active])
        BY <3>3, LenProperties
      <4> QED
        BY <1>1, <3>3, <4>1
    <3> QED
      BY <3>1, <3>4, FS_Singleton DEF DepthExact, V
  <2>4. CASE where = "fault"
    <3>1. depth = 2 /\ kst[active] = Faulted(active, prog[active], pid[active])
      BY <2>1, <2>4 DEF StackInv
    <3>2. /\ kst[active] \in Seq(Word) /\ Len(kst[active]) = MmapWords + 28
          /\ VectorsAt(kst[active], {9, MmapWords + 22})
      <4>1. active \in Procs \ {Idle} /\ pid[active] # 0
        BY <2>1, <2>4
      <4> DEFINE g == Faulted(active, prog[active], pid[active])
      <4>2. g \in Seq(Word) /\ Len(g) = MmapWords + 28 /\ VectorsAt(g, {9, MmapWords + 22})
        BY <2>1, <4>1, FaultVectors
      <4> HIDE DEF g
      <4>3. kst[active] = g
        BY <3>1 DEF g
      <4> QED
        BY <4>2, <4>3
    <3>3. V(kst[active]) = {9, MmapWords + 22}
      <4>1. {9, MmapWords + 22} \subseteq 1..Len(kst[active])
        BY <3>2, MmapWordsAssumption
      <4> QED
        BY <1>1, <3>2, <4>1
    <3>4. Cardinality({9, MmapWords + 22}) = 2
      <4>1. {9, MmapWords + 22} = {9} \cup {MmapWords + 22} /\ MmapWords + 22 \notin {9}
        BY MmapWordsAssumption
      <4>2. IsFiniteSet({9}) /\ Cardinality({9}) = 1
        BY FS_Singleton
      <4>3. Cardinality({9} \cup {MmapWords + 22}) = 1 + 1
        BY <4>1, <4>2, FS_AddElement
      <4> QED
        BY <4>1, <4>3
    <3> QED
      BY <3>1, <3>3, <3>4 DEF DepthExact, V
  <2>5. CASE where = "mmap"
    <3>1. depth = 1 /\ kst[active] = Clipped(active, prog[active], pid[active])
      BY <2>1, <2>5 DEF StackInv
    <3>2. /\ kst[active] \in Seq(Word) /\ Len(kst[active]) = MmapWords + 13
          /\ VectorsAt(kst[active], {MmapWords + 7})
      <4>1. active \in Procs \ {Idle} /\ pid[active] # 0
        BY <2>1, <2>5
      <4> DEFINE g == Clipped(active, prog[active], pid[active])
      <4>2. g \in Seq(Word) /\ Len(g) = MmapWords + 13 /\ VectorsAt(g, {MmapWords + 7})
        BY <2>1, <4>1, ClippedStack
      <4> HIDE DEF g
      <4>3. kst[active] = g
        BY <3>1 DEF g
      <4> QED
        BY <4>2, <4>3
    <3>3. V(kst[active]) = {MmapWords + 7}
      <4>1. {MmapWords + 7} \subseteq 1..Len(kst[active])
        BY <3>2, MmapWordsAssumption
      <4> QED
        BY <1>1, <3>2, <4>1
    <3> QED
      BY <3>1, <3>3, FS_Singleton DEF DepthExact, V
  <2> QED
    BY <2>1, <2>2, <2>3, <2>4, <2>5
<1> QED
  BY <1>2, Invariance, PTL

\* The kernel with its interrupts is a scheduler, so that everything proved
\* about the scheduler holds of it.
THEOREM ImplementsScheduler == Spec => SchedSpec
<1>1. Init => SchedInit
  BY DEF Init
<1> QED
  BY <1>1, StepImplements, PTL DEF Spec, SchedSpec
=============================================================================
