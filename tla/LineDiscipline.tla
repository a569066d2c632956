--------------------------- MODULE LineDiscipline ---------------------------
(***************************************************************************)
(* What a terminal promises the processes that read from it: the keys typed*)
(* since the last line are the line being edited; Enter closes the line and*)
(* gives it, with its terminating NUL, to the process that has waited      *)
(* longest; each read gets exactly one line. An Enter nobody waits for is  *)
(* ignored, and a line handed over is no longer the typist's to edit.      *)
(***************************************************************************)
EXTENDS Integers, Sequences

CONSTANTS Procs, Chars, Nul

VARIABLES
    readers,    \* processes waiting for a line, first come first
    edit,       \* the line being edited
    handed,     \* handed[p]: lines handed to p and not yet read by it
    got         \* got[p]: the last line a read of p returned

lineVars == <<readers, edit, handed, got>>

LineInit ==
    /\ readers = <<>>
    /\ edit = <<>>
    /\ handed = [p \in Procs |-> {}]
    /\ got = [p \in Procs |-> <<>>]

Wait(p) ==
    /\ \A i \in DOMAIN readers : readers[i] # p
    /\ handed[p] = {}
    /\ readers' = Append(readers, p)
    /\ UNCHANGED <<edit, handed, got>>

Insert(c) ==
    /\ edit' = Append(edit, c)
    /\ UNCHANGED <<readers, handed, got>>

Erase ==
    /\ edit # <<>>
    /\ edit' = SubSeq(edit, 1, Len(edit) - 1)
    /\ UNCHANGED <<readers, handed, got>>

Clear ==
    /\ edit' = <<>>
    /\ UNCHANGED <<readers, handed, got>>

HandOver ==
    /\ readers # <<>>
    /\ handed' = [handed EXCEPT ![Head(readers)] = {Append(edit, Nul)}]
    /\ readers' = Tail(readers)
    /\ edit' = <<>>
    /\ UNCHANGED got

Deliver(p) ==
    \E line \in handed[p] :
        /\ got' = [got EXCEPT ![p] = line]
        /\ handed' = [handed EXCEPT ![p] = {}]
        /\ UNCHANGED <<readers, edit>>

LineNext ==
    \/ \E p \in Procs : Wait(p) \/ Deliver(p)
    \/ \E c \in Chars : Insert(c)
    \/ Erase \/ Clear \/ HandOver

LineSpec == LineInit /\ [][LineNext]_lineVars
=============================================================================
