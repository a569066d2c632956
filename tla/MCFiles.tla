------------------------------ MODULE MCFiles ------------------------------
(* Files with tables of three entries, for a process and two children. *)
EXTENDS Files, TLC

\* All children have pid 2 and are alike.
Children == Permutations(Procs \ {InitProc})
=============================================================================
