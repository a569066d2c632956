------------------------------ MODULE MCMalloc ------------------------------
(* Malloc with a heap of a few dozen words. *)
EXTENDS Malloc
=============================================================================
