------------------------------ MODULE MCKHeap ------------------------------
(* KHeap with three slots and six frames in words of two bits. *)
EXTENDS KHeap

=============================================================================
