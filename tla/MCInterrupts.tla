---------------------------- MODULE MCInterrupts ----------------------------
(* Interrupts with a ring of at most four processes. *)
EXTENDS Interrupts

=============================================================================
