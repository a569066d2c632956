----------------------------- MODULE MCTerminal -----------------------------
(* Terminal with two user processes; the bounds are in the configurations. *)
EXTENDS Terminal

=============================================================================
