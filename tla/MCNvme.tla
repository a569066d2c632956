------------------------------- MODULE MCNvme -------------------------------
(* Nvme with a queue of 6 commands, two more than its page holds. *)
EXTENDS Nvme
=============================================================================
