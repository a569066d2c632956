-------------------------- MODULE MCAddressSpaces --------------------------
(* AddressSpaces; frames are interchangeable. *)
EXTENDS AddressSpaces, TLC

FrameSymmetry == Permutations(Frames)
=============================================================================
