------------------------------ MODULE MCStage2 ------------------------------
(* Tables of three entries around a few pages of four bytes: entries that lie  *)
(* between two page boundaries, that reach beyond a pointer, and that wrap are *)
(* among them. ELF files of one to three sectors of two bytes: not a whole     *)
(* number of sectors, a whole number of sectors and of pages, with a part to   *)
(* be cleared, and one that lies across the end of the track.                  *)
EXTENDS Stage2

Elf(at, offset, filesz, memsz) == [base |-> at, p_offset |-> offset, p_filesz |-> filesz, p_memsz |-> memsz]
MCHeaders == {Elf(2, 2, 3, 3), Elf(1, 4, 4, 4), Elf(2, 2, 4, 7), Elf(4, 4, 5, 8)}
=============================================================================
