------------------------------ MODULE MCLookup ------------------------------
(* Lookup in a small tree: /dev/tty, /dev/nvme5, /mnt (on disk) with the files *)
(* shell and readme and the directory bin, which holds ls. *)
EXTENDS Lookup, TLC

CONSTANTS dev, tty, nvme5, mnt, shell, readme, bin, ls, other

MCKids == (Root :> <<mnt, dev>>) @@ (dev :> <<tty, nvme5>>)
          @@ (mnt :> <<readme, shell, bin>>) @@ (bin :> <<ls>>)
MCNames == {Root, dev, tty, nvme5, mnt, shell, readme, bin, ls, other}

\* Paths to what is at most one level below a mount point, and wrong ones.
FlatPaths == {<<dev, tty>>, <<mnt, shell>>, <<mnt, bin>>, <<dev, other>>, <<dev, tty, ls>>,
              <<mnt, other>>, <<mnt, bin, other>>}
DeepPaths == {<<mnt, bin, ls>>}
=============================================================================
