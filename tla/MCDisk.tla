------------------------------- MODULE MCDisk -------------------------------
(* Small instances of Disk for TLC: the offset of the last page is negative. *)
EXTENDS Disk

MCPage == 0 .. 2
MCUnit == 0 .. 2
MCData == {[i \in Index |-> 1 + (i % 2)]}
=============================================================================
