---------------------------- MODULE MCPageCache ----------------------------
(* Small instances of PageCache for TLC.                                   *)
EXTENDS PageCache, TLC

MCPage  == 0 .. 2
MCPage4 == {0, 1, 2, 4}

\* Threads are interchangeable, and so are the contents of blocks.
MCSymmetry == Permutations(Thread) \cup Permutations(Block)
=============================================================================
