-------------------------- MODULE MCFlushHistory --------------------------
(* Small instances of FlushHistory for TLC.                                *)
EXTENDS FlushHistory, TLC

MCPage == 0 .. 2

\* Threads are interchangeable, and so are the contents of blocks.
MCSymmetry == Permutations(Thread) \cup Permutations(Block)
===========================================================================
