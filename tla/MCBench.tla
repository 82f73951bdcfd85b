------------------------------ MODULE MCBench ------------------------------
(* Small instances of Bench for TLC: main and two threads.                 *)
EXTENDS Bench

MCThread == -1 .. 1
MCPage == {0, 1, 2}
MCRequested == {0, 1, 3}
=============================================================================
