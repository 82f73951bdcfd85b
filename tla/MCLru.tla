-------------------------------- MODULE MCLru --------------------------------
(* Lru with three buckets: pages 0, 3 and 6 share one.                     *)
EXTENDS Lru

MCPage == {0, 1, 3, 6}
MCFrameId == {0, 1}
=============================================================================
