------------------------------- MODULE MCSplay -------------------------------
(* Splay on a handful of pages.                                            *)
EXTENDS Splay

MCPage == 0 .. 4
MCFrameId == {0, 1}
=============================================================================
