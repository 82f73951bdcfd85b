--------------------------- MODULE MCSplayRecency ---------------------------
(* SplayRecency on three pages, enough for a tree whose deepest leaf is not *)
(* the page accessed least recently.                                       *)
EXTENDS SplayRecency

MCPage == 0 .. 2
MCFrameId == {0}
=============================================================================
