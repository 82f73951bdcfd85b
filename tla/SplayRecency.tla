---------------------------- MODULE SplayRecency ----------------------------
(***************************************************************************)
(* Splay with the order in which its pages were last accessed, to compare  *)
(* the page it evicts with the one an LRU would evict.                     *)
(***************************************************************************)
EXTENDS Splay, Sequences, SequencesExt

VARIABLE recency   \* the pages of the tree, the one accessed last in front

recencyVars == <<vars, recency>>

\* An access moves its page to the front; an eviction takes its victim out.
Track ==
    recency' = IF Accessed THEN <<answer'.page>> \o Remove(recency, answer'.page)
               ELSE IF answer'.op = "evict" THEN Remove(recency, answer'.page)
               ELSE recency

RecencyInit == Init /\ recency = <<>>

RecencyNext == Next /\ Track

RecencySpec == RecencyInit /\ [][RecencyNext]_recencyVars

\* The documents say that the deepest leaf, the victim, "por construcao" is the
\* page accessed least recently.
VictimIsColdest ==
    [][answer'.op = "evict" /\ recency # <<>>
         => answer'.page = Last(recency)]_recencyVars
=============================================================================
