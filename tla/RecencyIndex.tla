---------------------------- MODULE RecencyIndex ----------------------------
(***************************************************************************)
(* What lru.h promises on top of FrameIndex: the pages are kept in the     *)
(* order of their last use, and the victim is the one used least recently. *)
(***************************************************************************)
EXTENDS FrameIndex, Sequences, SequencesExt

VARIABLE recency   \* the pages of the map, the one used last in front

recencyVars == <<vars, recency>>

\* The order without p, whose place is the only one.
Without(p) ==
    IF \E i \in DOMAIN recency : recency[i] = p
    THEN RemoveAt(recency, CHOOSE i \in DOMAIN recency : recency[i] = p)
    ELSE recency

\* A page that is in the map after the call moves to the front.
Uses(p) ==
    recency' = IF map'[p] # NotFound THEN <<p>> \o Without(p) ELSE recency

RecencyInit == Init /\ recency = <<>>

RecencyNext ==
    \/ \E p \in Page : lookup(p) /\ Uses(p)
    \/ \E p \in Page, f \in FrameId : insert(p, f) /\ Uses(p)
    \/ recency # <<>> /\ evict_victim(Last(recency)) /\ recency' = Front(recency)
    \/ evict_empty /\ UNCHANGED recency

RecencySpec == RecencyInit /\ [][RecencyNext]_recencyVars
=============================================================================
