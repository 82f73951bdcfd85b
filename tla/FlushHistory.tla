--------------------------- MODULE FlushHistory ---------------------------
(***************************************************************************)
(* PageCache with a history variable for what a pc_flush owes its caller.  *)
(* pc_flush locks the shards one after the other, while other threads go   *)
(* on writing, evicting and flushing: when it returns, the cache may well  *)
(* be dirty again.  What the caller can count on is about the pages that   *)
(* were not on disk when it called.                                        *)
(***************************************************************************)
EXTENDS PageCache

VARIABLE owed   \* owed[t]: the pages t's pc_flush has still to get to disk

hvars == <<vars, owed>>

\* The pages whose contents are not the file's.
Unsaved == {p \in Page : Content(p) # disk[p]}

FlushCalled(t) == call[t].op # "flush" /\ call'[t].op = "flush"

\* Every page not on disk when the flush is called is owed, until an instant
\* at which the file holds its contents, whoever wrote it there.
Owe == owed' = [t \in Thread |->
                  (IF FlushCalled(t) THEN Unsaved ELSE owed[t]) \cap Unsaved']

HistoryInit == Init /\ owed = [t \in Thread |-> {}]
HistoryNext == Next /\ Owe
HistorySpec == HistoryInit /\ [][HistoryNext]_hvars

\* A pc_flush that answers 0 has put every page that was dirty when it was
\* called on disk: "Grava no disco todas as paginas sujas ... 0 ok, -1 erro"
\* (include/page_cache.h).
FlushDurable ==
    \A t \in Thread :
        pc[t] = "done" /\ call[t].op = "flush" /\ call[t].rc = 0
            => owed[t] = {}
===========================================================================
