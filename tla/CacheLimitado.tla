---------------------------- MODULE CacheLimitado ----------------------------
(***************************************************************************)
(* What the prototype's cache promises (src/docs/prototipo-splay.c, the    *)
(* comments of inserirPagina, buscarPagina and removerPagina): a map from  *)
(* pages to data that never holds more than its capacity, and that gives   *)
(* up one other page, whichever the policy prefers, only when it is full   *)
(* and the page is new.                                                    *)
(***************************************************************************)
EXTENDS Integers, FiniteSets

CONSTANTS
    Page,        \* the ids of the pages
    Dados,       \* what a caller can store in a page
    Vazio,       \* the contents of a page stored without data
    NULL         \* no data: keep what the page has

VARIABLES
    mapa,        \* mapa[p]: the data of page p, or Ausente
    capacidade,  \* 0 when there is no cache
    resposta     \* what the last call answered

vars == <<mapa, capacidade, resposta>>

Ausente == "ausente"

Tem(p) == mapa[p] # Ausente

Presentes == {p \in Page : Tem(p)}

Responde(op, p, achou) == resposta' = [op |-> op, id |-> p, achou |-> achou]

Init ==
    /\ mapa = [p \in Page |-> Ausente]
    /\ capacidade = 0
    /\ resposta = [op |-> "nenhuma", id |-> 0, achou |-> FALSE]

criar ==
    /\ capacidade = 0
    /\ capacidade' \in Nat \ {0}
    /\ Responde("criar", 0, FALSE)
    /\ UNCHANGED mapa

buscar(p) ==
    /\ capacidade > 0
    /\ Responde("buscar", p, Tem(p))
    /\ UNCHANGED <<mapa, capacidade>>

\* A page that is there keeps what it has when no data comes with the call.
inserirExistente(p, d) ==
    /\ Tem(p)
    /\ mapa' = IF d = NULL THEN mapa ELSE [mapa EXCEPT ![p] = d]

\* At most one page goes: none as long as there is room.
inserirNova(p, d) ==
    LET aqui == Presentes IN
    /\ p \notin aqui
    /\ \E ficam \in IF Cardinality(aqui) < capacidade THEN {aqui}
                     ELSE {aqui \ {v} : v \in aqui} :
         mapa' = [q \in Page |-> IF q = p THEN (IF d = NULL THEN Vazio ELSE d)
                                 ELSE IF q \in ficam THEN mapa[q] ELSE Ausente]

inserir(p, d) ==
    /\ capacidade > 0
    /\ Responde("inserir", p, Tem(p))
    /\ inserirExistente(p, d) \/ inserirNova(p, d)
    /\ UNCHANGED capacidade

remover(p) ==
    /\ capacidade > 0
    /\ Responde("remover", p, Tem(p))
    /\ mapa' = [mapa EXCEPT ![p] = Ausente]
    /\ UNCHANGED capacidade

liberar ==
    /\ capacidade > 0
    /\ capacidade' = 0
    /\ mapa' = [p \in Page |-> Ausente]
    /\ Responde("liberar", 0, FALSE)

Next ==
    \/ criar
    \/ \E p \in Page : buscar(p) \/ remover(p)
    \/ \E p \in Page, d \in Dados \cup {NULL} : inserir(p, d)
    \/ liberar

Spec == Init /\ [][Next]_vars
=============================================================================
