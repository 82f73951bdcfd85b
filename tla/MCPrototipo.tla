---------------------------- MODULE MCPrototipo ----------------------------
(* Prototipo on a handful of pages.                                        *)
EXTENDS Prototipo

MCPage == 0 .. 3
MCDados == {"a"}

\* With so few accesses the doubles are exact: these are their scores times 12.
MCScore == [p \in 0 .. 4 |-> [a \in 0 .. MaxAcessos |-> 12 * p + 48 \div (a + 1)]]

\* A cache with room for every page evicts none, and only an eviction looks at
\* the policy: one stands for the three.  LRU does not look at the counters, LFU
\* tells fewer from more; the score of HIBRIDA is the same for one access and
\* for three a level below.
Contados == [LRU_PROFUNDIDADE |-> 1, LFU |-> 2, HIBRIDA |-> 3]

UmaPolitica ==
    /\ capacidade = Cardinality(Page) => politica = "LRU_PROFUNDIDADE"
    /\ \A p \in Page : no[p].acessos <= Contados[politica]
=============================================================================
