------------------------------ MODULE Prototipo ------------------------------
(***************************************************************************)
(* The prototype that came before the library, a program of its own        *)
(* (src/docs/prototipo-splay.c): a splay tree whose nodes hold the pages   *)
(* themselves, and a cache over it that evicts by depth (LRU), by a        *)
(* counter of accesses (LFU), or by a score of both (HIBRIDA).             *)
(*                                                                         *)
(* It has one thread: every call is one step.  A node is named by its      *)
(* page, which Inteira and Ordenada, that hold before each call, make      *)
(* unique.  malloc is taken to succeed: the program exits when it fails.   *)
(***************************************************************************)
EXTENDS Integers, FiniteSets, Sequences, Functions

CONSTANTS
    Page,         \* the ids of the pages
    Dados,        \* what a caller can store in a page
    Vazio,        \* the contents of a page stored without data
    NULL,         \* the null pointer to data
    Capacidades,  \* the capacities a cache is created with
    MaxAcessos,   \* bound: the accesses counted in a node
    Score         \* Score[prof][acessos]: the double that the hybrid score
                  \*   rounds to, as its rank among the doubles

\* An int: there are finitely many.
ASSUME PageAssumption == Page \subseteq Nat /\ IsFiniteSet(Page)
ASSUME DadosAssumption == NULL \notin Dados \cup {Vazio} /\ "ausente" \notin Dados \cup {Vazio}
ASSUME CapacidadeAssumption == Capacidades \subseteq Nat \ {0}
ASSUME BoundAssumption == MaxAcessos \in Nat \ {0}

\* prof * PESO_PROF + (1.0 / (acessos + 1)) * PESO_LFU with the weights 1.0 and
\* 4.0 is, for (p, a), greater than for (q, b) by more than 1 / 2^20.
ScoreAcima(p, a, q, b) ==
    LET x == a + 1
        y == b + 1
    IN  ((p * x + 4) * y - (q * y + 4) * x) * 1048576 > x * y

\* Rounding keeps the order of scores that are so far apart: the products are
\* exact, and a sum with an int, below 2^31, is rounded by 1 / 2^22 at most.
\* Those that are closer, or equal, may be ordered in any way.
ASSUME ScoreAssumption ==
    /\ Score \in [0 .. Cardinality(Page) -> [0 .. MaxAcessos -> Int]]
    /\ \A p, q \in 0 .. Cardinality(Page), a, b \in 0 .. MaxAcessos :
          ScoreAcima(p, a, q, b) => Score[p][a] > Score[q][b]

VARIABLES
    raiz,        \* cache->raiz
    no,          \* no[p]: the No of page p, Livre if it has none
    tamanho,     \* cache->tamanho, capacidade and politica; capacidade is 0
    capacidade,  \*   when there is no cache
    politica,
    stats,       \* what the last call added to the global counters
    resposta     \* what the last call answered

cache == <<raiz, no, tamanho, capacidade, politica>>
vars == <<cache, stats, resposta>>

Nulo == -1

PoliticaEviction == {"LRU_PROFUNDIDADE", "LFU", "HIBRIDA"}

No == [acessos: 0 .. MaxAcessos, esq: Page \cup {Nulo}, dir: Page \cup {Nulo},
       pai: Page \cup {Nulo}, dados: Dados \cup {Vazio, NULL}]

\* No node: its data is what no page holds.
Livre == [acessos |-> 0, esq |-> Nulo, dir |-> Nulo, pai |-> Nulo, dados |-> NULL]

Vivos == {p \in Page : no[p].dados # NULL}

\* A tree as a value, with the rotations that the call has counted: what the
\* functions that take a No **raiz work on.
Arvore == [raiz: Page \cup {Nulo}, no: [Page -> No], rotacoes: Nat]
Esta == [raiz |-> raiz, no |-> no, rotacoes |-> 0]

-----------------------------------------------------------------------------
(* Rotations and splay.                                                    *)

\* Node q, one of those in n, once the child y of x has taken the place of x
\* below pai, and the subtree B between them has gone over to x: to the right,
\* if y was the left child.
Girado(n, q, x, y, pai, B, direita) ==
    IF q = y THEN IF direita THEN [n[y] EXCEPT !.dir = x, !.pai = pai]
                  ELSE [n[y] EXCEPT !.esq = x, !.pai = pai]
    ELSE IF q = x THEN IF direita THEN [n[x] EXCEPT !.esq = B, !.pai = y]
                       ELSE [n[x] EXCEPT !.dir = B, !.pai = y]
    ELSE IF q = B THEN [n[q] EXCEPT !.pai = x]
    ELSE IF q = pai /\ n[pai].esq = x THEN [n[pai] EXCEPT !.esq = y]
    ELSE IF q = pai /\ n[pai].dir = x THEN [n[pai] EXCEPT !.dir = y]
    ELSE n[q]

\* Without a child to take up there is no rotation.
rotacao(t, x, direita) ==
    LET y == IF direita THEN t.no[x].esq ELSE t.no[x].dir
        B == IF direita THEN t.no[y].dir ELSE t.no[y].esq
    IN  IF y = Nulo THEN t
        ELSE [raiz |-> t.raiz, rotacoes |-> t.rotacoes + 1,
              no |-> [q \in Page |-> Girado(t.no, q, x, y, t.no[x].pai, B, direita)]]

rotacaoDireita(t, x) == rotacao(t, x, TRUE)

\* Mutant: stats.rotacoes counts the rotations to the right only.
rotacaoEsquerdaSemContar(t, x) ==
    [rotacao(t, x, FALSE) EXCEPT !.rotacoes = t.rotacoes]

rotacaoEsquerda(t, x) == rotacao(t, x, FALSE)

\* Which child of its parent x is.
EhEsquerdo(t, x) == t.no[t.no[x].pai].esq = x

\* The rotation around node a that takes up its child c.
Sobe(t, a, c) == IF t.no[a].esq = c THEN rotacaoDireita(t, a) ELSE rotacaoEsquerda(t, a)

\* The parent of x is the root.
splayZig(t, x) == [Sobe(t, t.no[x].pai, x) EXCEPT !.raiz = x]

\* *raiz = x, if the grandparent that x has replaced was the root.
NovaRaiz(t, avoEraRaiz, x) == IF avoEraRaiz THEN [t EXCEPT !.raiz = x] ELSE t

\* Opposite directions: first around the parent, then around the grandparent.
splayZigZag(t, x) ==
    LET pai == t.no[x].pai
        avo == t.no[pai].pai
    IN  NovaRaiz(Sobe(Sobe(t, pai, x), avo, x), t.no[avo].pai = Nulo, x)

\* Same direction: first around the grandparent, then around the parent.
splayZigZig(t, x) ==
    LET pai == t.no[x].pai
        avo == t.no[pai].pai
    IN  NovaRaiz(Sobe(Sobe(t, avo, pai), pai, x), t.no[avo].pai = Nulo, x)

\* One round of the loop of splay.
Rodada(t, x) ==
    LET pai == t.no[x].pai IN
    IF t.no[pai].pai = Nulo THEN splayZig(t, x)
    ELSE IF EhEsquerdo(t, x) = EhEsquerdo(t, pai) THEN splayZigZig(t, x)
    ELSE splayZigZag(t, x)

\* The loop ends when x has no parent.  Every round brings more pages below x, so
\* that there are fewer rounds than pages.
splay(t, x) ==
    LET sobe[k \in Nat] ==
            IF k = 0 THEN t
            ELSE LET u == sobe[k - 1] IN
                 IF u.no[x].pai = Nulo THEN u ELSE Rodada(u, x)
    IN  [sobe[Cardinality(Page)] EXCEPT !.raiz = x]

-----------------------------------------------------------------------------
(* Searching and walking the tree t.                                       *)

\* Where prox leads from node q, time after time: in a tree, to the node at which
\* it stays.
Andar(prox, q) ==
    LET onde[k \in Nat] == IF k = 0 THEN q ELSE prox[onde[k - 1]] IN onde

\* The pointer that a walk follows, unless it is null.
Ou(ponteiro, q) == IF ponteiro = Nulo THEN q ELSE ponteiro

Filho(t, q, id) == IF id < q THEN t.no[q].esq ELSE t.no[q].dir

\* The node the search for id ends at: id's own, or else the last one visited.
Fim(t, id) ==
    LET prox == [q \in Page |-> IF q = id THEN q ELSE Ou(Filho(t, q, id), q)]
    IN  IF t.raiz = Nulo THEN Nulo ELSE Andar(prox, t.raiz)[Cardinality(Page)]

buscar(t, id) == Fim(t, id) = id

\* The nodes below q in preorder, each with its depth: the order in which the
\* recursive searches for a victim, and liberarArvore, visit them.
Percurso(t, q) ==
    LET visita[k \in Nat] ==
            LET abaixo == visita[k - 1] IN
            [r \in Page \cup {Nulo} |->
               IF k = 0 \/ r = Nulo THEN <<>>
               ELSE <<[id |-> r, prof |-> Cardinality(Page) - k]>>
                    \o abaixo[t.no[r].esq] \o abaixo[t.no[r].dir]]
    IN  visita[Cardinality(Page)][q]

Abaixo(t, q) == {v.id : v \in Range(Percurso(t, q))}

maximo(t, q) == Andar([r \in Page |-> Ou(t.no[r].dir, r)], q)[Cardinality(Page)]

-----------------------------------------------------------------------------
(* The operations of the tree.                                             *)

\* A search that fails splays the last node it visited.
buscarSplay(t, id) == IF t.raiz = Nulo THEN t ELSE splay(t, Fim(t, id))

\* What buscarSplay adds to buscas, hits and misses.
Contagem(t, id) ==
    IF t.raiz = Nulo THEN [buscas |-> 0, hits |-> 0, misses |-> 0]
    ELSE IF buscar(t, id) THEN [buscas |-> 1, hits |-> 1, misses |-> 0]
    ELSE [buscas |-> 1, hits |-> 0, misses |-> 1]

\* criarNo for page id below node q, or alone.
Pendura(t, id, q, dados) ==
    LET novo == [Livre EXCEPT !.pai = q, !.dados = IF dados = NULL THEN Vazio ELSE dados]
        lado == IF id < q THEN "esq" ELSE "dir"
    IN  [t EXCEPT !.raiz = IF q = Nulo THEN id ELSE @,
                  !.no = [r \in Page |-> IF r = id THEN novo
                                         ELSE IF r = q THEN [@[r] EXCEPT ![lado] = id]
                                         ELSE @[r]]]

\* A page that is there is only splayed.
inserirSplay(t, id, dados) ==
    IF buscar(t, id) THEN splay(t, id)
    ELSE splay(Pendura(t, id, Fim(t, id), dados), id)

\* The two subtrees of the root become trees of their own; the root is freed.
Separa(t) ==
    LET E == t.no[t.raiz].esq
        D == t.no[t.raiz].dir
    IN  [r \in Page |-> IF r = t.raiz THEN Livre
                        ELSE IF r \in {E, D} THEN [t.no[r] EXCEPT !.pai = Nulo]
                        ELSE t.no[r]]

\* Mutant: the right subtree is joined to the root of the left one as it is.
JuntaSemSplay(t, E, D) ==
    IF E = Nulo THEN [t EXCEPT !.raiz = D]
    ELSE IF D = Nulo THEN [t EXCEPT !.raiz = E]
    ELSE [t EXCEPT !.raiz = E, !.no[E].dir = D, !.no[D].pai = E]

\* The greatest page of E, splayed to its root, has no right child: D goes
\* there.  (The assignment of NULL to the root's parent that ends the function
\* finds it NULL.)
Junta(t, E, D) ==
    IF E = Nulo THEN [t EXCEPT !.raiz = D]
    ELSE IF D = Nulo THEN [t EXCEPT !.raiz = E]
    ELSE LET m == maximo(t, E)
             u == splay([t EXCEPT !.raiz = E], m)
         IN  [u EXCEPT !.no[m].dir = D, !.no[D].pai = m]

\* The page is splayed, cut out, and its subtrees joined; if it is not there,
\* the last node visited is splayed.
removerSplay(t, id) ==
    LET u == buscarSplay(t, id) IN
    IF ~buscar(t, id) THEN u
    ELSE Junta([u EXCEPT !.no = Separa(u)], u.no[id].esq, u.no[id].dir)

-----------------------------------------------------------------------------
(* The victims.  Each search keeps the first node of the preorder than     *)
(* which no later one is worse.                                            *)

\* Mutant: among the pages accessed least, the one highest in the tree.
PiorLFURaso(t, n, m) ==
    \/ t.no[n.id].acessos < t.no[m.id].acessos
    \/ t.no[n.id].acessos = t.no[m.id].acessos /\ n.prof < m.prof

PiorLRU(t, n, m) == n.prof > m.prof

PiorLFU(t, n, m) ==
    \/ t.no[n.id].acessos < t.no[m.id].acessos
    \/ t.no[n.id].acessos = t.no[m.id].acessos /\ n.prof > m.prof

\* The scores are compared as the doubles they round to.
PiorHibrida(t, n, m) ==
    Score[n.prof][t.no[n.id].acessos] > Score[m.prof][t.no[m.id].acessos]

Pior(t, n, m) == CASE politica = "LFU"     -> PiorLFU(t, n, m)
                   [] politica = "HIBRIDA" -> PiorHibrida(t, n, m)
                   [] OTHER                -> PiorLRU(t, n, m)

Vitima(t) ==
    LET nos == Percurso(t, t.raiz)
        pior[k \in 1 .. Len(nos)] ==
            IF k = 1 THEN nos[1]
            ELSE IF Pior(t, nos[k], pior[k - 1]) THEN nos[k] ELSE pior[k - 1]
    IN  pior[Len(nos)].id

-----------------------------------------------------------------------------
(* The operations of the cache.                                            *)

Responde(op, id, achou) == resposta' = [op |-> op, id |-> id, achou |-> achou]

SemContagem == [buscas |-> 0, hits |-> 0, misses |-> 0]

Conta(c, rotacoes) ==
    stats' = [buscas |-> c.buscas, hits |-> c.hits, misses |-> c.misses,
              rotacoes |-> rotacoes]

Fica(t) == raiz' = t.raiz /\ no' = t.no

Init ==
    /\ raiz = Nulo
    /\ no = [p \in Page |-> Livre]
    /\ tamanho = 0
    /\ capacidade = 0
    /\ politica = "LRU_PROFUNDIDADE"
    /\ stats = [buscas |-> 0, hits |-> 0, misses |-> 0, rotacoes |-> 0]
    /\ resposta = [op |-> "nenhuma", id |-> 0, achou |-> FALSE]

criarCache(c, pol) ==
    /\ capacidade = 0
    /\ raiz' = Nulo
    /\ capacidade' = c
    /\ tamanho' = 0
    /\ politica' = pol
    /\ Conta(SemContagem, 0)
    /\ Responde("criar", 0, FALSE)
    /\ UNCHANGED no

buscarPagina(id) ==
    LET t == buscarSplay(Esta, id) IN
    /\ capacidade > 0
    /\ Fica(t)
    /\ Conta(Contagem(Esta, id), t.rotacoes)
    /\ Responde("buscar", id, buscar(Esta, id))
    /\ UNCHANGED <<tamanho, capacidade, politica>>

\* Mutant: a page stored again without data loses what it had.
inserirExistenteEsvazia(id, dados) ==
    LET t == splay([Esta EXCEPT
                      !.no[id].dados = IF dados = NULL THEN Vazio ELSE dados,
                      !.no[id].acessos = @ + 1], id)
    IN  /\ buscar(Esta, id)
        /\ no[id].acessos < MaxAcessos
        /\ Fica(t)
        /\ Conta(SemContagem, t.rotacoes)
        /\ UNCHANGED <<tamanho, capacidade, politica>>

\* inserirPagina of a page that is there: an access, with or without new data.
inserirExistente(id, dados) ==
    LET t == splay([Esta EXCEPT
                      !.no[id].dados = IF dados = NULL THEN @ ELSE dados,
                      !.no[id].acessos = @ + 1], id)
    IN  /\ buscar(Esta, id)
        /\ no[id].acessos < MaxAcessos
        /\ Fica(t)
        /\ Conta(SemContagem, t.rotacoes)
        /\ UNCHANGED <<tamanho, capacidade, politica>>

\* Mutant: the victim is chosen, and evicted, after the insertion.
inserirNovaDespejaDepois(id, dados) ==
    LET cheio == tamanho >= capacidade
        u == inserirSplay(Esta, id, dados)
        v == Vitima(u)
        t == IF cheio THEN removerSplay(u, v) ELSE u
    IN  /\ ~buscar(Esta, id)
        /\ Fica([t EXCEPT !.no[id].acessos = 1])
        /\ tamanho' = IF cheio THEN tamanho ELSE tamanho + 1
        /\ Conta(IF cheio THEN Contagem(u, v) ELSE SemContagem, t.rotacoes)
        /\ UNCHANGED <<capacidade, politica>>

\* inserirPagina of a new page.  despejarPagina goes through buscarSplay: every
\* eviction counts as a search and a hit.
inserirNova(id, dados) ==
    LET cheio == tamanho >= capacidade /\ raiz # Nulo
        v == Vitima(Esta)
        t == inserirSplay(IF cheio THEN removerSplay(Esta, v) ELSE Esta, id, dados)
    IN  /\ ~buscar(Esta, id)
        /\ Fica([t EXCEPT !.no[id].acessos = 1])
        /\ tamanho' = IF cheio THEN tamanho ELSE tamanho + 1
        /\ Conta(IF cheio THEN Contagem(Esta, v) ELSE SemContagem, t.rotacoes)
        /\ UNCHANGED <<capacidade, politica>>

inserirPagina(id, dados) ==
    /\ capacidade > 0
    /\ inserirExistente(id, dados) \/ inserirNova(id, dados)
    /\ Responde("inserir", id, buscar(Esta, id))

\* Mutant: the size goes down whether the page was there or not.
removerPaginaSempreConta(id) ==
    LET t == removerSplay(Esta, id) IN
    /\ capacidade > 0
    /\ Fica(t)
    /\ tamanho' = tamanho - 1
    /\ Conta(Contagem(Esta, id), t.rotacoes)
    /\ Responde("remover", id, buscar(Esta, id))
    /\ UNCHANGED <<capacidade, politica>>

removerPagina(id) ==
    LET t == removerSplay(Esta, id) IN
    /\ capacidade > 0
    /\ Fica(t)
    /\ tamanho' = IF buscar(Esta, id) THEN tamanho - 1 ELSE tamanho
    /\ Conta(Contagem(Esta, id), t.rotacoes)
    /\ Responde("remover", id, buscar(Esta, id))
    /\ UNCHANGED <<capacidade, politica>>

\* liberarArvore frees the nodes below the root, and no other.
liberarCache ==
    /\ capacidade > 0
    /\ raiz' = Nulo
    /\ no' = [p \in Page |-> IF p \in Abaixo(Esta, raiz) THEN Livre ELSE no[p]]
    /\ tamanho' = 0
    /\ capacidade' = 0
    /\ politica' = "LRU_PROFUNDIDADE"
    /\ Conta(SemContagem, 0)
    /\ Responde("liberar", 0, FALSE)

Next ==
    \/ \E c \in Capacidades, pol \in PoliticaEviction : criarCache(c, pol)
    \/ \E id \in Page : buscarPagina(id) \/ removerPagina(id)
    \/ \E id \in Page, dados \in Dados \cup {NULL} : inserirPagina(id, dados)
    \/ liberarCache

Spec == Init /\ [][Next]_vars

-----------------------------------------------------------------------------
(* Properties.                                                             *)

\* Every variable has the shape the C declarations give it; the size, an int
\* that is decremented by evictions and removals, never goes below zero, nor
\* above the capacity.
TypeOK ==
    /\ raiz \in Page \cup {Nulo}
    /\ no \in [Page -> No]
    /\ tamanho \in 0 .. capacidade
    /\ capacidade \in Capacidades \cup {0}
    /\ politica \in PoliticaEviction
    /\ stats \in [buscas: 0 .. 1, hits: 0 .. 1, misses: 0 .. 1, rotacoes: Nat]
    /\ resposta \in [op: {"nenhuma", "criar", "buscar", "inserir", "remover", "liberar"},
                     id: Nat, achou: BOOLEAN]

\* The parent pointers, which splay climbs, are the child pointers, which the
\* searches follow, read backwards.
PaisConferem ==
    \A p \in Vivos :
        /\ no[p].pai = Nulo <=> p = raiz
        /\ \A q \in Vivos : no[p].pai = q <=> no[q].esq = p \/ no[q].dir = p

\* The nodes that malloc gave and free has not taken are those below the root,
\* each once, and there are tamanho of them.
SemVazamento ==
    /\ Abaixo(Esta, raiz) = Vivos
    /\ Len(Percurso(Esta, raiz)) = Cardinality(Vivos)
    /\ tamanho = Cardinality(Vivos)

\* It is a search tree.
Ordenada ==
    \A q \in Vivos : /\ \A p \in Abaixo(Esta, no[q].esq) : p < q
                     /\ \A p \in Abaixo(Esta, no[q].dir) : q < p

\* Rotations, insertions, and the removal that cuts the tree in two and joins
\* the halves through a splay on a local root, leave one search tree whose
\* pointers agree in both directions, and leak nothing.
Inteira == PaisConferem /\ SemVazamento /\ Ordenada

Limitado == INSTANCE CacheLimitado WITH
    mapa <- [p \in Page |-> IF buscar(Esta, p) THEN no[p].dados ELSE "ausente"]

\* The cache is a bounded map: no operation loses, changes or resurrects a page
\* other than the one it names, except for one victim when it is full; and it is
\* full at its capacity, neither before nor after.
CacheSpec == Limitado!Spec

\* The nodes from page p up to the root: those that a search for p visits.
Caminho(p) ==
    LET sobe[k \in Nat] ==
            IF k = 0 THEN {p} ELSE UNION {{q, no[q].pai} \ {Nulo} : q \in sobe[k - 1]}
    IN  sobe[Cardinality(Page)]

\* The depth of page p, as somaProfundidades counts it.
Prof(p) == Cardinality(Caminho(p)) - 1

\* The pages that a call to inserirPagina evicts.
Despejadas == IF resposta'.op = "inserir" THEN Vivos \ Vivos' ELSE {}

\* The victim is the one that the comment on the policies promises: nobody is
\* deeper (LRU), or counted less, or as little and deeper (LFU); and in the
\* hybrid policy nobody has a score that is truly higher, up to the rounding of
\* the doubles.
VitimaJusta ==
    [][\A v \in Despejadas : \A q \in Vivos \ {v} :
         LET menos == no[q].acessos < no[v].acessos
             mais  == no[q].acessos > no[v].acessos
         IN  CASE politica = "LFU"     -> mais \/ (~menos /\ Prof(q) <= Prof(v))
               [] politica = "HIBRIDA" -> ~ScoreAcima(Prof(q), no[q].acessos,
                                                      Prof(v), no[v].acessos)
               [] OTHER                -> Prof(q) <= Prof(v)]_vars

\* By depth, the page that the call before found or stored is not the one
\* evicted, unless it is alone; the two policies that count accesses do not
\* promise that.
UltimaFica ==
    [][/\ politica = "LRU_PROFUNDIDADE"
       /\ resposta.op \in {"buscar", "inserir"}
       /\ resposta.id \in Vivos
       /\ Vivos # {resposta.id}
       => resposta.id \notin Despejadas]_vars

\* The node that a call which evicts and removes nothing brings to the root,
\* with its depth, or the depth at which it is hung first: for a failed search
\* it is the last node visited.
Acessada ==
    LET fim == Fim(Esta, resposta'.id) IN
    IF resposta'.op = "inserir" /\ fim # resposta'.id
    THEN [id |-> resposta'.id, prof |-> IF fim = Nulo THEN 0 ELSE Prof(fim) + 1]
    ELSE [id |-> fim, prof |-> Prof(fim)]

Acesso ==
    /\ resposta'.op \in {"buscar", "inserir"}
    /\ Despejadas = {}
    /\ raiz' # Nulo

\* The rotations of an access, which the benchmark reports as its cost, are as
\* many as the levels between the page and the root: each takes it up by one.
RotacoesSaoProfundidade ==
    [][Acesso => stats'.rotacoes = Acessada.prof /\ raiz' = Acessada.id]_vars

\* "avo-depois-pai ... garante o balanceamento amortizado" (322-324): the nodes that
\* the search visited end at about half their depth, and no other sinks by more
\* than two; rotating the page up twice instead would bring it to the root as
\* well, and leave the path as long as it was.
CaminhoPelaMetade ==
    [][Acesso =>
         LET x   == Acessada
             fim == Fim(Esta, resposta'.id)
         IN  \A q \in Vivos \ {x.id} :
                LET d == Prof(q)
                    limite == IF q \notin Caminho(fim) THEN d + 2
                              ELSE IF (x.prof - d) % 2 = 1 THEN (d \div 2) + 1
                              ELSE ((d + 1) \div 2) + 2
                IN  Prof(q)' <= limite]_vars
=============================================================================
