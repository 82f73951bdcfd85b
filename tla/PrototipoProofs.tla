-------------------------- MODULE PrototipoProofs --------------------------
(***************************************************************************)
(* Theorems about Prototipo, for every finite set of pages, every set of   *)
(* data and of capacities: the tree stays whole, the cache is a bounded    *)
(* map, the victims are those that the policies promise, and an access     *)
(* costs its depth and shortens its path.                                  *)
(*                                                                         *)
(* What a tree of pointers does is proved in SearchTrees.  Forma reads the *)
(* nodes of the prototype as such a tree; each function of the code is     *)
(* then one of its rotations, splays, cuts or joins (SobeErgue, SplayFaz,  *)
(* PenduraHung, SeparaDuas, JuntaAmbas).  The inductive invariant Arrumada *)
(* says, besides the types, that the nodes with data are a search tree     *)
(* (Sa), that there are tamanho of them, and that the page found or stored *)
(* last is at the root.                                                    *)
(***************************************************************************)
EXTENDS Prototipo, TLAPS, FiniteSetTheorems, SequenceTheorems

INSTANCE SearchTrees WITH Null <- Nulo

LEMMA PaginasOK == PagesOK
BY PageAssumption DEF PagesOK, Nulo

OuNulo == Page \cup {Nulo}

-----------------------------------------------------------------------------
(* Rotations.                                                              *)

\* m is node n with these pointers.
Campos(m, n, esq, dir, pai) ==
    /\ m \in No
    /\ m.dados = n.dados /\ m.acessos = n.acessos
    /\ m.esq = esq /\ m.dir = dir /\ m.pai = pai

\* The nodes that the rotation around p changes, one by one.
NoGirado(n, q, x, p, g, B, direita) ==
    Campos(Girado(n, q, p, x, g, B, direita), n[q],
           IF q = p /\ direita THEN B
           ELSE IF q = x /\ ~direita THEN p
           ELSE IF q = g /\ n[g].esq = p THEN x ELSE n[q].esq,
           IF q = p /\ ~direita THEN B
           ELSE IF q = x /\ direita THEN p
           ELSE IF q = g /\ n[g].esq # p /\ n[g].dir = p THEN x ELSE n[q].dir,
           IF q = p THEN x ELSE IF q = x THEN g
           ELSE IF q = B THEN p ELSE n[q].pai)

LEMMA GiradoCampos ==
    ASSUME NEW n, \A r \in Page : n[r] \in No,
           NEW q \in Page, NEW x \in Page, NEW p \in Page,
           NEW g \in OuNulo, NEW B \in OuNulo, NEW direita \in BOOLEAN,
           x # p, g \notin {x, p}, B = Nulo \/ B \notin {x, p, g}
    PROVE  NoGirado(n, q, x, p, g, B, direita)
<1> DEFINE m == Girado(n, q, p, x, g, B, direita)
<1>1. /\ n[q] \in No /\ x \in OuNulo /\ p \in OuNulo /\ Nulo \notin Page
      /\ No = [acessos: 0 .. MaxAcessos, esq: OuNulo, dir: OuNulo, pai: OuNulo,
               dados: Dados \cup {Vazio, NULL}]
  BY PaginasOK DEF PagesOK, OuNulo, No
<1> HIDE DEF OuNulo
<1>2. CASE q = x /\ direita
  <2>1. m = [n[x] EXCEPT !.dir = p, !.pai = g]
    BY <1>2 DEF Girado
  <2>2. Campos(m, n[x], n[x].esq, p, g)
    BY <1>1, <1>2, <2>1 DEF Campos
  <2> QED BY <1>2, <2>2 DEF Campos, NoGirado
<1>3. CASE q = x /\ ~direita
  <2>1. m = [n[x] EXCEPT !.esq = p, !.pai = g]
    BY <1>3 DEF Girado
  <2>2. Campos(m, n[x], p, n[x].dir, g)
    BY <1>1, <1>3, <2>1 DEF Campos
  <2> QED BY <1>3, <2>2 DEF Campos, NoGirado
<1>4. CASE q = p /\ direita
  <2>1. m = [n[p] EXCEPT !.esq = B, !.pai = x]
    BY <1>4 DEF Girado
  <2>2. Campos(m, n[p], B, n[p].dir, x)
    BY <1>1, <1>4, <2>1 DEF Campos
  <2> QED BY <1>4, <2>2 DEF Campos, NoGirado
<1>5. CASE q = p /\ ~direita
  <2>1. m = [n[p] EXCEPT !.dir = B, !.pai = x]
    BY <1>5 DEF Girado
  <2>2. Campos(m, n[p], n[p].esq, B, x)
    BY <1>1, <1>5, <2>1 DEF Campos
  <2> QED BY <1>5, <2>2 DEF Campos, NoGirado
<1>6. CASE q \notin {x, p} /\ q = B
  <2>1. m = [n[q] EXCEPT !.pai = p]
    BY <1>6 DEF Girado
  <2>2. Campos(m, n[q], n[q].esq, n[q].dir, p)
    BY <1>1, <2>1 DEF Campos
  <2>3. q # g
    BY <1>1, <1>6
  <2> QED BY <1>6, <2>2, <2>3 DEF Campos, NoGirado
<1>7. CASE q \notin {x, p, B} /\ q = g /\ n[g].esq = p
  <2>1. m = [n[g] EXCEPT !.esq = x]
    BY <1>7 DEF Girado
  <2>2. Campos(m, n[q], x, n[q].dir, n[q].pai)
    BY <1>1, <1>7, <2>1 DEF Campos
  <2> QED BY <1>7, <2>2 DEF Campos, NoGirado
<1>8. CASE q \notin {x, p, B} /\ q = g /\ n[g].esq # p /\ n[g].dir = p
  <2>1. m = [n[g] EXCEPT !.dir = x]
    BY <1>8 DEF Girado
  <2>2. Campos(m, n[q], n[q].esq, x, n[q].pai)
    BY <1>1, <1>8, <2>1 DEF Campos
  <2> QED BY <1>8, <2>2 DEF Campos, NoGirado
<1>9. CASE /\ q \notin {x, p, B}
           /\ ~(q = g /\ n[g].esq = p) /\ ~(q = g /\ n[g].esq # p /\ n[g].dir = p)
  <2>1. m = n[q]
    BY <1>9 DEF Girado
  <2>2. Campos(m, n[q], n[q].esq, n[q].dir, n[q].pai)
    BY <1>1, <2>1 DEF Campos
  <2> QED BY <1>9, <2>2 DEF Campos, NoGirado
<1> QED BY <1>2, <1>3, <1>4, <1>5, <1>6, <1>7, <1>8, <1>9

\* The shape of the nodes n below topo, which is *raiz between two rounds.
Forma(n, topo) ==
    [top |-> topo, l |-> [q \in Page |-> n[q].esq], r |-> [q \in Page |-> n[q].dir],
     pa |-> [q \in Page |-> n[q].pai]]

\* m has the pages of n, in the same nodes.
MesmasPaginas(n, m) ==
    \A q \in Page : m[q].dados = n[q].dados /\ m[q].acessos = n[q].acessos

\* The parts of a tree and of its shape.
LEMMA TiposDaArvore ==
    ASSUME NEW t \in Arvore, NEW topo
    PROVE  /\ t.raiz \in OuNulo /\ t.no \in [Page -> No] /\ t.rotacoes \in Nat
           /\ \A q \in Page : /\ t.no[q] \in No /\ t.no[q].esq \in OuNulo
                              /\ t.no[q].dir \in OuNulo /\ t.no[q].pai \in OuNulo
                              /\ t.no[q].dados \in Dados \cup {Vazio, NULL}
                              /\ t.no[q].acessos \in 0 .. MaxAcessos
           /\ \A q \in Page : LET h == Forma(t.no, topo) IN
                              /\ h.l[q] = t.no[q].esq
                              /\ h.r[q] = t.no[q].dir
                              /\ h.pa[q] = t.no[q].pai
           /\ Forma(t.no, topo).top = topo
BY DEF Arvore, No, Forma, OuNulo

\* A node's parent in a tree.
Filial(n, live, s, all, topo, x) ==
    LET p == n[x].pai IN
    /\ x \in Page /\ live \subseteq Page /\ x \in s[x] /\ s[x] \subseteq Page
    /\ p = Nulo => topo = x /\ s[x] = all
    /\ p # Nulo => /\ p \in live /\ p # x /\ p \in Page /\ p \in s[p] /\ p \notin s[x]
                   /\ n[p].esq = x \/ n[p].dir = x
                   /\ n[p].esq = x => n[p].dir # x
                   /\ (n[p].esq = x) <=> (x < p)

LEMMA FatosDoPai ==
    ASSUME NEW t \in Arvore, NEW live, NEW s, NEW all, NEW topo,
           SearchTree(Forma(t.no, topo), live, s, all), NEW x \in live
    PROVE  Filial(t.no, live, s, all, topo, x)
<1> DEFINE h == Forma(t.no, topo)
<1>1. live \subseteq Page
  BY DEF SearchTree, Whole, Top
<1>2. h.pa[x] = t.no[x].pai /\ h.top = topo
  BY <1>1, TiposDaArvore
<1>3. /\ x \in Page /\ x \in s[x] /\ s[x] \subseteq Page
      /\ h.pa[x] = Nulo => h.top = x /\ s[x] = all
      /\ h.pa[x] # Nulo => /\ h.pa[x] \in live /\ h.pa[x] # x
                           /\ h.pa[x] \in s[h.pa[x]] /\ h.pa[x] \notin s[x]
  <2> HIDE DEF h
  <2>1. SearchTree(h, live, s, all)
    BY DEF h
  <2> QED BY <2>1, PaginasOK, NodeFacts
<1>4. h.pa[x] # Nulo => /\ h.l[h.pa[x]] = x \/ h.r[h.pa[x]] = x
                        /\ (h.l[h.pa[x]] = x) <=> (x < h.pa[x])
                        /\ h.l[h.pa[x]] = x => h.r[h.pa[x]] # x
  <2>1. SearchTree(h, live, s, all)
    OBVIOUS
  <2> HIDE DEF h
  <2> SUFFICES ASSUME h.pa[x] # Nulo
               PROVE  /\ h.l[h.pa[x]] = x \/ h.r[h.pa[x]] = x
                      /\ (h.l[h.pa[x]] = x) <=> (x < h.pa[x])
                      /\ h.l[h.pa[x]] = x => h.r[h.pa[x]] # x
    OBVIOUS
  <2> QED BY <2>1, PaginasOK, WhichSide
<1>5. \A q \in Page : h.l[q] = t.no[q].esq /\ h.r[q] = t.no[q].dir
  BY DEF Forma
<1> HIDE DEF h
<1> QED BY <1>1, <1>2, <1>3, <1>4, <1>5 DEF Filial

\* The rotation around the parent of x takes x up, and counts.
Erguida(t, topo, x, u) ==
    /\ u \in Arvore /\ u.raiz = t.raiz /\ u.rotacoes = t.rotacoes + 1
    /\ MesmasPaginas(t.no, u.no)
    /\ Lifted(Forma(t.no, topo), x,
              Forma(u.no, IF t.no[t.no[x].pai].pai = Nulo THEN x ELSE topo))

LEMMA SobeErgue ==
    ASSUME NEW t \in Arvore, NEW live, NEW s, NEW all, NEW topo,
           SearchTree(Forma(t.no, topo), live, s, all),
           NEW x \in live, t.no[x].pai # Nulo
    PROVE  Erguida(t, topo, x, Sobe(t, t.no[x].pai, x))
<1> DEFINE p == t.no[x].pai
           g == t.no[p].pai
           direita == t.no[p].esq = x
           B == IF direita THEN t.no[x].dir ELSE t.no[x].esq
           n == [q \in Page |-> Girado(t.no, q, p, x, g, B, direita)]
           u == Sobe(t, p, x)
           h == Forma(t.no, topo)
           topoT == IF g = Nulo THEN x ELSE topo
           i == Forma(n, topoT)
<1>1. /\ x \in Page /\ live \subseteq Page /\ p \in live /\ p # x /\ p \in Page /\ p # Nulo
      /\ t.no[p].esq = x \/ t.no[p].dir = x
      /\ t.no[p].esq = x => t.no[p].dir # x
      /\ x # Nulo /\ Nulo \notin Page
  <2>1. Filial(t.no, live, s, all, topo, x) /\ Nulo \notin Page
    BY FatosDoPai, PaginasOK DEF PagesOK
  <2> QED BY <2>1 DEF Filial
<1>2. u = [raiz |-> t.raiz, rotacoes |-> t.rotacoes + 1, no |-> n]
  <2>1. CASE direita
    BY <1>1, <2>1 DEF Sobe, rotacaoDireita, rotacao
  <2>2. CASE ~direita
    BY <1>1, <2>2 DEF Sobe, rotacaoEsquerda, rotacao
  <2> QED BY <2>1, <2>2
<1>3. /\ \A q \in Page : t.no[q] \in No
      /\ t.raiz \in OuNulo /\ t.rotacoes \in Nat
      /\ g \in OuNulo /\ B \in OuNulo /\ direita \in BOOLEAN
  <2>1. \A q \in Page : /\ t.no[q] \in No /\ t.no[q].esq \in OuNulo
                        /\ t.no[q].dir \in OuNulo /\ t.no[q].pai \in OuNulo
    BY TiposDaArvore
  <2>2. t.raiz \in OuNulo /\ t.rotacoes \in Nat
    BY TiposDaArvore
  <2> HIDE DEF p
  <2> QED BY <1>1, <2>1, <2>2
<1>4. \A q \in Page : h.l[q] = t.no[q].esq /\ h.r[q] = t.no[q].dir /\ h.pa[q] = t.no[q].pai
  BY DEF Forma
<1>5. /\ SearchTree(h, live, s, all)
      /\ Sides(Lower, Upper) /\ Sides(Upper, Lower)
      /\ Whole(h.top, live, h.l, h.r, h.pa, s, all, Lower, Upper)
      /\ Whole(h.top, live, h.r, h.l, h.pa, s, all, Upper, Lower)
  BY PaginasOK, LowerUpper, Mirror DEF SearchTree
<1>6. h.pa[x] = p /\ h.pa[p] = g /\ (h.l[p] = x) = direita /\ (h.r[p] = x) = ~direita
  BY <1>1, <1>4
<1> HIDE DEF p, g, B, n, u, h, direita
<1>7. g \notin {x, p} /\ (B = Nulo \/ B \notin {x, p, g})
  <2>1. CASE direita
    <3>0. h.pa[x] # Nulo /\ h.l[h.pa[x]] = x
      BY <1>1, <1>6, <2>1
    <3>1. /\ h.pa[h.pa[x]] \notin {x, h.pa[x]}
          /\ h.r[x] # Nulo => h.r[x] \notin {x, h.pa[x], h.pa[h.pa[x]]}
      <4> DEFINE pa == h.pa
                 l == h.l
                 r == h.r
      <4>1. pa[x] # Nulo /\ l[pa[x]] = x
        BY <3>0
      <4>2. Whole(h.top, live, l, r, pa, s, all, Lower, Upper)
        BY <1>5
      <4> HIDE DEF pa, l, r
      <4>3. /\ pa[pa[x]] \notin {x, pa[x]}
            /\ r[x] # Nulo => r[x] \notin {x, pa[x], pa[pa[x]]}
        BY <1>5, <4>1, <4>2, PaginasOK, Kin
      <4> QED BY <4>3 DEF pa, r
    <3> QED BY <1>1, <1>4, <1>6, <2>1, <3>1 DEF B
  <2>2. CASE ~direita
    <3>0. h.pa[x] # Nulo /\ h.r[h.pa[x]] = x
      BY <1>1, <1>6, <2>2
    <3>1. /\ h.pa[h.pa[x]] \notin {x, h.pa[x]}
          /\ h.l[x] # Nulo => h.l[x] \notin {x, h.pa[x], h.pa[h.pa[x]]}
      <4> DEFINE pa == h.pa
                 l == h.l
                 r == h.r
      <4>1. pa[x] # Nulo /\ r[pa[x]] = x
        BY <3>0
      <4>2. Whole(h.top, live, r, l, pa, s, all, Upper, Lower)
        BY <1>5
      <4> HIDE DEF pa, l, r
      <4>3. /\ pa[pa[x]] \notin {x, pa[x]}
            /\ l[x] # Nulo => l[x] \notin {x, pa[x], pa[pa[x]]}
        BY <1>5, <4>1, <4>2, PaginasOK, Kin
      <4> QED BY <4>3 DEF pa, l
    <3> QED BY <1>1, <1>4, <1>6, <2>2, <3>1 DEF B
  <2> QED BY <1>3, <2>1, <2>2
<1>8. g # Nulo => /\ g \in Page /\ (t.no[g].esq = p => t.no[g].dir # p)
                  /\ h.l[g] = t.no[g].esq /\ h.r[g] = t.no[g].dir
  <2>1. g # Nulo => g \in Page /\ (t.no[g].esq = p => t.no[g].dir # p)
    <3>1. SearchTree(Forma(t.no, topo), live, s, all)
      OBVIOUS
    <3>2. Filial(t.no, live, s, all, topo, p)
      BY <1>1, <3>1, FatosDoPai
    <3> QED BY <3>2 DEF Filial, g
  <2> QED BY <1>4, <2>1
<1>9. ASSUME NEW q \in Page
      PROVE  /\ n[q] \in No /\ n[q].dados = t.no[q].dados /\ n[q].acessos = t.no[q].acessos
             /\ n[q].esq = IF q = p /\ direita THEN B
                           ELSE IF q = x /\ ~direita THEN p
                           ELSE IF q = g /\ h.l[g] = p THEN x ELSE h.l[q]
             /\ n[q].dir = IF q = p /\ ~direita THEN B
                           ELSE IF q = x /\ direita THEN p
                           ELSE IF q = g /\ h.r[g] = p THEN x ELSE h.r[q]
             /\ n[q].pai = IF q = p THEN x ELSE IF q = x THEN g
                           ELSE IF q = B THEN p ELSE h.pa[q]
  <2> DEFINE m == Girado(t.no, q, p, x, g, B, direita)
  <2>1. n[q] = m
    BY DEF n
  <2>2. NoGirado(t.no, q, x, p, g, B, direita)
    <3>1. /\ x # p /\ g \notin {x, p} /\ (B = Nulo \/ B \notin {x, p, g})
          /\ x \in Page /\ p \in Page /\ g \in OuNulo /\ B \in OuNulo
          /\ direita \in BOOLEAN
      BY <1>1, <1>3, <1>7
    <3>2. \A w \in Page : t.no[w] \in No
      BY <1>3
    <3> QED BY <3>1, <3>2, GiradoCampos
  <2>3. h.l[q] = t.no[q].esq /\ h.r[q] = t.no[q].dir /\ h.pa[q] = t.no[q].pai
    BY <1>4
  <2>4. q = g => g # Nulo
    BY <1>1
  <2> QED BY <1>8, <2>1, <2>2, <2>3, <2>4 DEF Campos, NoGirado
<1>10. u \in Arvore /\ u.raiz = t.raiz /\ u.rotacoes = t.rotacoes + 1 /\ u.no = n
  <2>1. n \in [Page -> No]
    <3>1. n = [q \in Page |-> n[q]]
      BY DEF n
    <3> QED BY <1>9, <3>1
  <2> QED BY <1>2, <1>3, <2>1 DEF Arvore, OuNulo
<1>11. \A q \in Page : i.l[q] = n[q].esq /\ i.r[q] = n[q].dir /\ i.pa[q] = n[q].pai
  BY DEF Forma
<1>12. i.top = topoT /\ h.top = topo
  BY DEF Forma, h
<1> HIDE DEF i
<1>13. Lifted(h, x, i)
  <2>1. CASE direita
    <3>1. B = h.r[x]
      BY <1>1, <1>4, <2>1 DEF B
    <3>2. Turned(h.top, h.l, h.r, h.pa, x, i.top, i.l, i.r, i.pa)
      BY <1>1, <1>6, <1>9, <1>11, <1>12, <2>1, <3>1 DEF Turned
    <3> QED BY <1>1, <1>6, <2>1, <3>2 DEF Lifted
  <2>2. CASE ~direita
    <3>1. B = h.l[x]
      BY <1>1, <1>4, <2>2 DEF B
    <3>2. Turned(h.top, h.r, h.l, h.pa, x, i.top, i.r, i.l, i.pa)
      BY <1>1, <1>6, <1>9, <1>11, <1>12, <2>2, <3>1 DEF Turned
    <3> QED BY <1>1, <1>6, <2>2, <3>2 DEF Lifted
  <2> QED BY <1>3, <2>1, <2>2
<1>14. MesmasPaginas(t.no, u.no)
  BY <1>9, <1>10 DEF MesmasPaginas
<1> QED BY <1>10, <1>13, <1>14 DEF p, g, u, h, i, Erguida

\* A round of the loop of splay is one of those of SearchTrees.
RodadaFeita(t, x, u) ==
    /\ u \in Arvore
    /\ u.rotacoes = t.rotacoes + Rotations(Forma(t.no, t.raiz), x)
    /\ MesmasPaginas(t.no, u.no)
    /\ Round(Forma(t.no, t.raiz), x, Forma(u.no, u.raiz))

LEMMA RodadaRound ==
    ASSUME NEW t \in Arvore, NEW live, NEW s, NEW all,
           SearchTree(Forma(t.no, t.raiz), live, s, all),
           NEW x \in live, t.no[x].pai # Nulo
    PROVE  RodadaFeita(t, x, Rodada(t, x))
<1> DEFINE p == t.no[x].pai
           g == t.no[p].pai
           topo == t.raiz
           h == Forma(t.no, topo)
<1>1. /\ x \in Page /\ live \subseteq Page /\ p \in live /\ p # x /\ p \in Page
      /\ h.pa[x] = p /\ h.pa[p] = g /\ Nulo \notin Page
      /\ (h.l[p] = x) <=> (t.no[p].esq = x)
  <2>1. Filial(t.no, live, s, all, topo, x)
    BY FatosDoPai
  <2>2. \A q \in Page : h.pa[q] = t.no[q].pai /\ h.l[q] = t.no[q].esq
    BY DEF Forma
  <2> QED BY <2>1, <2>2, PaginasOK DEF Filial, PagesOK
<1>2. SearchTree(h, live, s, all)
  OBVIOUS
<1>3. CASE g = Nulo
  <2> DEFINE m == Sobe(t, p, x)
             u == [m EXCEPT !.raiz = x]
  <2>1. Erguida(t, topo, x, m)
    BY SobeErgue
  <2>2. Rodada(t, x) = u
    BY <1>3 DEF Rodada, splayZig
  <2>3. m \in Arvore /\ x \in OuNulo
    BY <1>1, <2>1 DEF Erguida, OuNulo
  <2> HIDE DEF m
  <2>4. u \in Arvore /\ u.no = m.no /\ u.raiz = x /\ u.rotacoes = m.rotacoes
    BY <2>3 DEF Arvore, OuNulo
  <2> HIDE DEF u
  <2>5. Lifted(h, x, Forma(u.no, u.raiz))
    BY <1>3, <2>1, <2>4 DEF Erguida
  <2>6. Round(h, x, Forma(u.no, u.raiz)) /\ Rotations(h, x) = 1
    <3> HIDE DEF h
    <3> QED BY <1>1, <1>3, <2>5 DEF Round, Rotations
  <2> QED BY <2>1, <2>2, <2>4, <2>6 DEF Erguida, MesmasPaginas, RodadaFeita
<1>4. CASE g # Nulo
  <2>1. /\ g \in live /\ g # p /\ g \in Page
        /\ (h.l[g] = p) <=> (t.no[g].esq = p)
    <3>1. Filial(t.no, live, s, all, topo, p)
      BY <1>1, <1>2, FatosDoPai
    <3>2. \A q \in Page : h.l[q] = t.no[q].esq
      BY DEF Forma
    <3> QED BY <1>4, <3>1, <3>2 DEF Filial
  <2>2. /\ h.pa[g] = t.no[g].pai
        /\ h.pa[x] # Nulo /\ h.pa[h.pa[x]] # Nulo /\ Rotations(h, x) = 2
    <3>1. \A q \in Page : h.pa[q] = t.no[q].pai
      BY DEF Forma
    <3> HIDE DEF h, p
    <3> QED BY <1>1, <1>4, <2>1, <3>1 DEF Rotations, PagesOK, g
  <2>3. ASSUME NEW m \in Arvore, NEW topo1, NEW s1, m.raiz = t.raiz,
               m.rotacoes = t.rotacoes + 1, MesmasPaginas(t.no, m.no),
               SearchTree(Forma(m.no, topo1), live, s1, all),
               m.no[x].pai # Nulo,
               (m.no[m.no[x].pai].pai = Nulo) <=> (t.no[g].pai = Nulo),
               t.no[g].pai # Nulo => topo1 = topo,
               NEW u, u = IF t.no[g].pai = Nulo THEN [Sobe(m, m.no[x].pai, x) EXCEPT !.raiz = x]
                          ELSE Sobe(m, m.no[x].pai, x)
        PROVE  /\ u \in Arvore /\ u.rotacoes = t.rotacoes + 2
               /\ MesmasPaginas(t.no, u.no)
               /\ Lifted(Forma(m.no, topo1), x, Forma(u.no, u.raiz))
    <3> DEFINE w == Sobe(m, m.no[x].pai, x)
    <3>1. Erguida(m, topo1, x, w)
      BY <2>3, SobeErgue
    <3>2. w \in Arvore /\ x \in OuNulo /\ t.rotacoes \in Nat
      BY <1>1, <3>1 DEF Erguida, OuNulo, Arvore
    <3>0. u = IF t.no[g].pai = Nulo THEN [w EXCEPT !.raiz = x] ELSE w
      BY <2>3
    <3> HIDE DEF w
    <3>3. /\ u \in Arvore /\ u.no = w.no /\ u.rotacoes = w.rotacoes
          /\ u.raiz = IF t.no[g].pai = Nulo THEN x ELSE w.raiz
      BY <3>0, <3>2 DEF Arvore, OuNulo
    <3>4. u.raiz = IF m.no[m.no[x].pai].pai = Nulo THEN x ELSE topo1
      BY <2>3, <3>1, <3>3 DEF Erguida
    <3>5. Lifted(Forma(m.no, topo1), x, Forma(u.no, u.raiz))
      <4> DEFINE novo == IF m.no[m.no[x].pai].pai = Nulo THEN x ELSE topo1
      <4>1. Lifted(Forma(m.no, topo1), x, Forma(w.no, novo))
        BY <3>1 DEF Erguida
      <4>2. novo = u.raiz
        BY <3>4
      <4>3. u.no = w.no
        BY <3>3
      <4>4. Forma(u.no, u.raiz) = Forma(w.no, novo)
        BY <4>2, <4>3
      <4> HIDE DEF novo
      <4> QED BY <4>1, <4>4
    <3>6. u.rotacoes = t.rotacoes + 2
      <4>1. m.rotacoes = t.rotacoes + 1
        BY <2>3
      <4>2. w.rotacoes = m.rotacoes + 1
        BY <3>1 DEF Erguida
      <4> QED BY <3>2, <3>3, <4>1, <4>2
    <3>7. MesmasPaginas(t.no, u.no)
      BY <2>3, <3>1, <3>3 DEF Erguida, MesmasPaginas
    <3> QED BY <3>3, <3>5, <3>6, <3>7
  <2>4. CASE EhEsquerdo(t, x) = EhEsquerdo(t, p)
    <3> DEFINE m == Sobe(t, g, p)
               topo1 == IF t.no[g].pai = Nulo THEN p ELSE topo
               i == Forma(m.no, topo1)
               u == NovaRaiz(Sobe(m, p, x), t.no[g].pai = Nulo, x)
    <3>1. Erguida(t, topo, p, m)
      BY <1>1, <1>2, <1>4, SobeErgue
    <3>2. Lifted(h, p, i)
      BY <3>1 DEF Erguida
    <3>3. (h.l[p] = x) <=> (h.l[g] = p)
      BY <1>1, <2>1, <2>4 DEF EhEsquerdo
    <3>4. i.pa[x] = p /\ i.pa[p] = h.pa[g]
      <4> HIDE DEF h, i
      <4>1. /\ Lifted(h, h.pa[x], i)
            /\ (h.l[h.pa[x]] = x) <=> (h.l[h.pa[h.pa[x]]] = h.pa[x])
        BY <1>1, <3>2, <3>3
      <4>2. i.pa[x] = h.pa[x] /\ i.pa[h.pa[x]] = h.pa[h.pa[h.pa[x]]]
        <5>1. SameSide(h, x) /\ First(h, x, i)
          BY <4>1 DEF SameSide, First
        <5>2. Second(h, x, i)
          BY <1>2, <2>2, <5>1, PaginasOK, TwoLifts
        <5> QED BY <5>1, <5>2 DEF Second
      <4> QED BY <1>1, <4>2
    <3>5. PICK s1 : SearchTree(i, live, s1, all)
      <4> HIDE DEF h, i
      <4> QED BY <1>1, <1>2, <3>2, PaginasOK, LiftedTree
    <3>6. m.no[x].pai = p /\ m.no[p].pai = t.no[g].pai
      <4>1. \A q \in Page : i.pa[q] = m.no[q].pai
        BY DEF Forma
      <4> HIDE DEF i, m, h
      <4> QED BY <1>1, <2>2, <3>4, <4>1
    <3>7. /\ m \in Arvore /\ m.raiz = t.raiz /\ m.rotacoes = t.rotacoes + 1
          /\ MesmasPaginas(t.no, m.no)
      BY <3>1 DEF Erguida
    <3>8. p # Nulo /\ (t.no[g].pai # Nulo => topo1 = topo)
      BY <1>1
    <3> HIDE DEF m, topo1
    <3>9. /\ u \in Arvore /\ u.rotacoes = t.rotacoes + 2
          /\ MesmasPaginas(t.no, u.no)
          /\ Lifted(i, x, Forma(u.no, u.raiz))
      <4>1. u = IF t.no[g].pai = Nulo THEN [Sobe(m, m.no[x].pai, x) EXCEPT !.raiz = x]
                ELSE Sobe(m, m.no[x].pai, x)
        BY <3>6 DEF NovaRaiz
      <4>2. m.no[x].pai # Nulo /\ ((m.no[m.no[x].pai].pai = Nulo) <=> (t.no[g].pai = Nulo))
        BY <3>6, <3>8
      <4> HIDE DEF u, g, p
      <4> QED BY <2>3, <3>5, <3>7, <3>8, <4>1, <4>2
    <3>10. Rodada(t, x) = u
      BY <1>4, <2>4 DEF Rodada, splayZigZig, m
    <3> HIDE DEF u, i
    <3>11. Round(h, x, Forma(u.no, u.raiz))
      <4> HIDE DEF h, p, g
      <4>1. /\ h.pa[h.pa[x]] # Nulo /\ Lifted(h, h.pa[x], i)
            /\ (h.l[h.pa[x]] = x) <=> (h.l[h.pa[h.pa[x]]] = h.pa[x])
        BY <1>1, <2>2, <3>2, <3>3
      <4> QED BY <3>9, <4>1 DEF Round, First, SameSide
    <3> QED BY <2>2, <3>9, <3>10, <3>11 DEF RodadaFeita
  <2>5. CASE EhEsquerdo(t, x) # EhEsquerdo(t, p)
    <3> DEFINE m == Sobe(t, p, x)
               i == Forma(m.no, topo)
               u == NovaRaiz(Sobe(m, g, x), t.no[g].pai = Nulo, x)
    <3>1. Erguida(t, topo, x, m)
      BY SobeErgue
    <3>2. Lifted(h, x, i)
      BY <1>4, <3>1 DEF Erguida
    <3>3. ~((h.l[p] = x) <=> (h.l[g] = p))
      BY <1>1, <2>1, <2>5 DEF EhEsquerdo
    <3>4. i.pa[x] = g /\ i.pa[g] = h.pa[g]
      <4> HIDE DEF h, i
      <4>2. i.pa[x] = h.pa[h.pa[x]] /\ i.pa[h.pa[h.pa[x]]] = h.pa[h.pa[h.pa[x]]]
        <5>1. ~SameSide(h, x) /\ First(h, x, i)
          BY <1>1, <3>2, <3>3 DEF SameSide, First
        <5>2. Second(h, x, i)
          BY <1>2, <2>2, <5>1, PaginasOK, TwoLifts
        <5> QED BY <5>1, <5>2 DEF Second
      <4> QED BY <1>1, <4>2
    <3>5. PICK s1 : SearchTree(i, live, s1, all)
      <4> HIDE DEF h, i
      <4> QED BY <1>1, <1>2, <3>2, PaginasOK, LiftedTree
    <3>6. m.no[x].pai = g /\ m.no[g].pai = t.no[g].pai
      <4>1. \A q \in Page : i.pa[q] = m.no[q].pai
        BY DEF Forma
      <4> HIDE DEF i, m, h
      <4> QED BY <1>1, <2>1, <2>2, <3>4, <4>1
    <3>7. /\ m \in Arvore /\ m.raiz = t.raiz /\ m.rotacoes = t.rotacoes + 1
          /\ MesmasPaginas(t.no, m.no)
      BY <3>1 DEF Erguida
    <3> HIDE DEF m
    <3>9. /\ u \in Arvore /\ u.rotacoes = t.rotacoes + 2
          /\ MesmasPaginas(t.no, u.no)
          /\ Lifted(i, x, Forma(u.no, u.raiz))
      <4>1. u = IF t.no[g].pai = Nulo THEN [Sobe(m, m.no[x].pai, x) EXCEPT !.raiz = x]
                ELSE Sobe(m, m.no[x].pai, x)
        BY <3>6 DEF NovaRaiz
      <4>2. m.no[x].pai # Nulo /\ ((m.no[m.no[x].pai].pai = Nulo) <=> (t.no[g].pai = Nulo))
        BY <1>4, <3>6
      <4> HIDE DEF u, g, p, topo
      <4> QED BY <2>3, <3>5, <3>7, <4>1, <4>2
    <3>10. Rodada(t, x) = u
      BY <1>4, <2>5 DEF Rodada, splayZigZag, m
    <3> HIDE DEF u, i
    <3>11. Round(h, x, Forma(u.no, u.raiz))
      <4> HIDE DEF h, p, g
      <4>1. /\ h.pa[h.pa[x]] # Nulo
            /\ ~((h.l[h.pa[x]] = x) <=> (h.l[h.pa[h.pa[x]]] = h.pa[x]))
        BY <1>1, <2>2, <3>3
      <4> QED BY <3>2, <3>9, <4>1 DEF Round, First, SameSide
    <3> QED BY <2>2, <3>9, <3>10, <3>11 DEF RodadaFeita
  <2> QED BY <2>4, <2>5
<1> QED BY <1>3, <1>4

\* splay takes x to the root, one level per rotation.
SplayFeito(t, live, s, all, x, u) ==
    /\ u \in Arvore /\ u.raiz = x
    /\ u.rotacoes = t.rotacoes + Depth(live, s, x)
    /\ MesmasPaginas(t.no, u.no)
    /\ OnTop(Forma(t.no, t.raiz), Forma(u.no, u.raiz), live, s, all, x)

LEMMA SplayFaz ==
    ASSUME NEW t \in Arvore, NEW live, NEW s, NEW all,
           SearchTree(Forma(t.no, t.raiz), live, s, all), NEW x \in live
    PROVE  SplayFeito(t, live, s, all, x, splay(t, x))
<1> DEFINE N == Cardinality(Page)
           S == {u \in Arvore : /\ MesmasPaginas(t.no, u.no)
                                /\ \E sT : SearchTree(Forma(u.no, u.raiz), live, sT, all)}
           G == [u \in S |-> IF u.no[x].pai = Nulo THEN u ELSE Rodada(u, x)]
           Is(f) == f = [k \in Nat |-> IF k = 0 THEN t
                                       ELSE IF f[k - 1].no[x].pai = Nulo THEN f[k - 1]
                                       ELSE Rodada(f[k - 1], x)]
           sobe == CHOOSE f : Is(f)
<1>1. splay(t, x) = [sobe[N] EXCEPT !.raiz = x]
  BY DEF splay
<1>2. t \in S
  BY DEF MesmasPaginas
<1>3. ASSUME NEW u \in S, u.no[x].pai # Nulo
      PROVE  Rodada(u, x) \in S /\ RodadaFeita(u, x, Rodada(u, x))
  <2>1. PICK sU : SearchTree(Forma(u.no, u.raiz), live, sU, all)
    OBVIOUS
  <2> DEFINE w == Rodada(u, x)
             h == Forma(u.no, u.raiz)
  <2>2. RodadaFeita(u, x, w)
    BY <1>3, <2>1, RodadaRound
  <2> HIDE DEF w
  <2>3. \E sT : SearchTree(Forma(w.no, w.raiz), live, sT, all)
    <3>1. h.pa[x] # Nulo
      <4>1. x \in Page
        BY <2>1 DEF SearchTree, Whole, Top
      <4> QED BY <1>3, <4>1 DEF Forma
    <3>2. SearchTree(h, live, sU, all) /\ Round(h, x, Forma(w.no, w.raiz))
      BY <2>1, <2>2 DEF RodadaFeita
    <3> HIDE DEF h
    <3> QED BY <3>1, <3>2, PaginasOK, RoundTree
  <2>4. w \in Arvore /\ MesmasPaginas(t.no, w.no)
    BY <2>2 DEF RodadaFeita, MesmasPaginas
  <2> QED BY <2>2, <2>3, <2>4 DEF w
<1>4. G \in [S -> S]
  BY <1>3
<1>5. PICK e \in [Nat -> S] : e[0] = t /\ \A k \in Nat : e[k + 1] = G[e[k]]
  <2> HIDE DEF S, G
  <2> QED BY <1>2, <1>4, Loop
<1>6. Is(e)
  <2>1. ASSUME NEW k \in Nat
        PROVE  e[k] = IF k = 0 THEN t ELSE IF e[k - 1].no[x].pai = Nulo THEN e[k - 1]
                      ELSE Rodada(e[k - 1], x)
    <3>1. CASE k = 0
      BY <1>5, <3>1
    <3>2. CASE k # 0
      <4>1. k - 1 \in Nat /\ (k - 1) + 1 = k
        BY <3>2
      <4>2. e[k] = G[e[k - 1]] /\ e[k - 1] \in S
        BY <1>5, <4>1
      <4> HIDE DEF S
      <4> QED BY <3>2, <4>2
    <3> QED BY <3>1, <3>2
  <2>2. e = [k \in Nat |-> e[k]]
    BY <1>5
  <2> QED BY <2>1, <2>2
<1>7. Is(sobe)
  <2> HIDE DEF Is
  <2> QED BY <1>6
<1> HIDE DEF sobe, S, G
<1>8. /\ sobe[0] = t
      /\ \A k \in Nat : sobe[k + 1] = IF sobe[k].no[x].pai = Nulo THEN sobe[k]
                                      ELSE Rodada(sobe[k], x)
  <2>1. \A k \in Nat : sobe[k] = IF k = 0 THEN t
                                 ELSE IF sobe[k - 1].no[x].pai = Nulo THEN sobe[k - 1]
                                 ELSE Rodada(sobe[k - 1], x)
    BY <1>7
  <2>2. ASSUME NEW k \in Nat
        PROVE  sobe[k + 1] = IF sobe[k].no[x].pai = Nulo THEN sobe[k] ELSE Rodada(sobe[k], x)
    <3>1. k + 1 \in Nat /\ k + 1 # 0 /\ (k + 1) - 1 = k
      OBVIOUS
    <3> QED BY <2>1, <3>1
  <2> QED BY <2>1, <2>2
<1> HIDE DEF Is
<1> DEFINE I == {k \in Nat : sobe[k] \in S}
<1>9. Nat \subseteq I
  <2>1. 0 \in I
    BY <1>2, <1>8
  <2>2. ASSUME NEW k \in Nat, k \in I PROVE k + 1 \in I
    <3>1. sobe[k] \in S
      BY <2>2
    <3>2. CASE sobe[k].no[x].pai = Nulo
      BY <1>8, <3>1, <3>2
    <3>3. CASE sobe[k].no[x].pai # Nulo
      BY <1>3, <1>8, <3>1, <3>3
    <3> QED BY <3>2, <3>3
  <2> HIDE DEF I
  <2> QED BY <2>1, <2>2, NatSteps
<1>10. \A k \in Nat : sobe[k] \in S
  BY <1>9
<1> HIDE DEF I
<1> DEFINE h == [k \in Nat |-> Forma(sobe[k].no, sobe[k].raiz)]
           c == [k \in Nat |-> sobe[k].rotacoes]
<1>11. x \in Page
  BY DEF SearchTree, Whole, Top
<1>12. ASSUME NEW k \in Nat
       PROVE  IF h[k].pa[x] = Nulo
              THEN h[k + 1] = h[k] /\ c[k + 1] = c[k]
              ELSE /\ Round(h[k], x, h[k + 1])
                   /\ c[k + 1] = c[k] + Rotations(h[k], x)
  <2>1. /\ h[k] = Forma(sobe[k].no, sobe[k].raiz) /\ c[k] = sobe[k].rotacoes
        /\ h[k + 1] = Forma(sobe[k + 1].no, sobe[k + 1].raiz)
        /\ c[k + 1] = sobe[k + 1].rotacoes
    OBVIOUS
  <2>2. h[k].pa[x] = sobe[k].no[x].pai
    BY <1>11, <2>1 DEF Forma
  <2> HIDE DEF h, c
  <2>3. CASE sobe[k].no[x].pai = Nulo
    <3>1. sobe[k + 1] = sobe[k]
      BY <1>8, <2>3
    <3> QED BY <2>1, <2>2, <2>3, <3>1
  <2>4. CASE sobe[k].no[x].pai # Nulo
    <3>1. sobe[k + 1] = Rodada(sobe[k], x)
      BY <1>8, <2>4
    <3>2. RodadaFeita(sobe[k], x, sobe[k + 1])
      BY <1>3, <1>10, <2>4, <3>1
    <3> QED BY <2>1, <2>2, <2>4, <3>2 DEF RodadaFeita
  <2> QED BY <2>3, <2>4
<1>13. /\ SearchTree(h[0], live, s, all) /\ c[0] \in Nat /\ c[0] = t.rotacoes
       /\ h[0] = Forma(t.no, t.raiz)
  BY <1>8 DEF Arvore
<1>14. N \in Nat
  BY PageAssumption, FS_CardinalityType
<1>15. OnTop(h[0], h[N], live, s, all, x) /\ c[N] = c[0] + Depth(live, s, x)
  <2>1. Splays(h, c, x)
    <3> HIDE DEF h, c
    <3> QED BY <1>12 DEF Splays
  <2> HIDE DEF h, c
  <2> QED BY <1>13, <2>1, PaginasOK, Splayed
<1> DEFINE u == [sobe[N] EXCEPT !.raiz = x]
           v == sobe[N]
<1>16. v \in Arvore /\ MesmasPaginas(t.no, v.no)
  <2> HIDE DEF N
  <2> QED BY <1>10, <1>14 DEF S
<1>17. h[N] = Forma(v.no, v.raiz) /\ c[N] = v.rotacoes /\ h[N].top = v.raiz
  BY <1>14 DEF Forma
<1>18. v.raiz = x
  BY <1>15, <1>17 DEF OnTop
<1>19. u = v
  <2> HIDE DEF v
  <2>1. u = [v EXCEPT !.raiz = x]
    BY DEF v
  <2> HIDE DEF u
  <2> QED BY <1>16, <1>18, <2>1 DEF Arvore
<1> HIDE DEF u, v, h, c, N
<1>20. splay(t, x) = v
  BY <1>1, <1>19 DEF u
<1>21. SplayFeito(t, live, s, all, x, v)
  BY <1>13, <1>15, <1>16, <1>17, <1>18 DEF SplayFeito
<1> QED BY <1>20, <1>21


-----------------------------------------------------------------------------
(* Searching.                                                              *)

\* The nodes in live are the search tree t.
Boa(t, live, s) == t \in Arvore /\ SearchTree(Forma(t.no, t.raiz), live, s, Page)

LEMMA FatosDaBoa ==
    ASSUME NEW t, NEW live, NEW s, Boa(t, live, s)
    PROVE  /\ live \subseteq Page /\ IsFiniteSet(live)
           /\ t.raiz = Nulo <=> live = {}
           /\ t.raiz # Nulo => t.raiz \in live
<1>1. /\ live \subseteq Page
      /\ IF t.raiz = Nulo THEN live = {} ELSE t.raiz \in live
  BY DEF Boa, SearchTree, Whole, Top, Forma
<1>2. IsFiniteSet(live)
  BY <1>1, PageAssumption, FS_Subset
<1> QED BY <1>1, <1>2

\* The search for id ends at its node, or else above the place that it would have.
LEMMA FimAchado ==
    ASSUME NEW t, NEW live, NEW s, Boa(t, live, s), t.raiz # Nulo, NEW id \in Page
    PROVE  SearchEnd(Forma(t.no, t.raiz), live, s, id, Fim(t, id))
<1> DEFINE h == Forma(t.no, t.raiz)
           g == [q \in Page |-> IF q = id THEN q ELSE Ou(Filho(t, q, id), q)]
<1>1. Fim(t, id) = Walk(g, h.top)[Cardinality(Page)]
  <2>1. h.top = t.raiz
    BY DEF Forma
  <2> HIDE DEF h
  <2> QED BY <2>1 DEF Fim, Andar, Walk
<1>2. Searches(h, live, id, g)
  <2>1. ASSUME NEW q \in live
        PROVE  g[q] = IF q = id \/ Ahead(h, q, id) = Nulo THEN q ELSE Ahead(h, q, id)
    <3>1. q \in Page
      BY FatosDaBoa
    <3>2. h.l[q] = t.no[q].esq /\ h.r[q] = t.no[q].dir
      BY <3>1 DEF Forma
    <3> HIDE DEF h
    <3> QED BY <3>1, <3>2 DEF Ou, Filho, Ahead
  <2> HIDE DEF h, g
  <2> QED BY <2>1 DEF Searches
<1>3. SearchTree(h, live, s, Page) /\ h.top # Nulo
  BY DEF Boa, Forma
<1> HIDE DEF h, g
<1>4. SearchEnd(h, live, s, id, Walk(g, h.top)[Cardinality(Page)])
  BY <1>2, <1>3, PaginasOK, Search
<1> QED BY <1>1, <1>4 DEF h

LEMMA BuscarAcha ==
    ASSUME NEW t, NEW live, NEW s, Boa(t, live, s), NEW id \in Page
    PROVE  /\ buscar(t, id) <=> id \in live
           /\ t.raiz # Nulo => Fim(t, id) \in live
           /\ t.raiz = Nulo => Fim(t, id) = Nulo
<1>1. CASE t.raiz = Nulo
  <2>1. live = {} /\ Fim(t, id) = Nulo
    BY <1>1, FatosDaBoa DEF Fim
  <2>2. Nulo # id
    BY PaginasOK DEF PagesOK
  <2> QED BY <1>1, <2>1, <2>2 DEF buscar
<1>2. CASE t.raiz # Nulo
  <2>1. SearchEnd(Forma(t.no, t.raiz), live, s, id, Fim(t, id))
    BY <1>2, FimAchado
  <2> QED BY <1>2, <2>1 DEF SearchEnd, buscar
<1> QED BY <1>1, <1>2

\* What an operation leaves of the pages of t: u is the tree of those in live, with
\* as many rotations more as count.
Leva(t, live, u, count) ==
    /\ \E sU : Boa(u, live, sU)
    /\ MesmasPaginas(t.no, u.no)
    /\ u.rotacoes = t.rotacoes + count

LEMMA SplayLeva ==
    ASSUME NEW t, NEW live, NEW s, Boa(t, live, s), NEW x \in live
    PROVE  Leva(t, live, splay(t, x), Depth(live, s, x)) /\ splay(t, x).raiz = x
<1> DEFINE u == splay(t, x)
<1>1. SplayFeito(t, live, s, Page, x, u)
  BY SplayFaz DEF Boa
<1> HIDE DEF u
<1>2. OnTop(Forma(t.no, t.raiz), Forma(u.no, u.raiz), live, s, Page, x)
  BY <1>1 DEF SplayFeito
<1>3. \E sU : SearchTree(Forma(u.no, u.raiz), live, sU, Page)
  <2> DEFINE h == Forma(u.no, u.raiz)
  <2> HIDE DEF h
  <2> QED BY <1>2 DEF OnTop, h
<1>4. \E sU : Boa(u, live, sU)
  BY <1>1, <1>3 DEF SplayFeito, Boa
<1> QED BY <1>1, <1>4 DEF SplayFeito, Leva, u

LEMMA BuscarSplayLeva ==
    ASSUME NEW t, NEW live, NEW s, Boa(t, live, s), NEW id \in Page
    PROVE  LET x == Fim(t, id) IN
           /\ Leva(t, live, buscarSplay(t, id), IF x = Nulo THEN 0 ELSE Depth(live, s, x))
           /\ buscarSplay(t, id).raiz = x
<1> DEFINE x == Fim(t, id)
<1>1. CASE t.raiz = Nulo
  <2>1. x = Nulo /\ buscarSplay(t, id) = t
    BY <1>1, BuscarAcha DEF buscarSplay
  <2>2. t.rotacoes = t.rotacoes + 0
    BY DEF Boa, Arvore
  <2> HIDE DEF x
  <2> QED BY <1>1, <2>1, <2>2 DEF Leva, MesmasPaginas, x
<1>2. CASE t.raiz # Nulo
  <2>1. buscarSplay(t, id) = splay(t, x) /\ x \in live
    BY <1>2, BuscarAcha DEF buscarSplay
  <2>2. x # Nulo
    BY <2>1, FatosDaBoa, PaginasOK DEF PagesOK
  <2> HIDE DEF x
  <2> QED BY <2>1, <2>2, SplayLeva DEF x
<1> QED BY <1>1, <1>2

-----------------------------------------------------------------------------
(* Inserting.                                                              *)

\* m has the pages of n, except for id, whose node is new.
UmaNova(n, m, id, dados) ==
    /\ \A r \in Page \ {id} : m[r].dados = n[r].dados /\ m[r].acessos = n[r].acessos
    /\ m[id].dados = IF dados = NULL THEN Vazio ELSE dados
    /\ m[id].acessos = 0

\* The nodes once id hangs below q, one by one.
NoPendurado(t, u, r, id, q, dados) ==
    LET m == u.no[r]
        n == t.no[r]
    IN  IF r = id THEN /\ Campos(m, [n EXCEPT !.dados = IF dados = NULL THEN Vazio ELSE dados,
                                              !.acessos = 0], Nulo, Nulo, q)
        ELSE Campos(m, n, IF r = q /\ id < q THEN id ELSE n.esq,
                    IF r = q /\ ~(id < q) THEN id ELSE n.dir, n.pai)

LEMMA PenduraCampos ==
    ASSUME NEW t \in Arvore, NEW id \in Page, NEW q \in OuNulo, q # id,
           NEW dados \in Dados \cup {NULL}
    PROVE  LET u == Pendura(t, id, q, dados) IN
           /\ u \in Arvore /\ u.raiz = IF q = Nulo THEN id ELSE t.raiz
           /\ u.rotacoes = t.rotacoes
           /\ \A r \in Page : NoPendurado(t, u, r, id, q, dados)
<1> DEFINE u == Pendura(t, id, q, dados)
           novo == [Livre EXCEPT !.pai = q, !.dados = IF dados = NULL THEN Vazio ELSE dados]
           lado == IF id < q THEN "esq" ELSE "dir"
           nos == [r \in Page |-> IF r = id THEN novo
                                  ELSE IF r = q THEN [t.no[r] EXCEPT ![lado] = id]
                                  ELSE t.no[r]]
<1>1. /\ t = [raiz |-> t.raiz, no |-> t.no, rotacoes |-> t.rotacoes]
      /\ t.raiz \in OuNulo /\ t.no \in [Page -> No] /\ t.rotacoes \in Nat
      /\ id \in OuNulo
  BY DEF Arvore, OuNulo
<1>2. u = [t EXCEPT !.raiz = IF q = Nulo THEN id ELSE t.raiz, !.no = nos]
  BY DEF Pendura
<1>3. No = [acessos: 0 .. MaxAcessos, esq: OuNulo, dir: OuNulo, pai: OuNulo,
            dados: Dados \cup {Vazio, NULL}]
  BY DEF No, OuNulo
<1>4. Nulo \in OuNulo /\ 0 \in 0 .. MaxAcessos
  BY BoundAssumption DEF OuNulo
<1> HIDE DEF nos, OuNulo
<1>5. /\ u.raiz = IF q = Nulo THEN id ELSE t.raiz
      /\ u.rotacoes = t.rotacoes /\ u.no = nos
      /\ u = [raiz |-> u.raiz, no |-> nos, rotacoes |-> t.rotacoes]
  BY <1>1, <1>2
<1> HIDE DEF u
<1>6. ASSUME NEW r \in Page PROVE NoPendurado(t, u, r, id, q, dados)
  <2> DEFINE m == u.no[r]
             n == t.no[r]
  <2>1. n \in No
    BY <1>1
  <2>2. CASE r = id
    <3>1. m = novo
      BY <1>5, <2>2 DEF nos
    <3> DEFINE d == IF dados = NULL THEN Vazio ELSE dados
    <3>5. d \in Dados \cup {Vazio, NULL} /\ novo = [Livre EXCEPT !.pai = q, !.dados = d]
      OBVIOUS
    <3> HIDE DEF m, novo, d
    <3>2. novo = [acessos |-> 0, esq |-> Nulo, dir |-> Nulo, pai |-> q, dados |-> d]
      BY <3>5 DEF Livre
    <3>3. m \in No
      BY <1>3, <1>4, <3>1, <3>2, <3>5
    <3>4. Campos(m, [n EXCEPT !.dados = d, !.acessos = 0], Nulo, Nulo, q)
      BY <1>3, <2>1, <3>1, <3>2, <3>3 DEF Campos
    <3> QED BY <2>2, <3>4 DEF NoPendurado, m, d
  <2>3. CASE r # id /\ r = q /\ id < q
    <3>1. m = [n EXCEPT !.esq = id]
      BY <1>5, <2>3 DEF nos
    <3> HIDE DEF m, n
    <3>2. Campos(m, n, id, n.dir, n.pai)
      BY <1>1, <1>3, <2>1, <3>1 DEF Campos
    <3> QED BY <2>3, <3>2 DEF NoPendurado, m, n
  <2>4. CASE r # id /\ r = q /\ ~(id < q)
    <3>1. m = [n EXCEPT !.dir = id]
      BY <1>5, <2>4 DEF nos
    <3> HIDE DEF m, n
    <3>2. Campos(m, n, n.esq, id, n.pai)
      BY <1>1, <1>3, <2>1, <3>1 DEF Campos
    <3> QED BY <2>4, <3>2 DEF NoPendurado, m, n
  <2>5. CASE r # id /\ r # q
    <3>1. m = n
      BY <1>5, <2>5 DEF nos
    <3> QED BY <2>1, <2>5, <3>1 DEF NoPendurado, Campos
  <2> QED BY <2>2, <2>3, <2>4, <2>5
<1>7. u \in Arvore
  <2>1. \A r \in Page : u.no[r] \in No
    BY <1>6 DEF NoPendurado, Campos
  <2>2. nos \in [Page -> No]
    BY <1>5, <2>1 DEF nos
  <2> QED BY <1>1, <1>5, <2>2 DEF Arvore, OuNulo
<1> QED BY <1>5, <1>6, <1>7 DEF u

\* What hanging a new page leaves.
LEMMA PenduraHung ==
    ASSUME NEW t, NEW live, NEW s, Boa(t, live, s), NEW id \in Page, id \notin live,
           NEW dados \in Dados \cup {NULL}
    PROVE  LET q == Fim(t, id)
               u == Pendura(t, id, q, dados)
           IN  /\ Hung(Forma(t.no, t.raiz), id, q, Forma(u.no, u.raiz))
               /\ u \in Arvore /\ u.rotacoes = t.rotacoes
               /\ UmaNova(t.no, u.no, id, dados)
<1> DEFINE q == Fim(t, id)
           u == Pendura(t, id, q, dados)
           h == Forma(t.no, t.raiz)
           i == Forma(u.no, u.raiz)
<1>1. t \in Arvore
  BY DEF Boa
<1>2. q \in OuNulo /\ q # id /\ (q = Nulo <=> t.raiz = Nulo)
  <2>1. /\ t.raiz # Nulo => q \in live
        /\ t.raiz = Nulo => q = Nulo
    BY BuscarAcha
  <2>2. live \subseteq Page /\ Nulo \notin Page
    BY FatosDaBoa, PaginasOK DEF PagesOK
  <2> HIDE DEF q
  <2> QED BY <2>1, <2>2 DEF OuNulo
<1> HIDE DEF q
<1>3. /\ u \in Arvore /\ u.raiz = IF q = Nulo THEN id ELSE t.raiz
      /\ u.rotacoes = t.rotacoes
      /\ \A r \in Page : NoPendurado(t, u, r, id, q, dados)
  BY <1>1, <1>2, PenduraCampos
<1> HIDE DEF u
<1>4. /\ h.top = t.raiz /\ i.top = u.raiz
      /\ \A r \in Page : /\ h.l[r] = t.no[r].esq /\ h.r[r] = t.no[r].dir
                         /\ h.pa[r] = t.no[r].pai /\ i.l[r] = u.no[r].esq
                         /\ i.r[r] = u.no[r].dir /\ i.pa[r] = u.no[r].pai
  BY DEF Forma
<1> HIDE DEF h, i
<1>5. \A r \in Page :
          /\ i.l[r] = IF r = id THEN Nulo ELSE IF r = q /\ id < q THEN id ELSE h.l[r]
          /\ i.r[r] = IF r = id THEN Nulo ELSE IF r = q /\ ~(id < q) THEN id ELSE h.r[r]
          /\ i.pa[r] = IF r = id THEN q ELSE h.pa[r]
  BY <1>3, <1>4 DEF NoPendurado, Campos
<1>6. Hung(h, id, q, i)
  BY <1>3, <1>4, <1>5 DEF Hung
<1>7. UmaNova(t.no, u.no, id, dados)
  <2>1. t.no[id] \in No
    BY <1>1 DEF Arvore
  <2>2. \A r \in Page \ {id} : u.no[r].dados = t.no[r].dados /\ u.no[r].acessos = t.no[r].acessos
    BY <1>3 DEF NoPendurado, Campos
  <2>3. /\ u.no[id].dados = IF dados = NULL THEN Vazio ELSE dados
        /\ u.no[id].acessos = 0
    <3> DEFINE n == t.no[id]
    <3>1. Campos(u.no[id], [n EXCEPT !.dados = IF dados = NULL THEN Vazio ELSE dados,
                                     !.acessos = 0], Nulo, Nulo, q)
      BY <1>3 DEF NoPendurado
    <3> HIDE DEF n
    <3> QED BY <2>1, <3>1 DEF Campos, No, n
  <2> QED BY <2>2, <2>3 DEF UmaNova
<1> QED BY <1>3, <1>6, <1>7 DEF q, u, h, i

\* Insertion of a page that is not there: it ends on top, and nothing else changes
\* but the shape.  It has been as deep as it was hung.
LEMMA InserirSplayLeva ==
    ASSUME NEW t, NEW live, NEW s, Boa(t, live, s), NEW id \in Page, id \notin live,
           NEW dados \in Dados \cup {NULL}
    PROVE  LET u == inserirSplay(t, id, dados)
               q == Fim(t, id)
           IN  /\ \E sU : Boa(u, live \cup {id}, sU)
               /\ UmaNova(t.no, u.no, id, dados)
               /\ u.rotacoes = t.rotacoes + (IF q = Nulo THEN 0 ELSE Depth(live, s, q) + 1)
               /\ u.raiz = id
<1> DEFINE q == Fim(t, id)
           w == Pendura(t, id, q, dados)
           u == inserirSplay(t, id, dados)
           h == Forma(t.no, t.raiz)
           i == Forma(w.no, w.raiz)
           sW == HungSpan(s, id, q, Page)
<1>1. u = splay(w, id)
  BY BuscarAcha DEF inserirSplay
<1>2. /\ Hung(h, id, q, i) /\ w \in Arvore /\ w.rotacoes = t.rotacoes
      /\ UmaNova(t.no, w.no, id, dados)
  BY PenduraHung
<1>3. /\ IF h.top = Nulo THEN q = Nulo ELSE SearchEnd(h, live, s, id, q)
      /\ SearchTree(h, live, s, Page)
  <2>1. h.top = t.raiz
    BY DEF Forma
  <2> HIDE DEF h
  <2> QED BY <2>1, BuscarAcha, FimAchado DEF Boa, h
<1> HIDE DEF q, w, u, h, i
<1>4. SearchTree(i, live \cup {id}, sW, Page)
  BY <1>2, <1>3, PaginasOK, HungTree
<1>5. Depth(live \cup {id}, sW, id) = IF q = Nulo THEN 0 ELSE Depth(live, s, q) + 1
  <2>1. HungBelow(live, s, id, q, live \cup {id}, sW)
    BY <1>3, PaginasOK, HungDepth
  <2> QED BY <2>1 DEF HungBelow
<1> HIDE DEF sW
<1>6. Boa(w, live \cup {id}, sW)
  BY <1>2, <1>4 DEF Boa, i
<1>7. Leva(w, live \cup {id}, u, Depth(live \cup {id}, sW, id)) /\ u.raiz = id
  <2>1. id \in live \cup {id}
    OBVIOUS
  <2> QED BY <1>1, <1>6, <2>1, SplayLeva
<1>8. UmaNova(t.no, u.no, id, dados)
  BY <1>2, <1>7 DEF Leva, UmaNova, MesmasPaginas
<1> QED BY <1>2, <1>5, <1>7, <1>8 DEF Leva, u, q

-----------------------------------------------------------------------------
(* Removing.                                                               *)

\* m has the pages of n, except for id.
SemUma(n, m, id) ==
    /\ \A r \in Page \ {id} : m[r].dados = n[r].dados /\ m[r].acessos = n[r].acessos
    /\ m[id].dados = NULL

\* The nodes once the root x is freed, one by one.
NoSeparado(u, n, r, x) ==
    IF r = x THEN n[r] = Livre
    ELSE Campos(n[r], u.no[r], u.no[r].esq, u.no[r].dir,
                IF r \in {u.no[x].esq, u.no[x].dir} THEN Nulo ELSE u.no[r].pai)

LEMMA SeparaCampos ==
    ASSUME NEW u \in Arvore, u.raiz \in Page
    PROVE  /\ Separa(u) \in [Page -> No]
           /\ \A r \in Page : NoSeparado(u, Separa(u), r, u.raiz)
<1> DEFINE n == Separa(u)
           x == u.raiz
           E == u.no[x].esq
           D == u.no[x].dir
<1>1. n = [r \in Page |-> IF r = x THEN Livre
                          ELSE IF r \in {E, D} THEN [u.no[r] EXCEPT !.pai = Nulo]
                          ELSE u.no[r]]
  BY DEF Separa
<1> HIDE DEF n
<1>2. ASSUME NEW r \in Page
      PROVE  NoSeparado(u, n, r, x) /\ n[r] \in No
  <2> DEFINE v == u.no[r]
  <2>1. v \in No
    BY DEF Arvore
  <2>2. CASE r = x
    <3>1. Livre \in No
      BY BoundAssumption DEF Livre, No
    <3> QED BY <1>1, <2>2, <3>1 DEF NoSeparado
  <2>3. CASE r # x /\ r \in {E, D}
    <3>1. n[r] = [v EXCEPT !.pai = Nulo]
      BY <1>1, <2>3
    <3> HIDE DEF v
    <3>2. Campos(n[r], v, v.esq, v.dir, Nulo)
      BY <2>1, <3>1 DEF Campos, No
    <3> QED BY <2>3, <3>2 DEF NoSeparado, Campos, v
  <2>4. CASE r # x /\ r \notin {E, D}
    <3>1. n[r] = v
      BY <1>1, <2>4
    <3> HIDE DEF v
    <3>2. Campos(n[r], v, v.esq, v.dir, v.pai)
      BY <2>1, <3>1 DEF Campos
    <3> QED BY <2>4, <3>2 DEF NoSeparado, Campos, v
  <2> QED BY <2>2, <2>3, <2>4
<1>3. n \in [Page -> No]
  <2>1. n = [r \in Page |-> n[r]]
    BY <1>1
  <2> QED BY <1>2, <2>1
<1> QED BY <1>2, <1>3 DEF n

\* w is u without its root x; its subtrees, at E and D, are trees of their own.
Separada(u, live, s, x, w) ==
    /\ w \in Arvore
    /\ SemUma(u.no, w.no, x)
    /\ SearchTree(Forma(w.no, u.no[x].esq), live \cap Lower[x], s, Lower[x])
    /\ SearchTree(Forma(w.no, u.no[x].dir), live \cap Upper[x], s, Upper[x])

LEMMA SeparaDuas ==
    ASSUME NEW u, NEW live, NEW s, Boa(u, live, s), NEW x \in live, u.raiz = x
    PROVE  Separada(u, live, s, x, [u EXCEPT !.no = Separa(u)])
<1> DEFINE w == [u EXCEPT !.no = Separa(u)]
           h == Forma(u.no, u.raiz)
           E == u.no[x].esq
           D == u.no[x].dir
           hE == Forma(w.no, E)
           hD == Forma(w.no, D)
<1>1. x \in Page /\ u \in Arvore /\ live \subseteq Page
  BY FatosDaBoa DEF Boa
<1>2. Separa(u) \in [Page -> No] /\ \A r \in Page : NoSeparado(u, Separa(u), r, x)
  BY <1>1, SeparaCampos
<1>3. w \in Arvore /\ w.no = Separa(u)
  BY <1>1, <1>2 DEF Arvore
<1> HIDE DEF w
<1>4. \A r \in Page : NoSeparado(u, w.no, r, x)
  BY <1>2, <1>3
<1>5. SemUma(u.no, w.no, x)
  <2>1. Livre.dados = NULL
    BY DEF Livre
  <2> QED BY <1>1, <1>4, <2>1 DEF SemUma, NoSeparado, Campos
<1>6. /\ h.top = x /\ hE.top = E /\ hD.top = D
      /\ \A r \in Page : /\ h.l[r] = u.no[r].esq /\ h.r[r] = u.no[r].dir /\ h.pa[r] = u.no[r].pai
                         /\ hE.l[r] = w.no[r].esq /\ hE.r[r] = w.no[r].dir
                         /\ hE.pa[r] = w.no[r].pai
                         /\ hD.l[r] = w.no[r].esq /\ hD.r[r] = w.no[r].dir
                         /\ hD.pa[r] = w.no[r].pai
  BY DEF Forma
<1>7. SearchTree(h, live, s, Page)
  BY DEF Boa
<1> HIDE DEF h, hE, hD
<1>8. Cut(h, x, hE) /\ Cut(h, x, hD)
  <2>1. ASSUME NEW r \in Page \ {x}
        PROVE  /\ w.no[r].esq = u.no[r].esq /\ w.no[r].dir = u.no[r].dir
               /\ w.no[r].pai = IF r \in {u.no[x].esq, u.no[x].dir} THEN Nulo ELSE u.no[r].pai
    BY <1>4 DEF NoSeparado, Campos
  <2> QED BY <1>1, <1>6, <2>1 DEF Cut, Freed
<1>9. /\ hE.top = h.l[x] /\ hD.top = h.r[x]
      /\ Page \cap Lower[x] = Lower[x] /\ Page \cap Upper[x] = Upper[x]
  BY <1>1, <1>6 DEF Lower, Upper
<1>10. /\ SearchTree(hE, live \cap Lower[x], s, Page \cap Lower[x])
       /\ SearchTree(hD, live \cap Upper[x], s, Page \cap Upper[x])
  BY <1>6, <1>7, <1>8, <1>9, PaginasOK, CutTree
<1>11. /\ SearchTree(hE, live \cap Lower[x], s, Lower[x])
       /\ SearchTree(hD, live \cap Upper[x], s, Upper[x])
  BY <1>9, <1>10
<1> QED BY <1>3, <1>5, <1>11 DEF Separada, w, hE, hD

\* maximo finds the greatest node.
LEMMA MaximoAcha ==
    ASSUME NEW t, NEW q, NEW live, NEW s, NEW all,
           SearchTree(Forma(t.no, q), live, s, all), q # Nulo
    PROVE  Greatest(Forma(t.no, q), live, maximo(t, q))
<1> DEFINE h == Forma(t.no, q)
           g == [r \in Page |-> Ou(t.no[r].dir, r)]
<1>1. h.top = q /\ live \subseteq Page
  BY DEF Forma, SearchTree, Whole, Top
<1>2. maximo(t, q) = Walk(g, q)[Cardinality(Page)]
  BY DEF maximo, Andar, Walk
<1>3. \A r \in live : g[r] = IF h.r[r] = Nulo THEN r ELSE h.r[r]
  BY <1>1 DEF Forma, Ou
<1> HIDE DEF h, g
<1>4. SearchTree(h, live, s, all)
  BY DEF h
<1>5. Greatest(h, live, Walk(g, h.top)[Cardinality(Page)])
  BY <1>1, <1>3, <1>4, PaginasOK, Rightmost
<1> QED BY <1>1, <1>2, <1>5 DEF h

\* u is x with D to the right of m.
Ligada(x, m, D, u) ==
    /\ u \in Arvore /\ u.raiz = x.raiz
    /\ \A r \in Page : Campos(u.no[r], x.no[r], x.no[r].esq,
                              IF r = m THEN D ELSE x.no[r].dir,
                              IF r = D THEN m ELSE x.no[r].pai)

\* The two assignments that end Junta.
LEMMA LigaCampos ==
    ASSUME NEW x \in Arvore, NEW m \in Page, NEW D \in Page, m # D
    PROVE  Ligada(x, m, D, [x EXCEPT !.no[m].dir = D, !.no[D].pai = m])
<1> DEFINE u == [x EXCEPT !.no[m].dir = D, !.no[D].pai = m]
           n == x.no
           a == [n EXCEPT ![m] = [n[m] EXCEPT !.dir = D]]
           b == [a EXCEPT ![D] = [a[D] EXCEPT !.pai = m]]
<1>1. n \in [Page -> No] /\ No = [acessos: 0 .. MaxAcessos, esq: OuNulo, dir: OuNulo,
                                  pai: OuNulo, dados: Dados \cup {Vazio, NULL}]
      /\ m \in OuNulo /\ D \in OuNulo
  BY DEF Arvore, No, OuNulo
<1>2. x = [raiz |-> x.raiz, no |-> n, rotacoes |-> x.rotacoes] /\ x.raiz \in OuNulo
      /\ x.rotacoes \in Nat
  BY DEF Arvore, OuNulo
<1>3. u = [[x EXCEPT !.no = a] EXCEPT !.no = b]
  BY <1>1, <1>2
<1> HIDE DEF u, OuNulo
<1>4. /\ a \in [Page -> No]
      /\ \A r \in Page : Campos(a[r], n[r], n[r].esq, IF r = m THEN D ELSE n[r].dir, n[r].pai)
  <2> DEFINE k == [n[m] EXCEPT !.dir = D]
  <2>1. n[m] \in No
    BY <1>1
  <2>2. Campos(k, n[m], n[m].esq, D, n[m].pai)
    <3> HIDE DEF n
    <3> QED BY <1>1, <2>1 DEF Campos
  <2>3. k \in No
    BY <2>2 DEF Campos
  <2> HIDE DEF k, n
  <2> QED BY <1>1, <2>2, <2>3 DEF Campos
<1> HIDE DEF a
<1>5. /\ b \in [Page -> No]
      /\ \A r \in Page : Campos(b[r], a[r], a[r].esq, a[r].dir, IF r = D THEN m ELSE a[r].pai)
  <2> DEFINE k == [a[D] EXCEPT !.pai = m]
  <2>1. a[D] \in No
    BY <1>4
  <2>2. Campos(k, a[D], a[D].esq, a[D].dir, m)
    BY <1>1, <2>1 DEF Campos
  <2>3. k \in No
    BY <2>2 DEF Campos
  <2>4. b = [a EXCEPT ![D] = k]
    OBVIOUS
  <2> HIDE DEF k, b
  <2> QED BY <1>4, <2>2, <2>3, <2>4 DEF Campos
<1> HIDE DEF b
<1>6. u.no = b /\ u.raiz = x.raiz /\ u.rotacoes = x.rotacoes
      /\ u = [raiz |-> x.raiz, no |-> b, rotacoes |-> x.rotacoes]
  <2> HIDE DEF n
  <2> QED BY <1>2, <1>3
<1>7. u \in Arvore
  BY <1>2, <1>5, <1>6 DEF Arvore, OuNulo
<1>8. \A r \in Page : Campos(u.no[r], n[r], n[r].esq, IF r = m THEN D ELSE n[r].dir,
                             IF r = D THEN m ELSE n[r].pai)
  <2> HIDE DEF n
  <2> QED BY <1>4, <1>5, <1>6 DEF Campos
<1> QED BY <1>6, <1>7, <1>8 DEF Ligada, u, n

\* The greatest page of the left half comes to its top, and the right half hangs there.
LEMMA JuntaAmbas ==
    ASSUME NEW w \in Arvore, NEW x \in Page, NEW E, NEW D, NEW L1, NEW L2, NEW s,
           SearchTree(Forma(w.no, E), L1, s, Lower[x]), E # Nulo,
           SearchTree(Forma(w.no, D), L2, s, Upper[x]), D # Nulo
    PROVE  LET u == Junta(w, E, D) IN
           /\ \E sU : Boa(u, L1 \cup L2, sU)
           /\ MesmasPaginas(w.no, u.no)
<1> DEFINE m == maximo(w, E)
           v == [w EXCEPT !.raiz = E]
           y == splay(v, m)
           u == [y EXCEPT !.no[m].dir = D, !.no[D].pai = m]
           h1 == Forma(v.no, v.raiz)
           h2 == Forma(w.no, D)
           hy == Forma(y.no, y.raiz)
           i == Forma(u.no, u.raiz)
<1>1. Junta(w, E, D) = u
  BY DEF Junta
<1>2. /\ L1 \subseteq Page /\ L2 \subseteq Page /\ E \in L1 /\ D \in L2
      /\ Forma(w.no, E).top = E /\ h2.top = D
  BY DEF SearchTree, Whole, Top, Forma
<1>3. Greatest(Forma(w.no, E), L1, m)
  BY MaximoAcha
<1> HIDE DEF m
<1>4. v \in Arvore /\ v.no = w.no /\ v.raiz = E
  BY <1>2 DEF Arvore
<1> HIDE DEF v
<1>5. h1 = Forma(w.no, E)
  BY <1>4
<1>6. m \in L1 /\ m \in Page /\ \A q \in L1 : q = m \/ q \in Lower[m]
  BY <1>2, <1>3 DEF Greatest
<1>7. SplayFeito(v, L1, s, Lower[x], m, y)
  BY <1>4, <1>5, <1>6, SplayFaz
<1> HIDE DEF y
<1>8. /\ y \in Arvore /\ y.raiz = m /\ MesmasPaginas(w.no, y.no)
      /\ OnTop(h1, hy, L1, s, Lower[x], m)
  BY <1>4, <1>7 DEF SplayFeito
<1>9. PICK sY : SearchTree(hy, L1, sY, Lower[x])
  <2> HIDE DEF h1, hy
  <2> QED BY <1>8 DEF OnTop
<1>10. SameOutside(L1, h1, hy)
  <2> HIDE DEF h1, hy
  <2> QED BY <1>8 DEF OnTop
<1>11. \A q \in L2 : q \in Page /\ q \notin L1
  <2>1. \A q \in L2 : q \in Upper[x]
    <3> HIDE DEF h2
    <3>1. SearchTree(h2, L2, s, Upper[x])
      BY DEF h2
    <3> QED BY <3>1, PaginasOK, AllIn
  <2>2. \A q \in L1 : q \in Lower[x]
    <3> HIDE DEF hy
    <3> QED BY <1>9, PaginasOK, AllIn
  <2>3. Sides(Lower, Upper)
    BY PaginasOK, LowerUpper
  <2> QED BY <1>2, <2>1, <2>2, <2>3 DEF Sides
<1>12. m # D /\ D \in Page
  BY <1>2, <1>6, <1>11
<1>13. /\ u \in Arvore /\ u.raiz = m
       /\ \A r \in Page : Campos(u.no[r], y.no[r], y.no[r].esq,
                                 IF r = m THEN D ELSE y.no[r].dir,
                                 IF r = D THEN m ELSE y.no[r].pai)
  <2>1. Ligada(y, m, D, u)
    BY <1>6, <1>8, <1>12, LigaCampos
  <2> HIDE DEF u
  <2> QED BY <1>8, <2>1 DEF Ligada
<1> HIDE DEF u
<1>14. /\ \A r \in Page : /\ h1.l[r] = w.no[r].esq /\ h1.r[r] = w.no[r].dir
                          /\ h1.pa[r] = w.no[r].pai
                          /\ h2.l[r] = w.no[r].esq /\ h2.r[r] = w.no[r].dir
                          /\ h2.pa[r] = w.no[r].pai
                          /\ hy.l[r] = y.no[r].esq /\ hy.r[r] = y.no[r].dir
                          /\ hy.pa[r] = y.no[r].pai
                          /\ i.l[r] = u.no[r].esq /\ i.r[r] = u.no[r].dir
                          /\ i.pa[r] = u.no[r].pai
       /\ hy.top = m /\ i.top = m
  BY <1>4, <1>8, <1>13 DEF Forma
<1>15. SearchTree(h2, L2, s, Upper[x])
  OBVIOUS
<1> HIDE DEF h1, h2, hy, i
<1>16. Glued(hy, L1, m, h2, L2, D, i)
  <2>1. ASSUME NEW q \in L1
        PROVE  /\ i.l[q] = hy.l[q] /\ i.pa[q] = hy.pa[q]
               /\ i.r[q] = IF q = m THEN D ELSE hy.r[q]
    BY <1>2, <1>11, <1>13, <1>14 DEF Campos
  <2>2. ASSUME NEW q \in L2
        PROVE  /\ i.l[q] = h2.l[q] /\ i.r[q] = h2.r[q]
               /\ i.pa[q] = IF q = D THEN m ELSE h2.pa[q]
    <3>1. q \in Page /\ q \notin L1 /\ q # m
      BY <1>6, <1>11
    <3>2. hy.l[q] = h1.l[q] /\ hy.r[q] = h1.r[q] /\ hy.pa[q] = h1.pa[q]
      BY <1>10, <3>1 DEF SameOutside
    <3> QED BY <1>13, <1>14, <3>1, <3>2 DEF Campos
  <2> QED BY <1>14, <2>1, <2>2 DEF Glued
<1>17. m # Nulo
  BY <1>6, PaginasOK DEF PagesOK
<1>18. \E sU : SearchTree(i, L1 \cup L2, sU, Page)
  BY <1>2, <1>6, <1>9, <1>14, <1>15, <1>16, <1>17, PaginasOK, TwoHalves
<1>19. MesmasPaginas(w.no, u.no)
  BY <1>8, <1>13 DEF MesmasPaginas, Campos
<1> QED BY <1>1, <1>13, <1>18, <1>19 DEF Boa, i

LEMMA RemoverSplayLeva ==
    ASSUME NEW t, NEW live, NEW s, Boa(t, live, s), NEW id \in live
    PROVE  LET u == removerSplay(t, id) IN
           /\ \E sU : Boa(u, live \ {id}, sU)
           /\ SemUma(t.no, u.no, id)
<1> DEFINE v == buscarSplay(t, id)
           E == v.no[id].esq
           D == v.no[id].dir
           w == [v EXCEPT !.no = Separa(v)]
           u == Junta(w, E, D)
           L1 == live \cap Lower[id]
           L2 == live \cap Upper[id]
<1>1. id \in Page /\ live \subseteq Page
  BY FatosDaBoa
<1>2. buscar(t, id) /\ Fim(t, id) = id
  BY <1>1, BuscarAcha DEF buscar
<1>3. removerSplay(t, id) = u
  BY <1>2 DEF removerSplay
<1>4. Leva(t, live, v, IF id = Nulo THEN 0 ELSE Depth(live, s, id)) /\ v.raiz = id
  <2> HIDE DEF v
  <2> QED BY <1>1, <1>2, BuscarSplayLeva DEF v
<1> HIDE DEF v
<1>5. PICK sV : Boa(v, live, sV)
  BY <1>4 DEF Leva
<1>6. Separada(v, live, sV, id, w)
  BY <1>4, <1>5, SeparaDuas
<1> HIDE DEF w
<1>7. /\ w \in Arvore /\ SemUma(v.no, w.no, id)
      /\ SearchTree(Forma(w.no, E), L1, sV, Lower[id])
      /\ SearchTree(Forma(w.no, D), L2, sV, Upper[id])
  BY <1>6 DEF Separada
<1>8. L1 \cup L2 = live \ {id}
  <2>1. Sides(Lower, Upper)
    BY PaginasOK, LowerUpper
  <2> QED BY <1>1, <2>1 DEF Sides
<1>9. E \in OuNulo /\ D \in OuNulo
  BY <1>1, <1>5 DEF Boa, Arvore, No, OuNulo
<1>10. SemUma(t.no, w.no, id)
  BY <1>4, <1>7 DEF Leva, MesmasPaginas, SemUma
<1> HIDE DEF E, D
<1>11. /\ Lower[id] \in {Lower[id], Upper[id]} /\ Upper[id] \in {Lower[id], Upper[id]}
       /\ Lower[id] \subseteq Page /\ Upper[id] \subseteq Page
  BY <1>1 DEF Lower, Upper
<1>12. CASE E = Nulo
  <2>1. u = [w EXCEPT !.raiz = D]
    BY <1>12 DEF Junta
  <2>2. L1 = {}
    BY <1>7, <1>12 DEF SearchTree, Whole, Top, Forma
  <2> HIDE DEF u, L1, L2
  <2>3. u \in Arvore /\ u.no = w.no /\ u.raiz = D
    BY <1>7, <1>9, <2>1 DEF Arvore, OuNulo
  <2>4. \E sU : SearchTree(Forma(w.no, D), L2, sU, Page)
    BY <1>1, <1>7, <1>11, PaginasOK, OneHalf
  <2>5. L2 = live \ {id}
    BY <1>8, <2>2
  <2> QED BY <1>3, <1>10, <2>3, <2>4, <2>5 DEF Boa, u
<1>13. CASE E # Nulo /\ D = Nulo
  <2>1. u = [w EXCEPT !.raiz = E]
    BY <1>13 DEF Junta
  <2>2. L2 = {}
    BY <1>7, <1>13 DEF SearchTree, Whole, Top, Forma
  <2> HIDE DEF u, L1, L2
  <2>3. u \in Arvore /\ u.no = w.no /\ u.raiz = E
    BY <1>7, <1>9, <2>1 DEF Arvore, OuNulo
  <2>4. \E sU : SearchTree(Forma(w.no, E), L1, sU, Page)
    BY <1>1, <1>7, <1>11, PaginasOK, OneHalf
  <2>5. L1 = live \ {id}
    BY <1>8, <2>2
  <2> QED BY <1>3, <1>10, <2>3, <2>4, <2>5 DEF Boa, u
<1>14. CASE E # Nulo /\ D # Nulo
  <2> HIDE DEF L1, L2
  <2>1. (\E sU : Boa(u, L1 \cup L2, sU)) /\ MesmasPaginas(w.no, u.no)
    BY <1>1, <1>7, <1>14, JuntaAmbas
  <2> HIDE DEF u
  <2>2. SemUma(t.no, u.no, id)
    BY <1>1, <1>10, <2>1 DEF SemUma, MesmasPaginas
  <2> QED BY <1>3, <1>8, <2>1, <2>2 DEF u
<1> QED BY <1>12, <1>13, <1>14

-----------------------------------------------------------------------------
(* Walking the tree.                                                       *)

Visita == [id: Page, prof: Int]

\* f[k] is what visita[k] is in Percurso.
Visitas(t, f) ==
    /\ \A q \in OuNulo : f[0][q] = <<>>
    /\ \A k \in Nat : \A q \in OuNulo :
          f[k + 1][q] = IF q = Nulo THEN <<>>
                        ELSE <<[id |-> q, prof |-> Cardinality(Page) - (k + 1)]>>
                             \o f[k][t.no[q].esq] \o f[k][t.no[q].dir]

LEMMA PercursoVisita ==
    ASSUME NEW t \in Arvore
    PROVE  \E f \in [Nat -> [OuNulo -> Seq(Visita)]] :
              Visitas(t, f) /\ \A q \in OuNulo : Percurso(t, q) = f[Cardinality(Page)][q]
<1> DEFINE N == Cardinality(Page)
           S == [OuNulo -> Seq(Visita)]
           a == [q \in OuNulo |-> <<>>]
           passo(k, v) == [q \in OuNulo |->
                             IF q = Nulo THEN <<>>
                             ELSE <<[id |-> q, prof |-> N - (k + 1)]>>
                                  \o v[t.no[q].esq] \o v[t.no[q].dir]]
           g == [k \in Nat |-> [v \in S |-> passo(k, v)]]
           Is(f) == f = [k \in Nat |->
                           LET abaixo == f[k - 1] IN
                           [r \in Page \cup {Nulo} |->
                              IF k = 0 \/ r = Nulo THEN <<>>
                              ELSE <<[id |-> r, prof |-> N - k]>>
                                   \o abaixo[t.no[r].esq] \o abaixo[t.no[r].dir]]]
           visita == CHOOSE visita : Is(visita)
<1>1. N \in Nat
  BY PageAssumption, FS_CardinalityType
<1>2. \A q \in OuNulo : Percurso(t, q) = visita[N][q]
  BY DEF Percurso
<1>3. \A q \in Page : t.no[q].esq \in OuNulo /\ t.no[q].dir \in OuNulo
  BY TiposDaArvore
<1> HIDE DEF N
<1>4. a \in S
  OBVIOUS
<1>5. \A k \in Nat : \A v \in S : g[k][v] = passo(k, v) /\ passo(k, v) \in S
  <2>1. ASSUME NEW k \in Nat, NEW v \in S PROVE passo(k, v) \in S
    <3>1. ASSUME NEW q \in OuNulo, q # Nulo
          PROVE  <<[id |-> q, prof |-> N - (k + 1)]>>
                 \o v[t.no[q].esq] \o v[t.no[q].dir] \in Seq(Visita)
      <4>1. q \in Page
        BY <3>1 DEF OuNulo
      <4>2. [id |-> q, prof |-> N - (k + 1)] \in Visita
        BY <1>1, <4>1 DEF Visita
      <4>3. v[t.no[q].esq] \in Seq(Visita) /\ v[t.no[q].dir] \in Seq(Visita)
        BY <1>3, <4>1
      <4> QED BY <4>2, <4>3
    <3>2. <<>> \in Seq(Visita)
      OBVIOUS
    <3> QED BY <3>1, <3>2
  <2> HIDE DEF S
  <2> QED BY <2>1
<1>6. PICK e \in [Nat -> S] : GoesOn(a, g, e)
  <2>1. Stays(S, g)
    <3> HIDE DEF S, g, passo
    <3> QED BY <1>5 DEF Stays
  <2> HIDE DEF S, a, g, passo
  <2> QED BY <1>4, <2>1, LoopAt
<1>7. e[0] = a /\ \A k \in Nat : e[k] \in S /\ e[k + 1] = passo(k, e[k])
  <2> HIDE DEF S, g, passo, a
  <2> QED BY <1>5, <1>6 DEF GoesOn
<1>8. Is(e)
  <2>1. ASSUME NEW k \in Nat
        PROVE  e[k] = [r \in Page \cup {Nulo} |->
                         IF k = 0 \/ r = Nulo THEN <<>>
                         ELSE <<[id |-> r, prof |-> N - k]>>
                              \o e[k - 1][t.no[r].esq] \o e[k - 1][t.no[r].dir]]
    <3>1. CASE k = 0
      <4>1. e[k] = [r \in Page \cup {Nulo} |-> <<>>]
        BY <1>7, <3>1 DEF OuNulo
      <4> QED BY <3>1, <4>1
    <3>2. CASE k # 0
      <4>1. k - 1 \in Nat /\ (k - 1) + 1 = k
        BY <3>2
      <4>2. e[k] = passo(k - 1, e[k - 1])
        <5> HIDE DEF passo, S
        <5> QED BY <1>7, <4>1
      <4>3. e[k] = [r \in Page \cup {Nulo} |->
                      IF r = Nulo THEN <<>>
                      ELSE <<[id |-> r, prof |-> N - k]>>
                           \o e[k - 1][t.no[r].esq] \o e[k - 1][t.no[r].dir]]
        BY <4>1, <4>2 DEF OuNulo
      <4> QED BY <3>2, <4>3
    <3> QED BY <3>1, <3>2
  <2>2. e = [k \in Nat |-> e[k]]
    BY <1>6
  <2> QED BY <2>1, <2>2
<1>9. Is(visita)
  <2> HIDE DEF Is
  <2> QED BY <1>8
<1> HIDE DEF visita
<1>10. \A k \in Nat : visita[k] = [r \in Page \cup {Nulo} |->
                                  IF k = 0 \/ r = Nulo THEN <<>>
                                  ELSE <<[id |-> r, prof |-> N - k]>>
                                       \o visita[k - 1][t.no[r].esq]
                                       \o visita[k - 1][t.no[r].dir]]
  BY <1>9
<1>11. /\ visita[0] = a
       /\ \A k \in Nat : visita[k + 1] = passo(k, visita[k])
  <2>1. visita[0] = a
    BY <1>10 DEF OuNulo
  <2>2. ASSUME NEW k \in Nat PROVE visita[k + 1] = passo(k, visita[k])
    <3>1. k + 1 \in Nat /\ k + 1 # 0 /\ (k + 1) - 1 = k
      OBVIOUS
    <3>2. visita[k + 1] = [r \in Page \cup {Nulo} |->
                             IF r = Nulo THEN <<>>
                             ELSE <<[id |-> r, prof |-> N - (k + 1)]>>
                                  \o visita[k][t.no[r].esq]
                                  \o visita[k][t.no[r].dir]]
      BY <1>10, <3>1
    <3> QED BY <3>2 DEF OuNulo
  <2> HIDE DEF passo, a
  <2> QED BY <2>1, <2>2
<1> DEFINE I == {k \in Nat : visita[k] \in S}
<1>12. Nat \subseteq I
  <2>1. 0 \in I
    BY <1>4, <1>11
  <2>2. ASSUME NEW k \in Nat, k \in I PROVE k + 1 \in I
    <3> HIDE DEF passo, S
    <3> QED BY <1>5, <1>11, <2>2
  <2> HIDE DEF I
  <2> QED BY <2>1, <2>2, NatSteps
<1>13. visita \in [Nat -> S]
  <2>1. visita = [k \in Nat |-> visita[k]]
    <3> DEFINE R(k) == [r \in Page \cup {Nulo} |->
                          IF k = 0 \/ r = Nulo THEN <<>>
                          ELSE <<[id |-> r, prof |-> N - k]>>
                               \o visita[k - 1][t.no[r].esq]
                               \o visita[k - 1][t.no[r].dir]]
    <3>1. visita = [k \in Nat |-> R(k)]
      BY <1>9
    <3> HIDE DEF R
    <3> QED BY <3>1
  <2>2. \A k \in Nat : visita[k] \in S
    BY <1>12
  <2> HIDE DEF S, I
  <2> QED BY <2>1, <2>2
<1>14. Visitas(t, visita)
  <2>1. \A q \in OuNulo : visita[0][q] = <<>>
    BY <1>11
  <2>2. ASSUME NEW k \in Nat, NEW q \in OuNulo
        PROVE  visita[k + 1][q] = IF q = Nulo THEN <<>>
                                  ELSE <<[id |-> q, prof |-> N - (k + 1)]>>
                                       \o visita[k][t.no[q].esq] \o visita[k][t.no[q].dir]
    BY <1>11
  <2> QED BY <2>1, <2>2 DEF Visitas, N
<1> HIDE DEF S
<1> QED BY <1>2, <1>13, <1>14 DEF N, S

\* nos visits the pages in A once each, each with its depth, counted from d.
Visita1(nos, A, live, s, d) ==
    /\ nos \in Seq(Visita)
    /\ \A i \in 1 .. Len(nos) : nos[i].id \in A /\ nos[i].prof = Depth(live, s, nos[i].id) + d
    /\ \A q \in A : \E i \in 1 .. Len(nos) : nos[i].id = q
    /\ IsFiniteSet(A) /\ Len(nos) = Cardinality(A)

LEMMA VisitaNada ==
    ASSUME NEW live, NEW s, NEW d
    PROVE  Visita1(<<>>, {}, live, s, d)
<1>1. <<>> \in Seq(Visita) /\ Len(<<>>) = 0
  OBVIOUS
<1>2. IsFiniteSet({}) /\ Cardinality({}) = 0
  BY FS_EmptySet
<1> QED BY <1>1, <1>2 DEF Visita1

LEMMA VisitaUm ==
    ASSUME NEW live, NEW s, NEW d \in Int, NEW q \in Page, Depth(live, s, q) \in Int,
           NEW p, p = Depth(live, s, q) + d
    PROVE  Visita1(<<[id |-> q, prof |-> p]>>, {q}, live, s, d)
<1> DEFINE v == [id |-> q, prof |-> p]
<1>1. v \in Visita /\ v.id = q /\ v.prof = p
  BY DEF Visita
<1> HIDE DEF v
<1>2. <<v>> \in Seq(Visita) /\ Len(<<v>>) = 1 /\ <<v>>[1] = v
  BY <1>1
<1>3. IsFiniteSet({q}) /\ Cardinality({q}) = 1
  BY FS_Singleton
<1>4. 1 .. 1 = {1}
  OBVIOUS
<1> DEFINE nos == <<v>>
<1> HIDE DEF nos
<1>5. Visita1(nos, {q}, live, s, d)
  BY <1>1, <1>2, <1>3, <1>4 DEF Visita1, nos
<1> QED BY <1>5 DEF nos, v

LEMMA VisitaEmenda ==
    ASSUME NEW live, NEW s, NEW d, NEW a, NEW A, NEW b, NEW B,
           Visita1(a, A, live, s, d), Visita1(b, B, live, s, d), A \cap B = {}
    PROVE  Visita1(a \o b, A \cup B, live, s, d)
<1> DEFINE c == a \o b
           n == Len(a)
           m == Len(b)
<1>1. /\ a \in Seq(Visita) /\ b \in Seq(Visita) /\ n \in Nat /\ m \in Nat
      /\ IsFiniteSet(A) /\ IsFiniteSet(B) /\ n = Cardinality(A) /\ m = Cardinality(B)
  BY DEF Visita1
<1>2. /\ c \in Seq(Visita) /\ Len(c) = n + m
      /\ \A i \in 1 .. n + m : c[i] = IF i <= n THEN a[i] ELSE b[i - n]
  BY <1>1, ConcatProperties
<1>3. IsFiniteSet(A \cup B) /\ Cardinality(A \cup B) = n + m
  <2>1. /\ IsFiniteSet(A \cup B)
        /\ Cardinality(A \cup B) = Cardinality(A) + Cardinality(B) - Cardinality(A \cap B)
    BY <1>1, FS_Union
  <2>2. Cardinality(A \cap B) = 0
    BY FS_EmptySet
  <2> HIDE DEF n, m
  <2> QED BY <1>1, <2>1, <2>2
<1> HIDE DEF c, n, m
<1>4. /\ \A i \in 1 .. n : a[i].id \in A /\ a[i].prof = Depth(live, s, a[i].id) + d
      /\ \A q \in A : \E i \in 1 .. n : a[i].id = q
      /\ \A i \in 1 .. m : b[i].id \in B /\ b[i].prof = Depth(live, s, b[i].id) + d
      /\ \A q \in B : \E i \in 1 .. m : b[i].id = q
  BY DEF Visita1, n, m
<1>5. ASSUME NEW i \in 1 .. n + m
      PROVE  c[i].id \in A \cup B /\ c[i].prof = Depth(live, s, c[i].id) + d
  <2>1. CASE i <= n
    <3>1. i \in 1 .. n
      BY <1>1, <2>1
    <3> QED BY <1>2, <1>4, <2>1, <3>1
  <2>2. CASE ~(i <= n)
    <3>1. i - n \in 1 .. m
      BY <1>1, <2>2
    <3> DEFINE j == i - n
    <3> HIDE DEF j
    <3>2. c[i] = b[j] /\ j \in 1 .. m
      BY <1>2, <2>2, <3>1 DEF j
    <3> QED BY <1>4, <3>2
  <2> QED BY <2>1, <2>2
<1>6. ASSUME NEW q \in A \cup B PROVE \E i \in 1 .. n + m : c[i].id = q
  <2>1. CASE q \in A
    <3>1. PICK i \in 1 .. n : a[i].id = q
      BY <1>4, <2>1
    <3>2. i \in 1 .. n + m /\ i <= n
      BY <1>1
    <3> QED BY <1>2, <3>1, <3>2
  <2>2. CASE q \in B
    <3>1. PICK j \in 1 .. m : b[j].id = q
      BY <1>4, <2>2
    <3>2. n + j \in 1 .. n + m /\ ~(n + j <= n) /\ (n + j) - n = j
      BY <1>1
    <3>3. c[n + j] = b[j]
      BY <1>2, <3>2
    <3> QED BY <3>1, <3>2, <3>3
  <2> QED BY <2>1, <2>2
<1>7. Visita1(c, A \cup B, live, s, d)
  BY <1>2, <1>3, <1>5, <1>6 DEF Visita1
<1> QED BY <1>7 DEF c

\* The nodes below q, and q.
Sub(live, s, q) == IF q = Nulo THEN {} ELSE s[q] \cap live

\* They are q and those below its children, which are fewer.
Partes(live, s, q, e, d) ==
    /\ Sub(live, s, q) = ({q} \cup Sub(live, s, e)) \cup Sub(live, s, d)
    /\ {q} \cap Sub(live, s, e) = {}
    /\ ({q} \cup Sub(live, s, e)) \cap Sub(live, s, d) = {}
    /\ Depth(live, s, q) \in Nat
    /\ \A c \in {e, d} : c # Nulo => /\ c \in live
                                     /\ Depth(live, s, c) = Depth(live, s, q) + 1
                                     /\ Cardinality(s[c]) < Cardinality(s[q])
    /\ Cardinality(s[q]) \in Nat /\ q \in s[q]

LEMMA PartesDoNo ==
    ASSUME NEW h, NEW live, NEW s, NEW all, SearchTree(h, live, s, all), NEW q \in live
    PROVE  Partes(live, s, q, h.l[q], h.r[q])
<1> DEFINE e == h.l[q]  d == h.r[q]  pa == h.pa
<1>1. /\ q \in Page /\ q \in s[q] /\ s[q] \subseteq Page
      /\ IF e = Nulo THEN s[q] \cap Lower[q] \cap live = {}
         ELSE e \in live /\ pa[e] = q /\ e # q /\ s[e] = s[q] \cap Lower[q]
      /\ IF d = Nulo THEN s[q] \cap Upper[q] \cap live = {}
         ELSE d \in live /\ pa[d] = q /\ d # q /\ s[d] = s[q] \cap Upper[q]
  <2>1. Kids(h, live, s, q)
    BY PaginasOK, KidsAre
  <2> QED BY <2>1 DEF Kids
<1>2. Sides(Lower, Upper) /\ live \subseteq Page /\ q # Nulo
  <2>1. Sides(Lower, Upper) /\ Nulo \notin Page
    BY PaginasOK, LowerUpper DEF PagesOK
  <2> QED BY <1>1, <2>1 DEF SearchTree, Whole, Top
<1>3. Depth(live, s, q) \in Nat
  BY PaginasOK, AboveChild
<1>4. ASSUME NEW c \in {e, d}, c # Nulo
      PROVE  /\ c \in live /\ Depth(live, s, c) = Depth(live, s, q) + 1
             /\ Cardinality(s[c]) < Cardinality(s[q])
  <2>1. c \in live /\ pa[c] = q /\ s[c] \subseteq s[q]
    BY <1>1, <1>4
  <2>2. q \notin s[c]
    BY <1>1, <1>2, <1>4 DEF Sides
  <2>3. Depth(live, s, c) = Depth(live, s, q) + 1
    BY <1>2, <2>1, PaginasOK, AboveChild
  <2>4. IsFiniteSet(s[q])
    BY <1>1, PageAssumption, FS_Subset
  <2>5. Cardinality(s[c]) < Cardinality(s[q])
    <3>1. s[c] # s[q]
      BY <1>1, <2>2
    <3>2. IsFiniteSet(s[c]) /\ Cardinality(s[c]) <= Cardinality(s[q])
          /\ (Cardinality(s[c]) = Cardinality(s[q]) => s[c] = s[q])
      BY <2>1, <2>4, FS_Subset
    <3>3. Cardinality(s[c]) \in Nat /\ Cardinality(s[q]) \in Nat
      BY <2>4, <3>2, FS_CardinalityType
    <3> QED BY <3>1, <3>2, <3>3
  <2> QED BY <2>1, <2>3, <2>5
<1>5. Cardinality(s[q]) \in Nat
  BY <1>1, PageAssumption, FS_Subset, FS_CardinalityType
<1> HIDE DEF e, d, pa
<1>6. /\ Sub(live, s, q) = s[q] \cap live
      /\ Sub(live, s, e) = s[q] \cap Lower[q] \cap live
      /\ Sub(live, s, d) = s[q] \cap Upper[q] \cap live
  BY <1>1, <1>2 DEF Sub
<1>7. /\ Sub(live, s, q) = ({q} \cup Sub(live, s, e)) \cup Sub(live, s, d)
      /\ {q} \cap Sub(live, s, e) = {}
      /\ ({q} \cup Sub(live, s, e)) \cap Sub(live, s, d) = {}
  BY <1>1, <1>2, <1>6 DEF Sides
<1> QED BY <1>1, <1>3, <1>4, <1>5, <1>7 DEF Partes, e, d

\* From any node, the walk visits the nodes below it.
LEMMA PercursoFeito ==
    ASSUME NEW t, NEW live, NEW s, Boa(t, live, s), NEW q \in live \cup {Nulo}
    PROVE  Visita1(Percurso(t, q), Sub(live, s, q), live, s,
                   IF q = Nulo THEN 0 ELSE 0 - Depth(live, s, q))
<1> DEFINE N == Cardinality(Page)
           h == Forma(t.no, t.raiz)
           D == [r \in live \cup {Nulo} |-> IF r = Nulo THEN 0 ELSE Depth(live, s, r)]
           C == [r \in live \cup {Nulo} |-> IF r = Nulo THEN 0 ELSE Cardinality(s[r])]
<1>1. t \in Arvore /\ live \subseteq Page /\ SearchTree(h, live, s, Page)
  BY FatosDaBoa DEF Boa
<1>2. PICK f \in [Nat -> [OuNulo -> Seq(Visita)]] :
         Visitas(t, f) /\ \A r \in OuNulo : Percurso(t, r) = f[N][r]
  BY <1>1, PercursoVisita
<1>3. N \in Nat /\ Nulo \notin live
  <2>1. Nulo \notin Page
    BY PaginasOK DEF PagesOK
  <2> QED BY <1>1, <2>1, PageAssumption, FS_CardinalityType
<1>4. ASSUME NEW r \in live
      PROVE  Partes(live, s, r, t.no[r].esq, t.no[r].dir) /\ s[r] \subseteq Page
  <2>1. h.l[r] = t.no[r].esq /\ h.r[r] = t.no[r].dir
    BY <1>1 DEF Forma
  <2> HIDE DEF h
  <2>2. s[r] \subseteq Page
    BY <1>1 DEF SearchTree, Whole, Top
  <2> QED BY <1>1, <2>1, <2>2, PartesDoNo
<1> HIDE DEF N, h
<1>5. ASSUME NEW r \in live
      PROVE  /\ C[r] = Cardinality(s[r]) /\ C[r] \in Nat /\ C[r] > 0
             /\ D[r] = Depth(live, s, r) /\ D[r] \in Nat
  <2>1. /\ Cardinality(s[r]) \in Nat /\ r \in s[r] /\ Depth(live, s, r) \in Nat
        /\ r # Nulo
    BY <1>3, <1>4 DEF Partes
  <2>2. IsFiniteSet(s[r])
    BY <1>4, PageAssumption, FS_Subset
  <2>3. Cardinality(s[r]) # 0
    BY <2>1, <2>2, FS_EmptySet
  <2> QED BY <2>1, <2>3
<1>6. C[Nulo] = 0 /\ D[Nulo] = 0
  OBVIOUS
<1> HIDE DEF C, D
<1> DEFINE Vista(k, r) == Visita1(f[k][r], Sub(live, s, r), live, s, N - k - D[r])
           I == {k \in Nat : \A r \in live \cup {Nulo} : C[r] <= k => Vista(k, r)}
<1>7. ASSUME NEW k \in Nat, NEW d PROVE Visita1(f[k][Nulo], Sub(live, s, Nulo), live, s, d)
  <2>1. f[k][Nulo] = <<>>
    <3>1. CASE k = 0
      BY <1>2, <3>1 DEF Visitas, OuNulo
    <3>2. CASE k # 0
      <4>1. k - 1 \in Nat /\ (k - 1) + 1 = k /\ Nulo \in OuNulo
        BY <3>2 DEF OuNulo
      <4> QED BY <1>2, <4>1 DEF Visitas
    <3> QED BY <3>1, <3>2
  <2>2. Sub(live, s, Nulo) = {}
    BY DEF Sub
  <2> QED BY <2>1, <2>2, VisitaNada
<1>8. Nat \subseteq I
  <2>1. 0 \in I
    <3>1. ASSUME NEW r \in live \cup {Nulo}, C[r] <= 0 PROVE Vista(0, r)
      <4>1. r = Nulo
        BY <1>5, <3>1
      <4> QED BY <1>7, <4>1
    <3> HIDE DEF Vista
    <3> QED BY <3>1
  <2>2. ASSUME NEW k \in Nat, k \in I PROVE k + 1 \in I
    <3>1. ASSUME NEW r \in live \cup {Nulo}, C[r] <= k + 1 PROVE Vista(k + 1, r)
      <4>1. CASE r = Nulo
        <5>1. k + 1 \in Nat
          OBVIOUS
        <5> QED BY <1>7, <4>1, <5>1
      <4>2. CASE r # Nulo
        <5> DEFINE e == t.no[r].esq
                   g == t.no[r].dir
                   o == N - (k + 1) - D[r]
                   v == <<[id |-> r, prof |-> N - (k + 1)]>>
        <5>1. r \in live /\ r \in Page /\ Partes(live, s, r, e, g)
          BY <1>1, <1>4, <3>1, <4>2
        <5>2. /\ D[r] = Depth(live, s, r) /\ D[r] \in Nat /\ C[r] \in Nat
              /\ C[r] = Cardinality(s[r])
          BY <1>5, <5>1
        <5>3. f[k + 1][r] = v \o f[k][e] \o f[k][g]
          BY <1>2, <4>2, <5>1 DEF Visitas, OuNulo, N
        <5>4. Visita1(v, {r}, live, s, o)
          <6>1. N - (k + 1) = Depth(live, s, r) + o /\ o \in Int
            BY <1>3, <5>2
          <6> HIDE DEF o
          <6> QED BY <5>1, <5>2, <6>1, VisitaUm
        <5>5. ASSUME NEW c \in {e, g}
              PROVE  Visita1(f[k][c], Sub(live, s, c), live, s, o)
          <6>1. CASE c = Nulo
            BY <1>7, <6>1
          <6>2. CASE c # Nulo
            <7>1. c \in live /\ Depth(live, s, c) = Depth(live, s, r) + 1
                  /\ Cardinality(s[c]) < Cardinality(s[r])
              BY <5>1, <6>2 DEF Partes
            <7>2. D[c] = D[r] + 1 /\ C[c] < C[r] /\ C[c] \in Nat
              BY <1>5, <5>2, <7>1
            <7>3. C[c] <= k /\ N - k - D[c] = o
              BY <1>3, <3>1, <5>2, <7>2
            <7>4. Vista(k, c)
              <8> HIDE DEF Vista
              <8> QED BY <2>2, <7>1, <7>3
            <7> HIDE DEF o
            <7> QED BY <7>3, <7>4
          <6> QED BY <6>1, <6>2
        <5> HIDE DEF o, v
        <5>6. Visita1(v \o f[k][e], {r} \cup Sub(live, s, e), live, s, o)
          BY <5>1, <5>4, <5>5, VisitaEmenda DEF Partes
        <5>7. Visita1(v \o f[k][e] \o f[k][g], ({r} \cup Sub(live, s, e)) \cup Sub(live, s, g),
                      live, s, o)
          BY <5>1, <5>5, <5>6, VisitaEmenda DEF Partes
        <5>8. Visita1(f[k + 1][r], Sub(live, s, r), live, s, o)
          BY <5>1, <5>3, <5>7 DEF Partes
        <5> QED BY <5>8 DEF o
      <4> QED BY <4>1, <4>2
    <3> HIDE DEF Vista
    <3> QED BY <2>2, <3>1
  <2> HIDE DEF I
  <2> QED BY <2>1, <2>2, NatSteps
<1>9. C[q] <= N
  <2>1. CASE q = Nulo
    BY <1>3, <1>6, <2>1
  <2>2. CASE q # Nulo
    <3>1. C[q] = Cardinality(s[q]) /\ s[q] \subseteq Page
      BY <1>4, <1>5, <2>2
    <3> QED BY <3>1, PageAssumption, FS_Subset DEF N
  <2> QED BY <2>1, <2>2
<1>10. Vista(N, q)
  <2> HIDE DEF Vista
  <2> QED BY <1>3, <1>8, <1>9
<1>11. Percurso(t, q) = f[N][q]
  BY <1>1, <1>2 DEF OuNulo
<1>12. N - N - D[q] = IF q = Nulo THEN 0 ELSE 0 - Depth(live, s, q)
  <2>1. CASE q = Nulo
    BY <1>3, <1>6, <2>1
  <2>2. CASE q # Nulo
    BY <1>3, <1>5, <2>2
  <2> QED BY <2>1, <2>2
<1> QED BY <1>10, <1>11, <1>12

LEMMA AbaixoFeito ==
    ASSUME NEW t, NEW live, NEW s, Boa(t, live, s), NEW q \in live \cup {Nulo}
    PROVE  /\ Abaixo(t, q) = Sub(live, s, q)
           /\ Len(Percurso(t, q)) = Cardinality(Sub(live, s, q))
<1> DEFINE nos == Percurso(t, q)
           A == Sub(live, s, q)
           d == IF q = Nulo THEN 0 ELSE 0 - Depth(live, s, q)
<1>1. Visita1(nos, A, live, s, d)
  BY PercursoFeito
<1>2. Abaixo(t, q) = {nos[i].id : i \in DOMAIN nos}
  BY DEF Abaixo, Range
<1> HIDE DEF nos, A, d
<1>3. /\ nos \in Seq(Visita) /\ DOMAIN nos = 1 .. Len(nos)
      /\ \A i \in 1 .. Len(nos) : nos[i].id \in A
      /\ \A r \in A : \E i \in 1 .. Len(nos) : nos[i].id = r
      /\ Len(nos) = Cardinality(A)
  BY <1>1 DEF Visita1
<1>4. {nos[i].id : i \in DOMAIN nos} = A
  BY <1>3
<1> QED BY <1>2, <1>3, <1>4 DEF nos, A

\* Below the root is the whole tree.
LEMMA SubDaRaiz ==
    ASSUME NEW t, NEW live, NEW s, Boa(t, live, s)
    PROVE  Sub(live, s, t.raiz) = live
BY DEF Sub, Boa, SearchTree, Whole, Top, Forma

-----------------------------------------------------------------------------
(* The victims.                                                            *)

\* A node of a walk from the root: its depth is one that Score speaks of.
NaArvore == [id: Page, prof: 0 .. Cardinality(Page)]

LEMMA FatosDoScore ==
    ASSUME NEW t \in Arvore, NEW v \in NaArvore
    PROVE  /\ v.prof \in Nat /\ t.no[v.id].acessos \in Nat
           /\ Score[v.prof][t.no[v.id].acessos] \in Int
<1>1. v.prof \in 0 .. Cardinality(Page) /\ v.id \in Page
  BY DEF NaArvore
<1>2. Cardinality(Page) \in Nat
  BY PageAssumption, FS_CardinalityType
<1>3. t.no[v.id].acessos \in 0 .. MaxAcessos
  BY <1>1, TiposDaArvore
<1>4. Score[v.prof] \in [0 .. MaxAcessos -> Int]
  BY <1>1, ScoreAssumption
<1>5. Score[v.prof][t.no[v.id].acessos] \in Int
  BY <1>3, <1>4
<1>6. v.prof \in Nat
  BY <1>1, <1>2
<1>7. t.no[v.id].acessos \in Nat
  BY <1>3, BoundAssumption
<1> QED BY <1>5, <1>6, <1>7

\* To be worse is transitive, for each policy.
LEMMA PiorTransitiva ==
    ASSUME NEW t \in Arvore, NEW m \in NaArvore, NEW n \in NaArvore, NEW o \in NaArvore,
           Pior(t, m, n), Pior(t, n, o)
    PROVE  Pior(t, m, o)
<1> DEFINE A(v) == t.no[v.id].acessos
<1> DEFINE S(v) == Score[v.prof][A(v)]
<1>1. \A v \in NaArvore : A(v) \in Nat /\ v.prof \in Int /\ S(v) \in Int
  BY FatosDoScore
<1>2. CASE politica = "LFU"
  <2>1. PiorLFU(t, m, n) /\ PiorLFU(t, n, o)
    BY <1>2 DEF Pior
  <2>2. PiorLFU(t, m, o)
    <3> DEFINE a == A(m)  b == A(n)  c == A(o)  x == m.prof  y == n.prof  z == o.prof
    <3>1. /\ a < b \/ (a = b /\ x > y)
          /\ b < c \/ (b = c /\ y > z)
      BY <2>1 DEF PiorLFU
    <3>2. a \in Nat /\ b \in Nat /\ c \in Nat /\ x \in Int /\ y \in Int /\ z \in Int
      BY <1>1
    <3> HIDE DEF a, b, c, x, y, z
    <3>3. a < c \/ (a = c /\ x > z)
      BY <3>1, <3>2
    <3> QED BY <3>3 DEF PiorLFU, a, c, x, z
  <2> QED BY <1>2, <2>2 DEF Pior
<1>3. CASE politica = "HIBRIDA"
  <2>1. S(m) > S(n) /\ S(n) > S(o)
    BY <1>3 DEF Pior, PiorHibrida
  <2>2. S(m) > S(o)
    <3>1. S(m) \in Int /\ S(n) \in Int /\ S(o) \in Int
      BY <1>1
    <3> HIDE DEF S
    <3> QED BY <2>1, <3>1
  <2> QED BY <1>3, <2>2 DEF Pior, PiorHibrida
<1>4. CASE politica \notin {"LFU", "HIBRIDA"}
  <2>1. m.prof > n.prof /\ n.prof > o.prof
    BY <1>4 DEF Pior, PiorLRU
  <2>2. m.prof > o.prof
    BY <1>1, <2>1
  <2> QED BY <1>4, <2>2 DEF Pior, PiorLRU
<1> QED BY <1>2, <1>3, <1>4

\* and no node is worse than itself.
LEMMA PiorIrreflexiva ==
    ASSUME NEW t \in Arvore, NEW v \in NaArvore
    PROVE  ~Pior(t, v, v)
<1>1. /\ v.prof \in Nat /\ t.no[v.id].acessos \in Nat
      /\ Score[v.prof][t.no[v.id].acessos] \in Int
  BY FatosDoScore
<1>2. ~PiorLFU(t, v, v) /\ ~PiorLRU(t, v, v) /\ ~PiorHibrida(t, v, v)
  BY <1>1 DEF PiorLFU, PiorLRU, PiorHibrida
<1> QED BY <1>2 DEF Pior

\* v is one of the first k nodes, and none of them is worse.
Piores(t, nos, k, v) ==
    /\ \E i \in 1 .. k : v = nos[i]
    /\ \A i \in 1 .. k : ~Pior(t, nos[i], v)

\* The function that Vitima computes.
Escolha(t, nos, pior) ==
    \A k \in 1 .. Len(nos) :
       pior[k] = IF k = 1 THEN nos[1]
                 ELSE IF Pior(t, nos[k], pior[k - 1]) THEN nos[k] ELSE pior[k - 1]

LEMMA EscolhaFeita ==
    ASSUME NEW t \in Arvore, NEW nos \in Seq(NaArvore), Len(nos) > 0,
           NEW pior, Escolha(t, nos, pior)
    PROVE  Piores(t, nos, Len(nos), pior[Len(nos)])
<1> DEFINE n == Len(nos)
<1>1. n \in Nat /\ n > 0 /\ \A i \in 1 .. n : nos[i] \in NaArvore
  OBVIOUS
<1>2. /\ pior[1] = nos[1]
      /\ \A k \in 1 .. n : k # 1 => pior[k] = IF Pior(t, nos[k], pior[k - 1]) THEN nos[k]
                                              ELSE pior[k - 1]
  BY <1>1 DEF Escolha
<1> DEFINE I == {k \in Nat : k + 1 \in 1 .. n => Piores(t, nos, k + 1, pior[k + 1])}
<1>3. Nat \subseteq I
  <2>1. 0 \in I
    <3>1. Piores(t, nos, 1, nos[1])
      <4>1. ~Pior(t, nos[1], nos[1])
        BY <1>1, PiorIrreflexiva
      <4> QED BY <4>1 DEF Piores
    <3> QED BY <1>2, <3>1
  <2>2. ASSUME NEW k \in Nat, k \in I PROVE k + 1 \in I
    <3> DEFINE j == k + 1
    <3>1. j \in Nat /\ j >= 1
      OBVIOUS
    <3>2. ASSUME j + 1 \in 1 .. n PROVE Piores(t, nos, j + 1, pior[j + 1])
      <4>1. j \in 1 .. n /\ j + 1 # 1 /\ (j + 1) - 1 = j
        BY <1>1, <3>1, <3>2
      <4>2. Piores(t, nos, j, pior[j])
        BY <2>2, <4>1
      <4> HIDE DEF j
      <4>3. pior[j + 1] = IF Pior(t, nos[j + 1], pior[j]) THEN nos[j + 1] ELSE pior[j]
        BY <1>2, <3>2, <4>1
      <4> DEFINE a == nos[j + 1]
                 p == pior[j]
      <4>4. a \in NaArvore /\ a = nos[j + 1]
        BY <1>1, <3>2
      <4>5. PICK w \in 1 .. j : p = nos[w]
        BY <4>2 DEF Piores
      <4>6. /\ p \in NaArvore /\ \A i \in 1 .. j : ~Pior(t, nos[i], p)
            /\ \A i \in 1 .. j : nos[i] \in NaArvore
        <5>1. \A i \in 1 .. j : i \in 1 .. n
          BY <1>1, <4>1
        <5> HIDE DEF n
        <5> QED BY <1>1, <4>2, <4>5, <5>1 DEF Piores
      <4>7. \A i \in 1 .. j + 1 : i \in 1 .. j \/ i = j + 1
        BY <3>1
      <4>8. w \in 1 .. j + 1 /\ j + 1 \in 1 .. j + 1
        BY <3>1
      <4> HIDE DEF a, p
      <4>9. CASE Pior(t, a, p)
        <5>1. pior[j + 1] = a
          BY <4>3, <4>9 DEF a, p
        <5>2. ASSUME NEW i \in 1 .. j PROVE ~Pior(t, nos[i], a)
          BY <4>4, <4>6, <4>9, PiorTransitiva
        <5>3. ~Pior(t, a, a)
          BY <4>4, PiorIrreflexiva
        <5> QED BY <4>4, <4>7, <4>8, <5>1, <5>2, <5>3 DEF Piores
      <4>10. CASE ~Pior(t, a, p)
        <5>1. pior[j + 1] = p
          BY <4>3, <4>10 DEF a, p
        <5> QED BY <4>4, <4>5, <4>6, <4>7, <4>8, <4>10, <5>1 DEF Piores
      <4> QED BY <4>9, <4>10
    <3> QED BY <3>1, <3>2
  <2> HIDE DEF I
  <2> QED BY <2>1, <2>2, NatSteps
<1>4. n - 1 \in Nat /\ (n - 1) + 1 = n /\ n \in 1 .. n
  BY <1>1
<1> HIDE DEF n
<1>5. Piores(t, nos, n, pior[n])
  BY <1>3, <1>4
<1> QED BY <1>5 DEF n

\* The victim is a page of the tree than which no other is worse.
VitimaCerta(t, live, s, v) ==
    /\ v \in live
    /\ \A q \in live : ~Pior(t, [id |-> q, prof |-> Depth(live, s, q)],
                                [id |-> v, prof |-> Depth(live, s, v)])

\* No node is deeper than there are pages.
LEMMA ProfundidadeCabe ==
    ASSUME NEW t, NEW live, NEW s, Boa(t, live, s), NEW q \in live
    PROVE  Depth(live, s, q) \in 0 .. Cardinality(Page)
<1> DEFINE A == Above(live, s, q)
<1>1. Depth(live, s, q) \in Nat
  <2>1. SearchTree(Forma(t.no, t.raiz), live, s, Page)
    BY DEF Boa
  <2> QED BY <2>1, PaginasOK, AboveChild
<1>2. A \subseteq Page
  BY FatosDaBoa DEF Above
<1>3. Cardinality(A) \in Nat /\ Cardinality(Page) \in Nat /\ Cardinality(A) <= Cardinality(Page)
  BY <1>2, PageAssumption, FS_Subset, FS_CardinalityType
<1>4. Depth(live, s, q) = Cardinality(A) - 1
  BY DEF Depth
<1> HIDE DEF A
<1> QED BY <1>1, <1>3, <1>4

LEMMA VitimaAcha ==
    ASSUME NEW t, NEW live, NEW s, Boa(t, live, s), t.raiz # Nulo
    PROVE  VitimaCerta(t, live, s, Vitima(t))
<1> DEFINE nos == Percurso(t, t.raiz)
           n == Len(nos)
           Is(f) == f = [k \in 1 .. n |->
                           IF k = 1 THEN nos[1]
                           ELSE IF Pior(t, nos[k], f[k - 1]) THEN nos[k] ELSE f[k - 1]]
           pior == CHOOSE pior : Is(pior)
           d == 0 - Depth(live, s, t.raiz)
<1>1. Vitima(t) = pior[n].id
  BY DEF Vitima
<1>2. t \in Arvore /\ t.raiz \in live /\ live \subseteq Page
  BY FatosDaBoa DEF Boa
<1>3. d = 0
  <2> DEFINE h == Forma(t.no, t.raiz)
  <2>1. SearchTree(h, live, s, Page) /\ h.top = t.raiz
    BY DEF Boa, Forma
  <2> HIDE DEF h
  <2>2. h.pa[t.raiz] = Nulo
    BY <1>2, <2>1 DEF SearchTree, Whole, Top
  <2> DEFINE r == t.raiz
  <2>3. r \in live /\ h.pa[r] = Nulo
    BY <1>2, <2>2
  <2> HIDE DEF r
  <2>4. Depth(live, s, r) = 0
    BY <2>1, <2>3, PaginasOK, AboveChild
  <2>5. 0 - 0 = 0
    OBVIOUS
  <2> QED BY <2>4, <2>5 DEF r
<1>4. Visita1(nos, live, live, s, 0)
  <2>1. Visita1(nos, Sub(live, s, t.raiz), live, s, d)
    BY <1>2, PercursoFeito
  <2> QED BY <1>3, <2>1, SubDaRaiz
<1> HIDE DEF nos, d
<1>5. /\ nos \in Seq(Visita) /\ n \in Nat
      /\ \A i \in 1 .. n : /\ nos[i] \in Visita /\ nos[i].id \in live
                           /\ nos[i].prof = Depth(live, s, nos[i].id) + 0
      /\ \A q \in live : \E i \in 1 .. n : nos[i].id = q
  BY <1>4 DEF Visita1
<1>6. n > 0
  BY <1>2, <1>5
<1> HIDE DEF n
<1> DEFINE S == {nos[i] : i \in 1 .. n}
           g == [k \in Nat |-> [v \in S |->
                  IF k + 2 <= n /\ Pior(t, nos[k + 2], v) THEN nos[k + 2] ELSE v]]
<1>7. PICK e \in [Nat -> S] : GoesOn(nos[1], g, e)
  <2>1. nos[1] \in S
    BY <1>5, <1>6
  <2>2. Stays(S, g)
    BY <1>5 DEF Stays
  <2> HIDE DEF S, g
  <2> QED BY <2>1, <2>2, LoopAt
<1> DEFINE f == [k \in 1 .. n |-> e[k - 1]]
<1>8. Is(f)
  <2>1. ASSUME NEW k \in 1 .. n
        PROVE  f[k] = IF k = 1 THEN nos[1]
                      ELSE IF Pior(t, nos[k], f[k - 1]) THEN nos[k] ELSE f[k - 1]
    <3>1. CASE k = 1
      BY <1>7, <3>1 DEF GoesOn
    <3>2. CASE k # 1
      <4> DEFINE j == k - 2
      <4>1. j \in Nat /\ j + 2 = k /\ j + 1 = k - 1 /\ j = (k - 1) - 1 /\ k - 1 \in 1 .. n /\ k <= n
        BY <1>5, <3>2
      <4>2. f[k] = e[j + 1] /\ f[k - 1] = e[j]
        BY <4>1
      <4> HIDE DEF j
      <4>3. e[j] \in S /\ e[j + 1] = g[j][e[j]]
        BY <1>7, <4>1 DEF GoesOn
      <4>4. e[j + 1] = IF Pior(t, nos[k], e[j]) THEN nos[k] ELSE e[j]
        <5> HIDE DEF S
        <5> QED BY <4>1, <4>3
      <4> HIDE DEF f
      <4> QED BY <3>2, <4>2, <4>4
    <3> QED BY <3>1, <3>2
  <2> QED BY <2>1
<1>9. Is(pior)
  <2> HIDE DEF Is
  <2> QED BY <1>8
<1> HIDE DEF pior, f
<1>10. Escolha(t, nos, pior)
  BY <1>9 DEF Escolha, n
<1>11. nos \in Seq(NaArvore)
  <2>1. ASSUME NEW i \in 1 .. n PROVE nos[i] \in NaArvore
    <3> DEFINE v == nos[i]
               x == Depth(live, s, v.id)
    <3>1. v \in Visita /\ v.prof = x + 0 /\ v.id \in live
      BY <1>5
    <3>2. x \in 0 .. Cardinality(Page)
      BY <3>1, ProfundidadeCabe
    <3> HIDE DEF x
    <3>3. v.prof \in 0 .. Cardinality(Page)
      BY <3>1, <3>2
    <3> HIDE DEF v
    <3>4. v \in NaArvore
      BY <3>1, <3>3 DEF Visita, NaArvore
    <3> QED BY <3>4 DEF v
  <2>2. nos \in Seq(Visita) /\ Len(nos) = n
    BY <1>5 DEF n
  <2> QED BY <2>1, <2>2
<1>12. Piores(t, nos, n, pior[n])
  BY <1>2, <1>6, <1>10, <1>11, EscolhaFeita DEF n
<1> DEFINE p == pior[n]
<1>13. /\ \E i \in 1 .. n : p = nos[i]
       /\ \A i \in 1 .. n : ~Pior(t, nos[i], p)
  BY <1>12 DEF Piores
<1> HIDE DEF p
<1>14. \A i \in 1 .. n : nos[i] = [id |-> nos[i].id, prof |-> Depth(live, s, nos[i].id)]
  <2>1. ASSUME NEW i \in 1 .. n
        PROVE  nos[i] = [id |-> nos[i].id, prof |-> Depth(live, s, nos[i].id)]
    <3> DEFINE v == nos[i]
               x == Depth(live, s, v.id)
    <3>1. v \in Visita /\ v.prof = x + 0 /\ v.id \in live
      BY <1>5
    <3>2. x \in Nat
      <4>1. SearchTree(Forma(t.no, t.raiz), live, s, Page)
        BY DEF Boa
      <4> QED BY <3>1, <4>1, PaginasOK, AboveChild
    <3> HIDE DEF v, x
    <3>3. v = [id |-> v.id, prof |-> x]
      BY <3>1, <3>2 DEF Visita
    <3> QED BY <3>3 DEF v, x
  <2> QED BY <2>1
<1>15. p.id \in live /\ p = [id |-> p.id, prof |-> Depth(live, s, p.id)]
  BY <1>5, <1>13, <1>14
<1>16. ASSUME NEW q \in live
       PROVE  ~Pior(t, [id |-> q, prof |-> Depth(live, s, q)], p)
  <2>1. PICK i \in 1 .. n : nos[i].id = q
    BY <1>5
  <2>2. nos[i] = [id |-> q, prof |-> Depth(live, s, q)]
    BY <1>14, <2>1
  <2> QED BY <1>13, <2>2
<1>17. Vitima(t) = p.id
  BY <1>1 DEF p
<1> QED BY <1>15, <1>16, <1>17 DEF VitimaCerta

-----------------------------------------------------------------------------
(* What each operation makes of a tree whose nodes are the pages with data. *)

Presentes(n) == {p \in Page : n[p].dados # NULL}

Sa(t) == \E s : Boa(t, Presentes(t.no), s)

\* Changing the data of a node, or its counter, is nothing to the tree.
Anotada(t, u, id, d, a) ==
    /\ u \in Arvore /\ u.raiz = t.raiz /\ u.rotacoes = t.rotacoes
    /\ Forma(u.no, u.raiz) = Forma(t.no, t.raiz)
    /\ \A q \in Page \ {id} : u.no[q].dados = t.no[q].dados /\ u.no[q].acessos = t.no[q].acessos
    /\ u.no[id].dados = d /\ u.no[id].acessos = a

LEMMA Anota ==
    ASSUME NEW t \in Arvore, NEW id \in Page, NEW d \in Dados \cup {Vazio, NULL},
           NEW a \in 0 .. MaxAcessos, NEW n,
           n = [t.no[id] EXCEPT !.dados = d, !.acessos = a]
    PROVE  Anotada(t, [t EXCEPT !.no = [t.no EXCEPT ![id] = n]], id, d, a)
<1> DEFINE m == [t.no EXCEPT ![id] = n]
           u == [t EXCEPT !.no = m]
<1>1. /\ t = [raiz |-> t.raiz, no |-> t.no, rotacoes |-> t.rotacoes]
      /\ t.raiz \in OuNulo /\ t.no \in [Page -> No] /\ t.rotacoes \in Nat
  BY DEF Arvore, OuNulo
<1>2. n \in No /\ n.dados = d /\ n.acessos = a
      /\ n.esq = t.no[id].esq /\ n.dir = t.no[id].dir /\ n.pai = t.no[id].pai
  <2> DEFINE k == t.no[id]
  <2>1. k \in No
    BY <1>1
  <2> HIDE DEF k
  <2>2. n = [k EXCEPT !.dados = d, !.acessos = a]
    BY DEF k
  <2>3. n \in No /\ n.dados = d /\ n.acessos = a
        /\ n.esq = k.esq /\ n.dir = k.dir /\ n.pai = k.pai
    BY <2>1, <2>2 DEF No
  <2> QED BY <2>3 DEF k
<1>3. m \in [Page -> No] /\ \A q \in Page : m[q] = IF q = id THEN n ELSE t.no[q]
  BY <1>1, <1>2
<1> HIDE DEF m
<1>4. u.no = m /\ u.raiz = t.raiz /\ u.rotacoes = t.rotacoes
      /\ u = [raiz |-> t.raiz, no |-> m, rotacoes |-> t.rotacoes]
  BY <1>1
<1> HIDE DEF u
<1>5. u \in Arvore
  BY <1>1, <1>3, <1>4 DEF Arvore, OuNulo
<1>6. \A q \in Page : u.no[q].esq = t.no[q].esq /\ u.no[q].dir = t.no[q].dir
                      /\ u.no[q].pai = t.no[q].pai
  BY <1>2, <1>3, <1>4
<1>7. Forma(u.no, u.raiz) = Forma(t.no, t.raiz)
  BY <1>4, <1>6 DEF Forma
<1>8. \A q \in Page \ {id} : u.no[q].dados = t.no[q].dados /\ u.no[q].acessos = t.no[q].acessos
  BY <1>3, <1>4
<1>9. u.no[id].dados = d /\ u.no[id].acessos = a
  BY <1>2, <1>3, <1>4
<1> QED BY <1>4, <1>5, <1>7, <1>8, <1>9 DEF Anotada, u, m

LEMMA AnotaSa ==
    ASSUME NEW t, NEW live, NEW s, Boa(t, live, s), NEW u, NEW id, NEW d, NEW a,
           Anotada(t, u, id, d, a)
    PROVE  Boa(u, live, s)
BY DEF Boa, Anotada

LEMMA ContadorUm ==
    ASSUME NEW t \in Arvore, NEW id \in Page
    PROVE  Anotada(t, [t EXCEPT !.no[id].acessos = 1], id, t.no[id].dados, 1)
<1> DEFINE k == t.no[id]
           n == [k EXCEPT !.dados = k.dados, !.acessos = 1]
<1>1. k \in No
  BY DEF Arvore
<1>2. k.dados \in Dados \cup {Vazio, NULL} /\ 1 \in 0 .. MaxAcessos
  BY <1>1, BoundAssumption DEF No
<1>3. n = [k EXCEPT !.acessos = 1]
  <2> HIDE DEF k
  <2> QED BY <1>1 DEF No
<1>4. [t EXCEPT !.no[id].acessos = 1] = [t EXCEPT !.no = [t.no EXCEPT ![id] = [k EXCEPT !.acessos = 1]]]
  OBVIOUS
<1> HIDE DEF n
<1>5. Anotada(t, [t EXCEPT !.no = [t.no EXCEPT ![id] = n]], id, k.dados, 1)
  BY <1>2, Anota DEF n
<1> QED BY <1>3, <1>4, <1>5

LEMMA MaisUmAcesso ==
    ASSUME NEW t \in Arvore, NEW id \in Page, NEW d \in Dados \cup {Vazio, NULL},
           t.no[id].acessos < MaxAcessos
    PROVE  Anotada(t, [t EXCEPT !.no[id].dados = d, !.no[id].acessos = @ + 1],
                   id, d, t.no[id].acessos + 1)
<1> DEFINE k == t.no[id]
           n == [k EXCEPT !.dados = d, !.acessos = k.acessos + 1]
           u == [t EXCEPT !.no[id].dados = d, !.no[id].acessos = @ + 1]
<1>1. k \in No /\ t.no \in [Page -> No]
      /\ t = [raiz |-> t.raiz, no |-> t.no, rotacoes |-> t.rotacoes]
  BY DEF Arvore
<1>2. k.acessos + 1 \in 0 .. MaxAcessos
  BY <1>1, BoundAssumption DEF No
<1>3. u = [t EXCEPT !.no = [t.no EXCEPT ![id] = n]]
  <2> DEFINE b == [t.no EXCEPT ![id] = [k EXCEPT !.dados = d]]
             k1 == [k EXCEPT !.dados = d]
  <2>1. u = [t EXCEPT !.no = [b EXCEPT ![id] = [b[id] EXCEPT !.acessos = @ + 1]]]
    BY <1>1
  <2>2. b[id] = k1 /\ k1.acessos = k.acessos
    <3>1. k1.acessos = k.acessos
      <4> HIDE DEF k
      <4> QED BY <1>1 DEF No
    <3> QED BY <1>1, <3>1
  <2>3. [b[id] EXCEPT !.acessos = @ + 1] = n
    <3> HIDE DEF b, k
    <3> QED BY <2>2
  <2>4. [b EXCEPT ![id] = n] = [t.no EXCEPT ![id] = n]
    <3> DEFINE no1 == t.no
    <3>1. no1 \in [Page -> No] /\ b = [no1 EXCEPT ![id] = k1]
      BY <1>1
    <3> HIDE DEF n, k1, b, no1
    <3>2. [b EXCEPT ![id] = n] = [no1 EXCEPT ![id] = n]
      BY <3>1
    <3> QED BY <3>2 DEF no1
  <2> HIDE DEF b, n, u
  <2> QED BY <2>1, <2>3, <2>4
<1> HIDE DEF n, u
<1>5. Anotada(t, [t EXCEPT !.no = [t.no EXCEPT ![id] = n]], id, d, k.acessos + 1)
  BY <1>2, Anota DEF n
<1> QED BY <1>3, <1>5 DEF u

LEMMA FatosDeSa ==
    ASSUME NEW t, Sa(t)
    PROVE  /\ t \in Arvore /\ t.raiz \in OuNulo /\ t.no \in [Page -> No]
           /\ t.rotacoes \in Nat
           /\ t.raiz = Nulo <=> Presentes(t.no) = {}
           /\ \A id \in Page : buscar(t, id) <=> id \in Presentes(t.no)
<1>1. PICK s : Boa(t, Presentes(t.no), s)
  BY DEF Sa
<1>2. t \in Arvore
  BY <1>1 DEF Boa
<1>3. t.raiz = Nulo <=> Presentes(t.no) = {}
  BY <1>1, FatosDaBoa
<1>4. \A id \in Page : buscar(t, id) <=> id \in Presentes(t.no)
  BY <1>1, BuscarAcha
<1> QED BY <1>2, <1>3, <1>4 DEF Arvore, OuNulo

\* u has the pages of t, in the same nodes.
Arruma(t, u) == Sa(u) /\ MesmasPaginas(t.no, u.no) /\ Presentes(u.no) = Presentes(t.no)

LEMMA LevaArruma ==
    ASSUME NEW t, NEW u, NEW c, Leva(t, Presentes(t.no), u, c)
    PROVE  Arruma(t, u)
<1>1. Presentes(u.no) = Presentes(t.no)
  BY DEF Leva, MesmasPaginas, Presentes
<1> QED BY <1>1 DEF Leva, Arruma, Sa

LEMMA SplaySa ==
    ASSUME NEW t, Sa(t), NEW x \in Presentes(t.no)
    PROVE  Arruma(t, splay(t, x)) /\ splay(t, x).raiz = x
<1>1. PICK s : Boa(t, Presentes(t.no), s)
  BY DEF Sa
<1>2. /\ Leva(t, Presentes(t.no), splay(t, x), Depth(Presentes(t.no), s, x))
      /\ splay(t, x).raiz = x
  BY <1>1, SplayLeva
<1> QED BY <1>2, LevaArruma

LEMMA BuscarSplaySa ==
    ASSUME NEW t, Sa(t), NEW id \in Page
    PROVE  LET u == buscarSplay(t, id) IN
           /\ Arruma(t, u)
           /\ id \in Presentes(t.no) => u.raiz = id
<1> DEFINE u == buscarSplay(t, id)
           x == Fim(t, id)
<1>1. PICK s : Boa(t, Presentes(t.no), s)
  BY DEF Sa
<1>2. /\ Leva(t, Presentes(t.no), u, IF x = Nulo THEN 0 ELSE Depth(Presentes(t.no), s, x))
      /\ u.raiz = x
  BY <1>1, BuscarSplayLeva
<1>3. id \in Presentes(t.no) => x = id
  BY <1>1, BuscarAcha DEF buscar
<1> HIDE DEF u, x
<1>4. Arruma(t, u)
  BY <1>2, LevaArruma
<1> QED BY <1>2, <1>3, <1>4 DEF u

LEMMA InserirSplaySa ==
    ASSUME NEW t, Sa(t), NEW id \in Page, id \notin Presentes(t.no),
           NEW dados \in Dados \cup {NULL}
    PROVE  LET u == inserirSplay(t, id, dados) IN
           /\ Sa(u) /\ Presentes(u.no) = Presentes(t.no) \cup {id}
           /\ UmaNova(t.no, u.no, id, dados)
           /\ u.raiz = id
<1> DEFINE u == inserirSplay(t, id, dados)
           live == Presentes(t.no)
<1>1. PICK s : Boa(t, live, s)
  BY DEF Sa
<1>2. /\ \E sU : Boa(u, live \cup {id}, sU)
      /\ UmaNova(t.no, u.no, id, dados)
      /\ u.raiz = id
  <2> HIDE DEF live
  <2> QED BY <1>1, InserirSplayLeva DEF live
<1> HIDE DEF u
<1>3. (IF dados = NULL THEN Vazio ELSE dados) # NULL
  BY DadosAssumption
<1>4. Presentes(u.no) = live \cup {id}
  BY <1>2, <1>3 DEF UmaNova, Presentes
<1> QED BY <1>2, <1>4 DEF Sa, u

LEMMA RemoverSplaySa ==
    ASSUME NEW t, Sa(t), NEW id \in Page
    PROVE  LET u == removerSplay(t, id) IN
           /\ Sa(u) /\ Presentes(u.no) = Presentes(t.no) \ {id}
           /\ SemUma(t.no, u.no, id)
<1> DEFINE u == removerSplay(t, id)
           live == Presentes(t.no)
<1>1. PICK s : Boa(t, live, s)
  BY DEF Sa
<1>2. CASE id \in live
  <2>1. (\E sU : Boa(u, live \ {id}, sU)) /\ SemUma(t.no, u.no, id)
    <3> HIDE DEF live
    <3> QED BY <1>1, <1>2, RemoverSplayLeva
  <2> HIDE DEF u
  <2>2. Presentes(u.no) = live \ {id}
    BY <2>1 DEF SemUma, Presentes
  <2> QED BY <2>1, <2>2 DEF Sa, u
<1>3. CASE id \notin live
  <2>1. u = buscarSplay(t, id)
    BY <1>1, <1>3, BuscarAcha DEF removerSplay
  <2> HIDE DEF u
  <2>2. Arruma(t, u)
    BY <2>1, BuscarSplaySa
  <2>3. SemUma(t.no, u.no, id)
    BY <1>3, <2>2 DEF Arruma, MesmasPaginas, SemUma, Presentes
  <2>4. live \ {id} = live
    BY <1>3
  <2> QED BY <2>2, <2>3, <2>4 DEF Arruma, u
<1> QED BY <1>2, <1>3

LEMMA ContadorSa ==
    ASSUME NEW t, Sa(t), NEW id \in Page
    PROVE  LET u == [t EXCEPT !.no[id].acessos = 1] IN
           /\ Sa(u) /\ Presentes(u.no) = Presentes(t.no) /\ u.raiz = t.raiz
           /\ \A q \in Page : u.no[q].dados = t.no[q].dados
<1> DEFINE u == [t EXCEPT !.no[id].acessos = 1]
           live == Presentes(t.no)
<1>1. PICK s : Boa(t, live, s)
  BY DEF Sa
<1>2. Anotada(t, u, id, t.no[id].dados, 1)
  BY FatosDeSa, ContadorUm
<1> HIDE DEF u
<1>3. \A q \in Page : u.no[q].dados = t.no[q].dados
  BY <1>2 DEF Anotada
<1>4. Presentes(u.no) = live /\ u.raiz = t.raiz
  BY <1>2, <1>3 DEF Presentes, Anotada
<1>5. Boa(u, live, s)
  BY <1>1, <1>2, AnotaSa
<1> QED BY <1>3, <1>4, <1>5 DEF Sa, u

\* u is t with other data in the node of id.
OutroDado(t, u, id, d) ==
    /\ Sa(u) /\ Presentes(u.no) = Presentes(t.no)
    /\ \A q \in Page : u.no[q].dados = IF q = id THEN d ELSE t.no[q].dados

LEMMA AcessoSa ==
    ASSUME NEW t, Sa(t), NEW id \in Presentes(t.no), NEW d \in Dados \cup {Vazio},
           t.no[id].acessos < MaxAcessos
    PROVE  OutroDado(t, [t EXCEPT !.no[id].dados = d, !.no[id].acessos = @ + 1], id, d)
<1> DEFINE u == [t EXCEPT !.no[id].dados = d, !.no[id].acessos = @ + 1]
           live == Presentes(t.no)
<1>1. PICK s : Boa(t, live, s)
  BY DEF Sa
<1>2. Anotada(t, u, id, d, t.no[id].acessos + 1)
  <2>1. id \in Page /\ d \in Dados \cup {Vazio, NULL}
    BY DEF Presentes
  <2> QED BY <2>1, FatosDeSa, MaisUmAcesso
<1> HIDE DEF u
<1>3. \A q \in Page : u.no[q].dados = IF q = id THEN d ELSE t.no[q].dados
  BY <1>2 DEF Anotada
<1>4. Presentes(u.no) = live
  <2>1. d # NULL
    BY DadosAssumption
  <2> QED BY <1>3, <2>1 DEF Presentes
<1>5. Boa(u, live, s)
  BY <1>1, <1>2, AnotaSa
<1> QED BY <1>3, <1>4, <1>5 DEF Sa, u, OutroDado

-----------------------------------------------------------------------------
(* The inductive invariant.                                                *)

\* The pages with data are the nodes of a search tree, which the size counts;
\* a page just found or stored is its root.
Arrumada ==
    /\ TypeOK
    /\ Sa(Esta)
    /\ tamanho = Cardinality(Vivos)
    /\ capacidade = 0 => Vivos = {}
    /\ resposta.op \in {"buscar", "inserir"} /\ resposta.id \in Vivos => raiz = resposta.id

\* A call has left the tree t, of the pages in live.
Deixa(t, live) == Fica(t) /\ Sa(t) /\ Presentes(t.no) = live

LEMMA VivosPresentes ==
    ASSUME NEW r, NEW n
    PROVE  /\ Presentes([raiz |-> r, no |-> n, rotacoes |-> 0].no) = Presentes(n)
           /\ Vivos = Presentes(no) /\ Presentes(Esta.no) = Vivos
           /\ Esta.raiz = raiz /\ Esta.no = no /\ Esta.rotacoes = 0
BY DEF Presentes, Vivos, Esta

LEMMA SemRotacoes ==
    ASSUME NEW t, Sa(t)
    PROVE  Sa([raiz |-> t.raiz, no |-> t.no, rotacoes |-> 0])
<1> DEFINE u == [raiz |-> t.raiz, no |-> t.no, rotacoes |-> 0]
<1>1. PICK s : Boa(t, Presentes(t.no), s)
  BY DEF Sa
<1>2. u \in Arvore /\ u.no = t.no /\ u.raiz = t.raiz
  BY FatosDeSa DEF Arvore, OuNulo
<1> HIDE DEF u
<1>3. Boa(u, Presentes(u.no), s)
  BY <1>1, <1>2 DEF Boa
<1> QED BY <1>3 DEF Sa, u

LEMMA DeixaFaz ==
    ASSUME NEW t, NEW live, Deixa(t, live)
    PROVE  /\ Sa(Esta)' /\ Vivos' = live
           /\ raiz' = t.raiz /\ raiz' \in OuNulo
           /\ no' = t.no /\ no' \in [Page -> No]
<1>1. raiz' = t.raiz /\ no' = t.no
  BY DEF Deixa, Fica
<1>2. Esta' = [raiz |-> t.raiz, no |-> t.no, rotacoes |-> 0]
  BY <1>1 DEF Esta
<1>3. Sa(Esta')
  BY <1>2, SemRotacoes DEF Deixa
<1>4. Vivos' = live
  BY <1>1 DEF Deixa, Vivos, Presentes
<1> QED BY <1>1, <1>3, <1>4, FatosDeSa DEF Deixa

\* Every call leaves a tree; live is what it holds, and f its data.
Feita(live, f) ==
    /\ \E t : Deixa(t, live)
    /\ \A q \in live : no'[q].dados = f[q]

LEMMA ArrumadaEsta ==
    ASSUME Arrumada
    PROVE  /\ Sa(Esta) /\ Presentes(Esta.no) = Vivos /\ Vivos \subseteq Page
           /\ Esta.no = no /\ Esta.raiz = raiz
           /\ IsFiniteSet(Vivos) /\ tamanho = Cardinality(Vivos) /\ tamanho \in Nat
           /\ \A id \in Page : buscar(Esta, id) <=> id \in Vivos
           /\ raiz = Nulo <=> Vivos = {}
           /\ capacidade \in Nat
<1>1. Sa(Esta) /\ Presentes(Esta.no) = Vivos /\ Esta.no = no /\ Esta.raiz = raiz
      /\ Vivos \subseteq Page
  BY VivosPresentes DEF Arrumada, Vivos
<1>2. IsFiniteSet(Vivos) /\ Cardinality(Vivos) \in Nat
  BY <1>1, PageAssumption, FS_Subset, FS_CardinalityType
<1>3. capacidade \in Nat
  BY CapacidadeAssumption DEF Arrumada, TypeOK
<1> QED BY <1>1, <1>2, <1>3, FatosDeSa DEF Arrumada

\* What a call may add to the counters.
Contadores == [buscas: 0 .. 1, hits: 0 .. 1, misses: 0 .. 1, rotacoes: Nat]

LEMMA ContaTipos ==
    ASSUME NEW t, NEW id, NEW r \in Nat
    PROVE  /\ Conta(SemContagem, r) => stats' \in Contadores
           /\ Conta(Contagem(t, id), r) => stats' \in Contadores
<1>1. Conta(SemContagem, r) => stats' \in Contadores
  BY DEF Conta, SemContagem, Contadores
<1>2. /\ Contagem(t, id).buscas \in 0 .. 1
      /\ Contagem(t, id).hits \in 0 .. 1
      /\ Contagem(t, id).misses \in 0 .. 1
  BY DEF Contagem
<1>3. Conta(Contagem(t, id), r) => stats' \in Contadores
  <2> DEFINE c == Contagem(t, id)
  <2>1. c.buscas \in 0 .. 1 /\ c.hits \in 0 .. 1 /\ c.misses \in 0 .. 1
    BY <1>2
  <2> HIDE DEF c
  <2>2. Conta(c, r) => stats' \in Contadores
    BY <2>1 DEF Conta, Contadores
  <2> QED BY <2>2 DEF c
<1> QED BY <1>1, <1>3

\* The data of the pages that are there.
Dado == [q \in Page |-> no[q].dados]

LEMMA BuscarFaz ==
    ASSUME Arrumada, NEW id \in Page, buscarPagina(id)
    PROVE  /\ Feita(Vivos, Dado) /\ (id \in Vivos => raiz' = id)
           /\ stats' \in Contadores
<1> DEFINE t == buscarSplay(Esta, id)
<1>1. Arruma(Esta, t) /\ (id \in Vivos => t.raiz = id)
  BY ArrumadaEsta, BuscarSplaySa
<1>2. Fica(t) /\ Conta(Contagem(Esta, id), t.rotacoes)
  BY DEF buscarPagina
<1> HIDE DEF t
<1>5. stats' \in Contadores
  BY <1>1, <1>2, FatosDeSa, ContaTipos DEF Arruma
<1>3. Deixa(t, Vivos)
  BY <1>1, <1>2, ArrumadaEsta DEF Deixa, Arruma
<1>4. \A q \in Vivos : no'[q].dados = Dado[q]
  BY <1>1, <1>2, ArrumadaEsta DEF Arruma, MesmasPaginas, Fica, Dado
<1> QED BY <1>1, <1>2, <1>3, <1>4, <1>5 DEF Feita, Fica

LEMMA RemoverFaz ==
    ASSUME Arrumada, NEW id \in Page, removerPagina(id)
    PROVE  Feita(Vivos \ {id}, Dado) /\ stats' \in Contadores
<1> DEFINE t == removerSplay(Esta, id)
<1>1. Sa(t) /\ Presentes(t.no) = Vivos \ {id} /\ SemUma(no, t.no, id)
  BY ArrumadaEsta, RemoverSplaySa
<1>2. Fica(t) /\ Conta(Contagem(Esta, id), t.rotacoes)
  BY DEF removerPagina
<1> HIDE DEF t
<1>5. stats' \in Contadores
  BY <1>1, <1>2, FatosDeSa, ContaTipos
<1>3. Deixa(t, Vivos \ {id})
  BY <1>1, <1>2 DEF Deixa
<1>4. \A q \in Vivos \ {id} : no'[q].dados = Dado[q]
  BY <1>1, <1>2, ArrumadaEsta DEF SemUma, Fica, Dado
<1> QED BY <1>3, <1>4, <1>5 DEF Feita

\* The data that a call to insert gives a page.
Novo(id, dados) ==
    [q \in Page |-> IF q # id THEN no[q].dados
                    ELSE IF dados # NULL THEN dados
                    ELSE IF id \in Vivos THEN no[q].dados ELSE Vazio]

LEMMA ExistenteFaz ==
    ASSUME Arrumada, NEW id \in Page, NEW dados \in Dados \cup {NULL},
           inserirExistente(id, dados)
    PROVE  /\ id \in Vivos /\ Feita(Vivos, Novo(id, dados)) /\ raiz' = id
           /\ stats' \in Contadores
<1> DEFINE d == IF dados = NULL THEN no[id].dados ELSE dados
           w == [Esta EXCEPT !.no[id].dados = d, !.no[id].acessos = @ + 1]
           t == splay(w, id)
<1>1. id \in Vivos /\ no[id].acessos < MaxAcessos
  BY ArrumadaEsta DEF inserirExistente
<1>2. Fica(t) /\ Conta(SemContagem, t.rotacoes)
  <2>1. w = [Esta EXCEPT !.no[id].dados = IF dados = NULL THEN @ ELSE dados,
                         !.no[id].acessos = @ + 1]
    BY DEF Esta
  <2> HIDE DEF w
  <2> QED BY <2>1 DEF inserirExistente
<1>3. d \in Dados \cup {Vazio}
  <2>1. no[id] \in No /\ no[id].dados # NULL
    BY <1>1 DEF Arrumada, TypeOK, Vivos
  <2> QED BY <2>1 DEF No
<1> HIDE DEF d
<1>4. /\ Sa(w) /\ Presentes(w.no) = Vivos
      /\ \A q \in Page : w.no[q].dados = IF q = id THEN d ELSE no[q].dados
  <2> DEFINE e == Esta
  <2>1. Sa(e) /\ id \in Presentes(e.no) /\ e.no[id].acessos < MaxAcessos
    BY <1>1, ArrumadaEsta
  <2>2. w = [e EXCEPT !.no[id].dados = d, !.no[id].acessos = @ + 1]
    OBVIOUS
  <2> HIDE DEF e, w
  <2>3. OutroDado(e, w, id, d)
    BY <1>3, <2>1, <2>2, AcessoSa
  <2> QED BY <2>3, ArrumadaEsta DEF OutroDado, e
<1> HIDE DEF w
<1>5. Arruma(w, t) /\ t.raiz = id
  BY <1>1, <1>4, SplaySa
<1> HIDE DEF t
<1>8. stats' \in Contadores
  BY <1>2, <1>5, FatosDeSa, ContaTipos DEF Arruma
<1>6. Deixa(t, Vivos)
  BY <1>2, <1>4, <1>5 DEF Deixa, Arruma
<1>7. \A q \in Vivos : no'[q].dados = Novo(id, dados)[q]
  BY <1>1, <1>2, <1>4, <1>5, ArrumadaEsta DEF Arruma, MesmasPaginas, Fica, Novo, d
<1> QED BY <1>1, <1>2, <1>5, <1>6, <1>7, <1>8 DEF Feita, Fica

\* The pages that make room.
Saem == IF tamanho >= capacidade /\ raiz # Nulo THEN {Vitima(Esta)} ELSE {}

LEMMA SaemVivos ==
    ASSUME Arrumada
    PROVE  Saem \subseteq Vivos
<1>1. CASE tamanho >= capacidade /\ raiz # Nulo
  <2>1. PICK s : Boa(Esta, Presentes(Esta.no), s)
    BY ArrumadaEsta DEF Sa
  <2>2. VitimaCerta(Esta, Presentes(Esta.no), s, Vitima(Esta))
    BY <1>1, <2>1, VitimaAcha, ArrumadaEsta
  <2> QED BY <1>1, <2>2, ArrumadaEsta DEF VitimaCerta, Saem
<1> QED BY <1>1 DEF Saem

LEMMA NovaFaz ==
    ASSUME Arrumada, NEW id \in Page, NEW dados \in Dados \cup {NULL},
           inserirNova(id, dados)
    PROVE  /\ id \notin Vivos
           /\ Feita((Vivos \ Saem) \cup {id}, Novo(id, dados)) /\ raiz' = id
           /\ stats' \in Contadores
<1> DEFINE cheio == tamanho >= capacidade /\ raiz # Nulo
           v == Vitima(Esta)
           r == removerSplay(Esta, v)
           w == IF cheio THEN r ELSE Esta
           u == inserirSplay(w, id, dados)
           t == [u EXCEPT !.no[id].acessos = 1]
<1>1. /\ id \notin Vivos /\ Fica(t)
      /\ Conta(IF cheio THEN Contagem(Esta, v) ELSE SemContagem, t.rotacoes)
  BY ArrumadaEsta DEF inserirNova
<1>2. Sa(w) /\ Presentes(w.no) = Vivos \ Saem
      /\ \A q \in Page \ Saem : w.no[q].dados = no[q].dados
  <2>1. CASE cheio
    <3>1. Saem = {v} /\ v \in Page
      BY <2>1, SaemVivos, ArrumadaEsta DEF Saem
    <3> HIDE DEF v, cheio
    <3>2. Sa(r) /\ Presentes(r.no) = Vivos \ {v} /\ SemUma(no, r.no, v)
      <4> DEFINE e == Esta
      <4>1. Sa(e) /\ e.no = no /\ Presentes(e.no) = Vivos
        BY ArrumadaEsta
      <4> HIDE DEF e
      <4>2. LET k == removerSplay(e, v) IN
            Sa(k) /\ Presentes(k.no) = Presentes(e.no) \ {v} /\ SemUma(e.no, k.no, v)
        BY <3>1, <4>1, RemoverSplaySa
      <4> QED BY <4>1, <4>2 DEF e
    <3> HIDE DEF r
    <3> QED BY <2>1, <3>1, <3>2 DEF SemUma
  <2>2. CASE ~cheio
    <3>1. Saem = {}
      BY <2>2 DEF Saem
    <3> HIDE DEF v, r, cheio
    <3> QED BY <2>2, <3>1, ArrumadaEsta
  <2> QED BY <2>1, <2>2
<1> HIDE DEF w, v
<1>3. /\ Sa(u) /\ Presentes(u.no) = (Vivos \ Saem) \cup {id}
      /\ UmaNova(w.no, u.no, id, dados)
      /\ u.raiz = id
  BY <1>1, <1>2, InserirSplaySa
<1> HIDE DEF u
<1>4. /\ Sa(t) /\ Presentes(t.no) = Presentes(u.no) /\ t.raiz = u.raiz
      /\ \A q \in Page : t.no[q].dados = u.no[q].dados
  BY <1>3, ContadorSa
<1> HIDE DEF t, cheio
<1>7. stats' \in Contadores
  <2>1. t.rotacoes \in Nat
    BY <1>4, FatosDeSa
  <2>2. Conta(Contagem(Esta, v), t.rotacoes) \/ Conta(SemContagem, t.rotacoes)
    BY <1>1
  <2> QED BY <2>1, <2>2, ContaTipos
<1>5. Deixa(t, (Vivos \ Saem) \cup {id})
  BY <1>1, <1>3, <1>4 DEF Deixa
<1>6. \A q \in (Vivos \ Saem) \cup {id} : no'[q].dados = Novo(id, dados)[q]
  BY <1>1, <1>2, <1>3, <1>4, ArrumadaEsta DEF UmaNova, Fica, Novo
<1> QED BY <1>1, <1>3, <1>4, <1>5, <1>6, <1>7 DEF Feita, Fica

\* A cache without pages.
LEMMA VaziaSa ==
    ASSUME NEW n \in [Page -> No], Presentes(n) = {}
    PROVE  Sa([raiz |-> Nulo, no |-> n, rotacoes |-> 0])
<1> DEFINE u == [raiz |-> Nulo, no |-> n, rotacoes |-> 0]
           s == [q \in Page |-> {}]
           h == Forma(u.no, u.raiz)
<1>1. u \in Arvore /\ u.no = n /\ u.raiz = Nulo
  BY DEF Arvore
<1>2. h.top = Nulo
  BY DEF Forma
<1>3. s \in [Page -> SUBSET Page]
  OBVIOUS
<1> HIDE DEF u, s, h
<1>4. SearchTree(h, {}, s, Page)
  BY <1>2, <1>3 DEF SearchTree, Whole, Top, Hangs
<1>5. Boa(u, Presentes(u.no), s)
  BY <1>1, <1>4 DEF Boa, h
<1> QED BY <1>5 DEF Sa, u

LEMMA CriarFaz ==
    ASSUME Arrumada, NEW c \in Capacidades, NEW pol \in PoliticaEviction,
           criarCache(c, pol)
    PROVE  Feita({}, Dado) /\ Vivos = {} /\ stats' \in Contadores
<1> DEFINE t == [raiz |-> Nulo, no |-> no, rotacoes |-> 0]
<1>1. Vivos = {} /\ raiz' = Nulo /\ no' = no /\ no \in [Page -> No]
  BY DEF Arrumada, TypeOK, criarCache
<1>2. Sa(t) /\ Presentes(t.no) = {}
  BY <1>1, VivosPresentes, VaziaSa
<1>3. Deixa(t, {})
  BY <1>1, <1>2 DEF Deixa, Fica
<1>4. stats' \in Contadores
  BY ContaTipos DEF criarCache
<1> QED BY <1>1, <1>3, <1>4 DEF Feita

LEMMA LiberarFaz ==
    ASSUME Arrumada, liberarCache
    PROVE  Feita({}, Dado) /\ stats' \in Contadores
<1> DEFINE t == [raiz |-> Nulo, no |-> no', rotacoes |-> 0]
<1>1. PICK s : Boa(Esta, Vivos, s)
  BY ArrumadaEsta DEF Sa
<1>2. Abaixo(Esta, raiz) = Vivos
  <2>1. Esta.raiz \in Vivos \cup {Nulo}
    BY <1>1, FatosDaBoa
  <2>2. Abaixo(Esta, Esta.raiz) = Vivos
    BY <1>1, <2>1, AbaixoFeito, SubDaRaiz
  <2> QED BY <2>2, ArrumadaEsta
<1>3. raiz' = Nulo /\ no' = [p \in Page |-> IF p \in Vivos THEN Livre ELSE no[p]]
  BY <1>2 DEF liberarCache
<1>4. no' \in [Page -> No]
  <2>1. Livre \in No /\ no \in [Page -> No]
    BY BoundAssumption DEF Livre, No, Arrumada, TypeOK
  <2> QED BY <1>3, <2>1
<1>5. Presentes(no') = {}
  <2>1. Livre.dados = NULL
    BY DEF Livre
  <2> HIDE DEF t
  <2> QED BY <1>3, <2>1 DEF Presentes, Vivos
<1>6. Sa(t) /\ Presentes(t.no) = {}
  BY <1>4, <1>5, VaziaSa
<1>7. Deixa(t, {})
  BY <1>3, <1>6 DEF Deixa, Fica
<1>8. stats' \in Contadores
  BY ContaTipos DEF liberarCache
<1> QED BY <1>7, <1>8 DEF Feita

\* What is left to see of a call.
LEMMA FeitaArrumada ==
    ASSUME NEW live, NEW f, Feita(live, f), stats' \in Contadores,
           capacidade' \in Capacidades \cup {0}, politica' \in PoliticaEviction,
           resposta' \in [op: {"nenhuma", "criar", "buscar", "inserir", "remover", "liberar"},
                          id: Nat, achou: BOOLEAN],
           tamanho' = Cardinality(live), Cardinality(live) <= capacidade',
           capacidade' = 0 => live = {},
           resposta'.op \in {"buscar", "inserir"} /\ resposta'.id \in live => raiz' = resposta'.id
    PROVE  Arrumada'
<1>1. PICK t : Deixa(t, live)
  BY DEF Feita
<1>2. /\ Sa(Esta)' /\ Vivos' = live
      /\ raiz' \in OuNulo /\ no' \in [Page -> No]
  BY <1>1, DeixaFaz
<1>3. live \subseteq Page
  BY <1>1 DEF Deixa, Presentes
<1>4. Cardinality(live) \in 0 .. capacidade'
  <2>1. IsFiniteSet(live)
    BY <1>3, PageAssumption, FS_Subset
  <2>2. Cardinality(live) \in Nat /\ capacidade' \in Nat
    BY <2>1, FS_CardinalityType, CapacidadeAssumption
  <2> QED BY <2>2
<1>5. TypeOK'
  BY <1>2, <1>4 DEF TypeOK, Contadores, OuNulo
<1> QED BY <1>2, <1>5 DEF Arrumada

LEMMA PassoArruma ==
    ASSUME Arrumada, [Next]_vars
    PROVE  Arrumada'
<1>1. /\ tamanho \in Nat /\ tamanho = Cardinality(Vivos) /\ IsFiniteSet(Vivos)
      /\ Vivos \subseteq Page /\ capacidade \in Capacidades \cup {0}
      /\ capacidade \in Nat /\ tamanho <= capacidade
      /\ politica \in PoliticaEviction
      /\ \A id \in Page : buscar(Esta, id) <=> id \in Vivos
      /\ \A id \in Page : id \in Nat
  BY ArrumadaEsta, PageAssumption DEF Arrumada, TypeOK
<1>2. ASSUME NEW c \in Capacidades, NEW pol \in PoliticaEviction, criarCache(c, pol)
      PROVE  Arrumada'
  <2>1. Feita({}, Dado) /\ stats' \in Contadores
    BY <1>2, CriarFaz
  <2>2. /\ capacidade' \in Capacidades \cup {0} /\ politica' \in PoliticaEviction
        /\ tamanho' = Cardinality({}) /\ Cardinality({}) <= capacidade'
        /\ resposta' = [op |-> "criar", id |-> 0, achou |-> FALSE]
    BY <1>2, FS_EmptySet, CapacidadeAssumption DEF criarCache, Responde
  <2> QED BY <2>1, <2>2, FeitaArrumada
<1>3. ASSUME NEW id \in Page, buscarPagina(id) PROVE Arrumada'
  <2>1. Feita(Vivos, Dado) /\ (id \in Vivos => raiz' = id) /\ stats' \in Contadores
    BY <1>3, BuscarFaz
  <2>2. /\ capacidade' = capacidade /\ capacidade # 0 /\ politica' = politica
        /\ tamanho' = tamanho
        /\ resposta' = [op |-> "buscar", id |-> id, achou |-> buscar(Esta, id)]
    BY <1>3, <1>1, CapacidadeAssumption DEF buscarPagina, Responde
  <2>3. buscar(Esta, id) \in BOOLEAN
    BY DEF buscar
  <2> QED BY <1>1, <2>1, <2>2, <2>3, FeitaArrumada
<1>4. ASSUME NEW id \in Page, removerPagina(id) PROVE Arrumada'
  <2>1. Feita(Vivos \ {id}, Dado) /\ stats' \in Contadores
    BY <1>4, RemoverFaz
  <2>2. /\ capacidade' = capacidade /\ capacidade # 0 /\ politica' = politica
        /\ tamanho' = IF id \in Vivos THEN tamanho - 1 ELSE tamanho
        /\ resposta' = [op |-> "remover", id |-> id, achou |-> buscar(Esta, id)]
    BY <1>4, <1>1, CapacidadeAssumption DEF removerPagina, Responde
  <2>3. buscar(Esta, id) \in BOOLEAN
    BY DEF buscar
  <2>4. tamanho' = Cardinality(Vivos \ {id}) /\ tamanho' <= capacidade'
    <3>1. CASE id \in Vivos
      <4>1. tamanho' = Cardinality(Vivos \ {id}) /\ tamanho' = tamanho - 1
        BY <1>1, <2>2, <3>1, FS_RemoveElement
      <4> QED BY <1>1, <2>2, <4>1
    <3>2. CASE id \notin Vivos
      <4>1. Vivos \ {id} = Vivos
        BY <3>2
      <4> QED BY <1>1, <2>2, <3>2, <4>1
    <3> QED BY <3>1, <3>2
  <2> QED BY <1>1, <2>1, <2>2, <2>3, <2>4, FeitaArrumada
<1>5. ASSUME NEW id \in Page, NEW dados \in Dados \cup {NULL}, inserirPagina(id, dados)
      PROVE  Arrumada'
  <2>1. /\ capacidade # 0
        /\ resposta' = [op |-> "inserir", id |-> id, achou |-> buscar(Esta, id)]
    BY <1>5, <1>1, CapacidadeAssumption DEF inserirPagina, Responde
  <2>2. buscar(Esta, id) \in BOOLEAN
    BY DEF buscar
  <2>3. CASE inserirExistente(id, dados)
    <3>1. Feita(Vivos, Novo(id, dados)) /\ raiz' = id /\ stats' \in Contadores
      BY <2>3, ExistenteFaz
    <3>2. capacidade' = capacidade /\ politica' = politica /\ tamanho' = tamanho
      BY <2>3 DEF inserirExistente
    <3> QED BY <1>1, <2>1, <2>2, <3>1, <3>2, FeitaArrumada
  <2>4. CASE inserirNova(id, dados)
    <3> DEFINE live == (Vivos \ Saem) \cup {id}
    <3>1. Feita(live, Novo(id, dados)) /\ raiz' = id /\ stats' \in Contadores
          /\ id \notin Vivos
      BY <2>4, NovaFaz
    <3>2. /\ capacidade' = capacidade /\ politica' = politica
          /\ tamanho' = IF tamanho >= capacidade /\ raiz # Nulo THEN tamanho ELSE tamanho + 1
      BY <2>4 DEF inserirNova
    <3>3. tamanho' = Cardinality(live) /\ Cardinality(live) <= capacidade'
      <4>1. CASE tamanho >= capacidade /\ raiz # Nulo
        <5>1. PICK v : Saem = {v} /\ v \in Vivos
          BY <4>1, SaemVivos DEF Saem
        <5>2. IsFiniteSet(Vivos \ {v}) /\ Cardinality(Vivos \ {v}) = tamanho - 1
          BY <1>1, <5>1, FS_RemoveElement
        <5>3. Cardinality((Vivos \ {v}) \cup {id}) = (tamanho - 1) + 1
          BY <3>1, <5>2, FS_AddElement
        <5> QED BY <1>1, <3>2, <4>1, <5>1, <5>3
      <4>2. CASE ~(tamanho >= capacidade /\ raiz # Nulo)
        <5>1. Vivos \ Saem = Vivos
          BY <4>2 DEF Saem
        <5>2. Cardinality(Vivos \cup {id}) = tamanho + 1
          BY <1>1, <3>1, FS_AddElement
        <5>3. tamanho < capacidade
          <6>1. CASE raiz # Nulo
            BY <1>1, <4>2, <6>1
          <6>2. CASE raiz = Nulo
            BY <1>1, <2>1, <6>2, ArrumadaEsta, FS_EmptySet
          <6> QED BY <6>1, <6>2
        <5> QED BY <1>1, <3>2, <4>2, <5>1, <5>2, <5>3
      <4> QED BY <4>1, <4>2
    <3> HIDE DEF live
    <3> QED BY <1>1, <2>1, <2>2, <3>1, <3>2, <3>3, FeitaArrumada
  <2> QED BY <1>5, <2>3, <2>4 DEF inserirPagina
<1>6. ASSUME liberarCache PROVE Arrumada'
  <2>1. Feita({}, Dado) /\ stats' \in Contadores
    BY <1>6, LiberarFaz
  <2>2. /\ capacidade' = 0 /\ politica' \in PoliticaEviction
        /\ tamanho' = Cardinality({}) /\ Cardinality({}) <= capacidade'
        /\ resposta' = [op |-> "liberar", id |-> 0, achou |-> FALSE]
    BY <1>6, FS_EmptySet DEF liberarCache, Responde, PoliticaEviction
  <2> QED BY <2>1, <2>2, FeitaArrumada
<1>7. ASSUME UNCHANGED vars PROVE Arrumada'
  <2>1. Esta' = Esta /\ Vivos' = Vivos /\ (TypeOK <=> TypeOK')
    BY <1>7 DEF vars, cache, Esta, Vivos, TypeOK
  <2>2. Sa(Esta')
    BY <2>1 DEF Arrumada
  <2> QED BY <1>7, <2>1, <2>2 DEF Arrumada, vars, cache
<1> QED BY <1>2, <1>3, <1>4, <1>5, <1>6, <1>7 DEF Next

LEMMA InicioArrumado ==
    ASSUME Init
    PROVE  Arrumada
<1>1. /\ raiz = Nulo /\ no = [p \in Page |-> Livre] /\ tamanho = 0 /\ capacidade = 0
      /\ politica = "LRU_PROFUNDIDADE"
      /\ stats = [buscas |-> 0, hits |-> 0, misses |-> 0, rotacoes |-> 0]
      /\ resposta = [op |-> "nenhuma", id |-> 0, achou |-> FALSE]
  BY DEF Init
<1>2. no \in [Page -> No] /\ Vivos = {} /\ Presentes(no) = {}
  <2>1. Livre \in No /\ Livre.dados = NULL
    BY BoundAssumption DEF Livre, No
  <2> QED BY <1>1, <2>1 DEF Vivos, Presentes
<1>3. Sa(Esta)
  BY <1>1, <1>2, VaziaSa DEF Esta
<1>4. Cardinality(Vivos) = 0 /\ Cardinality(Page) \in Nat
  BY <1>2, PageAssumption, FS_EmptySet, FS_CardinalityType
<1>5. TypeOK
  BY <1>1, <1>2, <1>4 DEF TypeOK, PoliticaEviction
<1> QED BY <1>1, <1>2, <1>3, <1>4, <1>5 DEF Arrumada

\* The inductive invariant holds.
THEOREM ArrumadaInvariante == Spec => []Arrumada
<1>1. Init => Arrumada
  BY InicioArrumado
<1>2. Arrumada /\ [Next]_vars => Arrumada'
  BY PassoArruma
<1> QED BY <1>1, <1>2, PTL DEF Spec

\* Every variable keeps its shape, and the size, which evictions and removals
\* decrement, stays between zero and the capacity.
THEOREM TiposInvariante == Spec => []TypeOK
<1>1. Arrumada => TypeOK
  BY DEF Arrumada
<1> QED BY <1>1, ArrumadaInvariante, PTL

-----------------------------------------------------------------------------
(* The tree is whole.                                                      *)

\* Each node's children are those whose parent it is, and the root has none.
PaisDe(n, live, topo) ==
    \A p \in live :
        /\ n[p].pai = Nulo <=> p = topo
        /\ \A q \in live : n[p].pai = q <=> n[q].esq = p \/ n[q].dir = p

LEMMA PaisDaBoa ==
    ASSUME NEW t, NEW live, NEW s, Boa(t, live, s)
    PROVE  PaisDe(t.no, live, t.raiz)
<1> DEFINE h == Forma(t.no, t.raiz)
<1>1. t \in Arvore /\ live \subseteq Page /\ SearchTree(h, live, s, Page) /\ Nulo \notin live
  BY FatosDaBoa, PaginasOK DEF Boa, PagesOK
<1>2. \A q \in Page : h.l[q] = t.no[q].esq /\ h.r[q] = t.no[q].dir /\ h.pa[q] = t.no[q].pai
  BY DEF Forma
<1>3. h.top = t.raiz
  BY DEF Forma
<1> HIDE DEF h
<1>4. ASSUME NEW p \in live PROVE t.no[p].pai = Nulo <=> p = t.raiz
  BY <1>1, <1>2, <1>3 DEF SearchTree, Whole, Top
<1>5. ASSUME NEW p \in live, NEW q \in live
      PROVE  (t.no[p].pai = q) <=> (t.no[q].esq = p \/ t.no[q].dir = p)
  <2>1. Kids(h, live, s, q)
    BY <1>1, PaginasOK, KidsAre
  <2>2. t.no[q].esq = p \/ t.no[q].dir = p => t.no[p].pai = q
    BY <1>1, <1>2, <2>1 DEF Kids
  <2>3. h.pa[p] # Nulo => h.l[h.pa[p]] = p \/ h.r[h.pa[p]] = p
    <3> SUFFICES ASSUME h.pa[p] # Nulo PROVE h.l[h.pa[p]] = p \/ h.r[h.pa[p]] = p
      OBVIOUS
    <3> QED BY <1>1, PaginasOK, WhichSide
  <2> QED BY <1>1, <1>2, <2>2, <2>3
<1> QED BY <1>4, <1>5 DEF PaisDe

\* The nodes below a child are on its side of q.
LEMMA OrdemDaBoa ==
    ASSUME NEW t, NEW live, NEW s, Boa(t, live, s), NEW q \in live
    PROVE  /\ \A p \in Abaixo(t, t.no[q].esq) : p < q
           /\ \A p \in Abaixo(t, t.no[q].dir) : q < p
<1> DEFINE h == Forma(t.no, t.raiz)
           e == t.no[q].esq
           d == t.no[q].dir
<1>1. t \in Arvore /\ live \subseteq Page /\ SearchTree(h, live, s, Page) /\ q \in Page
  BY FatosDaBoa DEF Boa
<1>2. h.l[q] = e /\ h.r[q] = d
  BY <1>1 DEF Forma
<1> HIDE DEF h, e, d
<1>3. Kids(h, live, s, q)
  BY <1>1, PaginasOK, KidsAre
<1>4. e \in live \cup {Nulo} /\ d \in live \cup {Nulo}
  BY <1>2, <1>3 DEF Kids
<1>5. Abaixo(t, e) = Sub(live, s, e) /\ Abaixo(t, d) = Sub(live, s, d)
  BY <1>4, AbaixoFeito
<1>6. Sub(live, s, e) \subseteq Lower[q] /\ Sub(live, s, d) \subseteq Upper[q]
  BY <1>2, <1>3 DEF Sub, Kids
<1>7. /\ \A p \in Lower[q] : p < q
      /\ \A p \in Upper[q] : q < p
  BY <1>1 DEF Lower, Upper
<1> QED BY <1>5, <1>6, <1>7 DEF e, d

LEMMA ArrumadaInteira ==
    ASSUME Arrumada
    PROVE  Inteira
<1> DEFINE t == Esta
<1>1. PICK s : Boa(t, Vivos, s)
  BY ArrumadaEsta DEF Sa
<1>2. t.raiz = raiz /\ t.no = no /\ tamanho = Cardinality(Vivos)
  BY ArrumadaEsta
<1> HIDE DEF t
<1>3. PaisConferem
  <2>1. PaisDe(t.no, Vivos, t.raiz)
    BY <1>1, PaisDaBoa
  <2> QED BY <1>2, <2>1 DEF PaisDe, PaisConferem
<1>4. /\ Abaixo(t, raiz) = Vivos
      /\ Len(Percurso(t, raiz)) = Cardinality(Vivos)
  <2>1. raiz \in Vivos \cup {Nulo}
    BY <1>1, <1>2, FatosDaBoa
  <2>2. Sub(Vivos, s, raiz) = Vivos
    BY <1>1, <1>2, SubDaRaiz
  <2> QED BY <1>1, <2>1, <2>2, AbaixoFeito
<1>5. SemVazamento
  BY <1>2, <1>4 DEF SemVazamento, t
<1>6. ASSUME NEW q \in Vivos
      PROVE  /\ \A p \in Abaixo(t, no[q].esq) : p < q
             /\ \A p \in Abaixo(t, no[q].dir) : q < p
  <2>1. /\ \A p \in Abaixo(t, t.no[q].esq) : p < q
        /\ \A p \in Abaixo(t, t.no[q].dir) : q < p
    BY <1>1, OrdemDaBoa
  <2> QED BY <1>2, <2>1
<1>7. Ordenada
  BY <1>6 DEF Ordenada, t
<1> QED BY <1>3, <1>5, <1>7 DEF Inteira

\* Between two calls the nodes are one search tree: the parent pointers, which
\* splay climbs, agree with the child pointers, which the searches follow; the
\* nodes below the root are those that malloc gave and free has not taken, each
\* visited once, and the size counts them.  No rotation, insertion, removal or
\* eviction loses a node or leaks one.
THEOREM InteiraInvariante == Spec => []Inteira
<1>1. Arrumada => Inteira
  BY ArrumadaInteira
<1> QED BY <1>1, ArrumadaInvariante, PTL

-----------------------------------------------------------------------------
(* The cache implements the bounded map.                                   *)

\* The map that the nodes amount to: what CacheLimitado is instantiated with.
Mapa == [p \in Page |-> IF buscar(Esta, p) THEN no[p].dados ELSE "ausente"]

\* The map of the pages in live, whose data is f.
MapaDe(live, f) == [p \in Page |-> IF p \in live THEN f[p] ELSE "ausente"]

LEMMA MapaAgora ==
    ASSUME Arrumada
    PROVE  Mapa = MapaDe(Vivos, Dado)
BY ArrumadaEsta DEF Mapa, MapaDe, Dado

LEMMA MapaDepois == Arrumada' => (Mapa = MapaDe(Vivos, Dado))'
<1>1. Arrumada => Mapa = MapaDe(Vivos, Dado)
  BY MapaAgora
<1> QED BY <1>1, PTL

LEMMA FeitaMapa ==
    ASSUME Arrumada', NEW live, NEW f, Feita(live, f)
    PROVE  Mapa' = MapaDe(live, f)
<1>1. Vivos' = live
  BY DeixaFaz DEF Feita
<1>2. Mapa' = [p \in Page |-> IF p \in live THEN no'[p].dados ELSE "ausente"]
  BY <1>1, MapaDepois DEF MapaDe, Dado
<1>3. \A p \in live : no'[p].dados = f[p]
  BY DEF Feita
<1> QED BY <1>2, <1>3 DEF MapaDe

\* What the map says of a page.
LEMMA MapaTem ==
    ASSUME Arrumada
    PROVE  /\ Mapa = [p \in Page |-> IF p \in Vivos THEN no[p].dados ELSE "ausente"]
           /\ \A p \in Page : (Mapa[p] # "ausente") <=> p \in Vivos
           /\ {p \in Page : Mapa[p] # "ausente"} = Vivos
<1>1. Mapa = [p \in Page |-> IF p \in Vivos THEN no[p].dados ELSE "ausente"]
  BY MapaAgora DEF MapaDe, Dado
<1>2. ASSUME NEW p \in Vivos PROVE no[p].dados # "ausente" /\ p \in Page
  <2>1. no[p] \in No /\ no[p].dados # NULL /\ p \in Page
    BY DEF Arrumada, TypeOK, Vivos
  <2>2. no[p].dados \in Dados \cup {Vazio}
    BY <2>1 DEF No
  <2> QED BY <2>1, <2>2, DadosAssumption
<1> HIDE DEF Mapa
<1>3. \A p \in Page : (Mapa[p] # "ausente") <=> p \in Vivos
  BY <1>1, <1>2
<1> QED BY <1>1, <1>2, <1>3

LEMMA LimitadoCriar ==
    ASSUME Arrumada, Arrumada', NEW c \in Capacidades, NEW pol \in PoliticaEviction,
           criarCache(c, pol)
    PROVE  Limitado!criar
<1>1. Mapa' = Mapa
  <2>1. Feita({}, Dado) /\ Vivos = {}
    BY CriarFaz
  <2>2. Mapa' = MapaDe({}, Dado)
    BY <2>1, FeitaMapa
  <2> QED BY <2>1, <2>2, MapaAgora
<1>2. /\ capacidade = 0 /\ capacidade' \in Nat \ {0}
      /\ resposta' = [op |-> "criar", id |-> 0, achou |-> FALSE]
  BY CapacidadeAssumption DEF criarCache, Responde
<1> QED BY <1>1, <1>2 DEF Mapa, Limitado!criar, Limitado!Responde

LEMMA LimitadoBuscar ==
    ASSUME Arrumada, Arrumada', NEW id \in Page, buscarPagina(id)
    PROVE  Limitado!buscar(id)
<1>1. Mapa' = Mapa
  BY BuscarFaz, FeitaMapa, MapaAgora
<1>2. /\ capacidade > 0 /\ capacidade' = capacidade
      /\ resposta' = [op |-> "buscar", id |-> id, achou |-> buscar(Esta, id)]
  BY DEF buscarPagina, Responde
<1>3. buscar(Esta, id) = (Mapa[id] # "ausente")
  BY ArrumadaEsta, MapaTem DEF buscar
<1>4. resposta' = [op |-> "buscar", id |-> id, achou |-> Mapa[id] # "ausente"]
  BY <1>2, <1>3
<1> QED BY <1>1, <1>2, <1>4
        DEF Mapa, Limitado!buscar, Limitado!Responde, Limitado!Tem, Limitado!Ausente

LEMMA LimitadoRemover ==
    ASSUME Arrumada, Arrumada', NEW id \in Page, removerPagina(id)
    PROVE  Limitado!remover(id)
<1>1. Mapa' = [Mapa EXCEPT ![id] = "ausente"]
  <2>1. Mapa' = MapaDe(Vivos \ {id}, Dado)
    BY RemoverFaz, FeitaMapa
  <2> QED BY <2>1, MapaAgora DEF MapaDe
<1>2. /\ capacidade > 0 /\ capacidade' = capacidade
      /\ resposta' = [op |-> "remover", id |-> id, achou |-> buscar(Esta, id)]
  BY DEF removerPagina, Responde
<1>3. buscar(Esta, id) = (Mapa[id] # "ausente")
  BY ArrumadaEsta, MapaTem DEF buscar
<1>4. resposta' = [op |-> "remover", id |-> id, achou |-> Mapa[id] # "ausente"]
  BY <1>2, <1>3
<1> QED BY <1>1, <1>2, <1>4
        DEF Mapa, Limitado!remover, Limitado!Responde, Limitado!Tem, Limitado!Ausente

LEMMA LimitadoExistente ==
    ASSUME Arrumada, Arrumada', NEW id \in Page, NEW dados \in Dados \cup {NULL},
           inserirExistente(id, dados)
    PROVE  Limitado!inserirExistente(id, dados)
<1>1. id \in Vivos /\ Mapa' = MapaDe(Vivos, Novo(id, dados))
  BY ExistenteFaz, FeitaMapa
<1>2. Mapa[id] # "ausente"
  BY <1>1, MapaTem
<1>3. Mapa' = IF dados = NULL THEN Mapa ELSE [Mapa EXCEPT ![id] = dados]
  <2>1. CASE dados = NULL
    <3>1. \A q \in Page : Novo(id, dados)[q] = Dado[q]
      BY <1>1, <2>1 DEF Novo, Dado
    <3> QED BY <1>1, <2>1, <3>1, MapaAgora DEF MapaDe
  <2>2. CASE dados # NULL
    <3>1. \A q \in Page : Novo(id, dados)[q] = IF q = id THEN dados ELSE Dado[q]
      BY <2>2 DEF Novo, Dado
    <3> QED BY <1>1, <2>2, <3>1, MapaAgora DEF MapaDe
  <2> QED BY <2>1, <2>2
<1> QED BY <1>2, <1>3 DEF Mapa, Limitado!inserirExistente, Limitado!Tem, Limitado!Ausente

LEMMA LimitadoNova ==
    ASSUME Arrumada, Arrumada', NEW id \in Page, NEW dados \in Dados \cup {NULL},
           capacidade > 0, inserirNova(id, dados)
    PROVE  Limitado!inserirNova(id, dados)
<1> DEFINE ficam == Vivos \ Saem
<1>1. id \notin Vivos /\ Mapa' = MapaDe(ficam \cup {id}, Novo(id, dados))
  BY NovaFaz, FeitaMapa
<1>2. Mapa' = [q \in Page |-> IF q = id THEN (IF dados = NULL THEN Vazio ELSE dados)
                              ELSE IF q \in ficam THEN Mapa[q] ELSE "ausente"]
  <2>1. \A q \in Page : Novo(id, dados)[q] = IF q = id THEN (IF dados = NULL THEN Vazio ELSE dados)
                                             ELSE no[q].dados
    BY <1>1 DEF Novo
  <2>2. \A q \in Page : q \in ficam => Mapa[q] = no[q].dados
    BY MapaTem
  <2> HIDE DEF ficam
  <2> QED BY <1>1, <2>1, <2>2 DEF MapaDe
<1> DEFINE aqui == {p \in Page : Mapa[p] # "ausente"}
<1>3. aqui = Vivos
  BY MapaTem
<1>4. ficam \in IF Cardinality(Vivos) < capacidade THEN {Vivos} ELSE {Vivos \ {v} : v \in Vivos}
  <2>1. CASE tamanho < capacidade
    <3>1. Saem = {} /\ Cardinality(Vivos) < capacidade
      BY <2>1, ArrumadaEsta DEF Saem
    <3> QED BY <3>1
  <2>2. CASE ~(tamanho < capacidade)
    <3>1. tamanho >= capacidade /\ tamanho > 0 /\ ~(Cardinality(Vivos) < capacidade)
      BY <2>2, ArrumadaEsta
    <3>2. raiz # Nulo
      BY <3>1, ArrumadaEsta, FS_EmptySet
    <3>3. PICK v : Saem = {v} /\ v \in Vivos
      BY <3>1, <3>2, SaemVivos DEF Saem
    <3> QED BY <3>1, <3>3
  <2> QED BY <2>1, <2>2
<1>5. \E f \in IF Cardinality(aqui) < capacidade THEN {aqui} ELSE {aqui \ {v} : v \in aqui} :
         Mapa' = [q \in Page |-> IF q = id THEN (IF dados = NULL THEN Vazio ELSE dados)
                                 ELSE IF q \in f THEN Mapa[q] ELSE "ausente"]
  <2> HIDE DEF aqui, ficam
  <2> QED BY <1>2, <1>3, <1>4
<1>6. id \notin aqui
  BY <1>1, <1>3
<1>7. Limitado!Presentes = aqui
  BY DEF Mapa, Limitado!Presentes, Limitado!Tem, Limitado!Ausente
<1> HIDE DEF aqui, ficam
<1>8. /\ id \notin Limitado!Presentes
      /\ \E f \in IF Cardinality(Limitado!Presentes) < capacidade THEN {Limitado!Presentes}
                 ELSE {Limitado!Presentes \ {v} : v \in Limitado!Presentes} :
            Mapa' = [q \in Page |-> IF q = id THEN (IF dados = NULL THEN Vazio ELSE dados)
                                    ELSE IF q \in f THEN Mapa[q] ELSE Limitado!Ausente]
  BY <1>5, <1>6, <1>7 DEF Limitado!Ausente
<1>9. Limitado!Cardinality(Limitado!Presentes) = Cardinality(Limitado!Presentes)
  BY DEF Limitado!Cardinality, Cardinality
<1> QED BY <1>8, <1>9 DEF Mapa, Limitado!inserirNova

LEMMA LimitadoLiberar ==
    ASSUME Arrumada, Arrumada', liberarCache
    PROVE  Limitado!liberar
<1>1. Mapa' = [p \in Page |-> "ausente"]
  <2>1. Mapa' = MapaDe({}, Dado)
    BY LiberarFaz, FeitaMapa
  <2> QED BY <2>1 DEF MapaDe
<1>2. /\ capacidade > 0 /\ capacidade' = 0
      /\ resposta' = [op |-> "liberar", id |-> 0, achou |-> FALSE]
  BY DEF liberarCache, Responde
<1> QED BY <1>1, <1>2 DEF Mapa, Limitado!liberar, Limitado!Responde, Limitado!Ausente

LEMMA LimitadoPasso ==
    ASSUME Arrumada, Arrumada', [Next]_vars
    PROVE  [Limitado!Next]_(Limitado!vars)
<1>1. ASSUME NEW c \in Capacidades, NEW pol \in PoliticaEviction, criarCache(c, pol)
      PROVE  Limitado!Next
  BY <1>1, LimitadoCriar DEF Limitado!Next
<1>2. ASSUME NEW id \in Page, buscarPagina(id) PROVE Limitado!Next
  BY <1>2, LimitadoBuscar DEF Limitado!Next
<1>3. ASSUME NEW id \in Page, removerPagina(id) PROVE Limitado!Next
  BY <1>3, LimitadoRemover DEF Limitado!Next
<1>4. ASSUME NEW id \in Page, NEW dados \in Dados \cup {NULL}, inserirPagina(id, dados)
      PROVE  Limitado!Next
  <2>1. /\ capacidade > 0
        /\ inserirExistente(id, dados) \/ inserirNova(id, dados)
        /\ resposta' = [op |-> "inserir", id |-> id, achou |-> buscar(Esta, id)]
    BY <1>4 DEF inserirPagina, Responde
  <2>2. capacidade' = capacidade
    BY <2>1 DEF inserirExistente, inserirNova
  <2>3. buscar(Esta, id) = (Mapa[id] # "ausente")
    BY ArrumadaEsta, MapaTem DEF buscar
  <2>4. resposta' = [op |-> "inserir", id |-> id, achou |-> Mapa[id] # "ausente"]
    BY <2>1, <2>3
  <2>5. Limitado!inserirExistente(id, dados) \/ Limitado!inserirNova(id, dados)
    BY <2>1, LimitadoExistente, LimitadoNova
  <2>6. Limitado!inserir(id, dados)
    BY <2>1, <2>2, <2>4, <2>5
       DEF Mapa, Limitado!inserir, Limitado!Responde, Limitado!Tem, Limitado!Ausente
  <2> QED BY <2>6 DEF Limitado!Next
<1>5. ASSUME liberarCache PROVE Limitado!Next
  BY <1>5, LimitadoLiberar DEF Limitado!Next
<1>6. ASSUME UNCHANGED vars PROVE UNCHANGED Limitado!vars
  <2>1. Mapa' = Mapa /\ UNCHANGED <<capacidade, resposta>>
    BY <1>6 DEF vars, cache, Mapa, Esta
  <2> QED BY <2>1 DEF Limitado!vars, Mapa
<1> QED BY <1>1, <1>2, <1>3, <1>4, <1>5, <1>6 DEF Next

\* To its callers the cache is a bounded map: no operation loses, changes or
\* resurrects a page other than the one it names, except for one victim, which
\* inserirPagina evicts only for a new page, and only at the capacity.
THEOREM CacheImplementa == Spec => CacheSpec
<1>1. Init => Limitado!Init
  <2> SUFFICES ASSUME Init PROVE Limitado!Init
    OBVIOUS
  <2>1. Arrumada
    BY InicioArrumado
  <2>2. Vivos = {}
    BY DEF Init, Vivos, Livre
  <2>3. Mapa = [p \in Page |-> "ausente"]
    BY <2>1, <2>2, MapaTem
  <2>4. capacidade = 0 /\ resposta = [op |-> "nenhuma", id |-> 0, achou |-> FALSE]
    BY DEF Init
  <2> QED BY <2>3, <2>4 DEF Mapa, Limitado!Init, Limitado!Ausente
<1>2. Arrumada /\ Arrumada' /\ [Next]_vars => [Limitado!Next]_(Limitado!vars)
  BY LimitadoPasso
<1> QED BY <1>1, <1>2, ArrumadaInvariante, PTL DEF Spec, CacheSpec, Limitado!Spec

-----------------------------------------------------------------------------
(* The depth of a node, counted on the way up.                             *)

\* The nodes above p, p among them, that are at most k levels above it.
Subidos(live, s, p, k) ==
    {w \in Above(live, s, p) : Depth(live, s, p) <= Depth(live, s, w) + k}

\* The next level adds the parents of those there are.
LEMMA MaisUmNivel ==
    ASSUME NEW t, NEW live, NEW s, Boa(t, live, s), NEW p \in live, NEW k \in Nat
    PROVE  Subidos(live, s, p, k + 1) =
           UNION {{q, t.no[q].pai} \ {Nulo} : q \in Subidos(live, s, p, k)}
<1> DEFINE h == Forma(t.no, t.raiz)
           D == [w \in live |-> Depth(live, s, w)]
           A == Above(live, s, p)
           S == {w \in A : D[p] <= D[w] + k}
           T == {w \in A : D[p] <= D[w] + (k + 1)}
<1>1. t \in Arvore /\ live \subseteq Page /\ SearchTree(h, live, s, Page) /\ Nulo \notin live
  BY FatosDaBoa, PaginasOK DEF Boa, PagesOK
<1>2. \A q \in Page : h.l[q] = t.no[q].esq /\ h.r[q] = t.no[q].dir /\ h.pa[q] = t.no[q].pai
  BY DEF Forma
<1> HIDE DEF h
<1>3. A \subseteq live /\ p \in A /\ A = {w \in live : p \in s[w]}
  <2>1. Kids(h, live, s, p)
    BY <1>1, PaginasOK, KidsAre
  <2> QED BY <2>1 DEF Kids, Above
<1>4. Subidos(live, s, p, k) = S /\ Subidos(live, s, p, k + 1) = T
  BY <1>3 DEF Subidos
<1>5. ASSUME NEW q \in live
      PROVE  D[q] \in Nat /\ (t.no[q].pai # Nulo => t.no[q].pai \in live
                                 /\ D[q] = D[t.no[q].pai] + 1 /\ s[q] \subseteq s[t.no[q].pai])
  <2> DEFINE g == t.no[q].pai
  <2>1. g = h.pa[q]
    BY <1>1, <1>2
  <2> HIDE DEF g
  <2>2. /\ Depth(live, s, q) \in Nat
        /\ g # Nulo => Depth(live, s, q) = Depth(live, s, g) + 1
    BY <1>1, <2>1, PaginasOK, AboveChild
  <2>3. g # Nulo => g \in live /\ s[q] = s[g] \cap Side(q, g)
    BY <1>1, <2>1, PaginasOK, NodeFacts
  <2>4. g # Nulo => g \in live /\ s[q] \subseteq s[g]
    BY <2>3
  <2> QED BY <2>2, <2>4 DEF g
<1>6. ASSUME NEW w \in A, w # p
      PROVE  \E c \in A : t.no[c].pai = w
  <2>1. w \in live /\ p \in s[w]
    BY <1>3, <1>6
  <2> DEFINE c == Ahead(h, w, p)
  <2>2. Branch(h, live, s, w, p, c)
    BY <1>1, <1>6, <2>1, PaginasOK, Branches
  <2>3. Kids(h, live, s, w)
    BY <1>1, <2>1, PaginasOK, KidsAre
  <2>4. c \in live /\ p \in s[c] /\ c # Nulo
    BY <2>2 DEF Branch
  <2>5. h.pa[c] = w
    BY <2>3, <2>4 DEF Kids, Ahead
  <2> HIDE DEF c
  <2> QED BY <1>1, <1>2, <1>3, <2>4, <2>5
<1>7. ASSUME NEW w \in T PROVE \E q \in S : w \in {q, t.no[q].pai} \ {Nulo}
  <2>1. w \in live /\ w # Nulo /\ D[w] \in Nat /\ D[p] \in Nat
    BY <1>1, <1>3, <1>5
  <2>2. CASE D[p] <= D[w] + k
    <3>1. w \in S
      BY <2>2
    <3> HIDE DEF S, D
    <3> QED BY <2>1, <3>1
  <2>3. CASE ~(D[p] <= D[w] + k)
    <3>1. w # p
      <4> HIDE DEF D
      <4> QED BY <2>1, <2>3
    <3>2. PICK c \in A : t.no[c].pai = w
      <4> HIDE DEF A, D
      <4>1. w \in A
        BY DEF T
      <4> QED BY <1>6, <3>1, <4>1
    <3>3. D[c] = D[w] + 1
      <4> HIDE DEF D
      <4> QED BY <1>3, <1>5, <2>1, <3>2
    <3>4. D[p] <= D[w] + (k + 1)
      OBVIOUS
    <3>5. D[p] <= D[c] + k
      <4> HIDE DEF D, T, S
      <4> QED BY <2>1, <3>3, <3>4
    <3>6. c \in S
      BY <3>2, <3>5
    <3> HIDE DEF S, D
    <3> QED BY <2>1, <3>2, <3>6
  <2> QED BY <2>2, <2>3
<1>8. ASSUME NEW q \in S, NEW w \in {q, t.no[q].pai} \ {Nulo} PROVE w \in T
  <2>1. q \in live /\ q \in A /\ D[p] <= D[q] + k /\ D[q] \in Nat /\ D[p] \in Nat
    BY <1>3, <1>5
  <2>2. CASE w = q
    <3>1. D[p] <= D[q] + (k + 1)
      <4> HIDE DEF D
      <4> QED BY <2>1
    <3> QED BY <2>1, <2>2, <3>1
  <2>3. CASE w = t.no[q].pai
    <3>1. w # Nulo
      OBVIOUS
    <3>2. w \in live /\ D[q] = D[w] + 1 /\ s[q] \subseteq s[w] /\ D[w] \in Nat
      <4> HIDE DEF D
      <4> QED BY <1>5, <2>1, <2>3, <3>1
    <3>3. w \in A
      BY <1>3, <2>1, <3>2
    <3>4. D[p] <= D[w] + (k + 1)
      <4> HIDE DEF D
      <4> QED BY <2>1, <3>2
    <3> QED BY <3>3, <3>4
  <2> QED BY <2>2, <2>3
<1> HIDE DEF S, T
<1>9. T = UNION {{q, t.no[q].pai} \ {Nulo} : q \in S}
  BY <1>7, <1>8
<1> QED BY <1>4, <1>9

\* The way up from a page visits the nodes above it.
LEMMA CaminhoAcima ==
    ASSUME NEW s, Boa(Esta, Vivos, s), NEW p \in Vivos
    PROVE  Caminho(p) = Above(Vivos, s, p) /\ Prof(p) = Depth(Vivos, s, p)
<1> DEFINE N == Cardinality(Page)
           Is(f) == f = [k \in Nat |-> IF k = 0 THEN {p}
                                       ELSE UNION {{q, no[q].pai} \ {Nulo} : q \in f[k - 1]}]
           sobe == CHOOSE f : Is(f)
           S == [k \in Nat |-> Subidos(Vivos, s, p, k)]
<1>1. Caminho(p) = sobe[N]
  BY DEF Caminho
<1>2. Esta.no = no /\ Esta.raiz = raiz /\ Vivos \subseteq Page
  BY DEF Esta, Vivos
<1>3. ASSUME NEW w \in Vivos PROVE Depth(Vivos, s, w) \in Nat
  <2>1. SearchTree(Forma(Esta.no, Esta.raiz), Vivos, s, Page)
    BY DEF Boa
  <2> QED BY <2>1, PaginasOK, AboveChild
<1>4. Subidos(Vivos, s, p, 0) = {p}
  <2>1. SearchTree(Forma(Esta.no, Esta.raiz), Vivos, s, Page)
    BY DEF Boa
  <2>2. ASSUME NEW w \in Above(Vivos, s, p), Depth(Vivos, s, p) <= Depth(Vivos, s, w) + 0, w # p
        PROVE  FALSE
    <3>1. Depth(Vivos, s, w) < Depth(Vivos, s, p)
      BY <2>1, <2>2, PaginasOK, AboveLess
    <3>2. w \in Vivos
      BY DEF Above
    <3> DEFINE a == Depth(Vivos, s, w)  b == Depth(Vivos, s, p)
    <3>3. a \in Nat /\ b \in Nat /\ a < b /\ b <= a + 0
      BY <1>3, <2>2, <3>1, <3>2
    <3> HIDE DEF a, b
    <3> QED BY <3>3
  <2>3. p \in Above(Vivos, s, p)
    BY <2>1, PaginasOK, NodeFacts DEF Above
  <2>4. Depth(Vivos, s, p) <= Depth(Vivos, s, p) + 0
    BY <1>3
  <2> QED BY <2>2, <2>3, <2>4 DEF Subidos
<1>5. Is(S)
  <2>1. ASSUME NEW k \in Nat
        PROVE  S[k] = IF k = 0 THEN {p} ELSE UNION {{q, no[q].pai} \ {Nulo} : q \in S[k - 1]}
    <3>1. CASE k = 0
      BY <1>4, <3>1
    <3>2. CASE k # 0
      <4> DEFINE j == k - 1
      <4>1. j \in Nat /\ j + 1 = k
        BY <3>2
      <4> HIDE DEF j
      <4>2. Subidos(Vivos, s, p, j + 1) =
            UNION {{q, Esta.no[q].pai} \ {Nulo} : q \in Subidos(Vivos, s, p, j)}
        BY <4>1, MaisUmNivel
      <4>3. S[k] = Subidos(Vivos, s, p, j + 1) /\ S[j] = Subidos(Vivos, s, p, j)
        BY <4>1
      <4> HIDE DEF S
      <4>4. S[k] = UNION {{q, no[q].pai} \ {Nulo} : q \in S[j]}
        BY <1>2, <4>2, <4>3
      <4> QED BY <3>2, <4>4 DEF j
    <3> QED BY <3>1, <3>2
  <2> QED BY <2>1
<1>6. Is(sobe)
  <2> HIDE DEF Is
  <2> QED BY <1>5
<1> HIDE DEF sobe
<1> DEFINE I == {k \in Nat : sobe[k] = S[k]}
<1>7. Nat \subseteq I
  <2>0. \A k \in Nat :
           /\ sobe[k] = IF k = 0 THEN {p} ELSE UNION {{q, no[q].pai} \ {Nulo} : q \in sobe[k - 1]}
           /\ S[k] = IF k = 0 THEN {p} ELSE UNION {{q, no[q].pai} \ {Nulo} : q \in S[k - 1]}
    <3> HIDE DEF S
    <3> QED BY <1>5, <1>6
  <2> HIDE DEF S
  <2>1. 0 \in I
    BY <2>0
  <2>2. ASSUME NEW k \in Nat, k \in I PROVE k + 1 \in I
    <3>1. k + 1 \in Nat /\ k + 1 # 0 /\ (k + 1) - 1 = k
      OBVIOUS
    <3> QED BY <2>0, <2>2, <3>1
  <2> HIDE DEF I
  <2> QED BY <2>1, <2>2, NatSteps
<1>8. N \in Nat
  BY PageAssumption, FS_CardinalityType
<1>9. sobe[N] = S[N] /\ S[N] = Subidos(Vivos, s, p, N)
  <2> HIDE DEF N
  <2> QED BY <1>7, <1>8
<1>10. Depth(Vivos, s, p) <= N
  <2> DEFINE A == Above(Vivos, s, p)
  <2>1. A \subseteq Page
    BY <1>2 DEF Above
  <2>2. IsFiniteSet(A) /\ Cardinality(A) <= N
    BY <2>1, PageAssumption, FS_Subset
  <2>3. Cardinality(A) \in Nat
    BY <2>2, FS_CardinalityType
  <2>4. Depth(Vivos, s, p) = Cardinality(A) - 1
    BY DEF Depth
  <2> HIDE DEF A, N
  <2> QED BY <1>8, <2>2, <2>3, <2>4
<1>11. Subidos(Vivos, s, p, N) = Above(Vivos, s, p)
  <2>1. ASSUME NEW w \in Above(Vivos, s, p)
        PROVE  Depth(Vivos, s, p) <= Depth(Vivos, s, w) + N
    <3>1. w \in Vivos
      BY DEF Above
    <3> DEFINE a == Depth(Vivos, s, w)  b == Depth(Vivos, s, p)
    <3>2. a \in Nat /\ b \in Nat /\ b <= N
      BY <1>3, <1>10, <3>1
    <3> HIDE DEF a, b, N
    <3>3. b <= a + N
      BY <1>8, <3>2
    <3> QED BY <3>3 DEF a, b
  <2> HIDE DEF N
  <2> QED BY <2>1 DEF Subidos
<1> HIDE DEF S, N, I
<1>12. Caminho(p) = Above(Vivos, s, p)
  BY <1>1, <1>9, <1>11
<1> QED BY <1>12 DEF Prof, Depth

-----------------------------------------------------------------------------
(* Who is evicted.                                                         *)

\* A call evicts the page that the policy prefers, or none.
LEMMA DespejadasVitima ==
    ASSUME Arrumada, Next
    PROVE  \A v \in Despejadas : v = Vitima(Esta) /\ raiz # Nulo /\ v \in Vivos
<1> SUFFICES ASSUME resposta'.op = "inserir", NEW v \in Vivos \ Vivos'
             PROVE  v = Vitima(Esta) /\ raiz # Nulo
  BY DEF Despejadas
<1>1. PICK id \in Page, dados \in Dados \cup {NULL} :
         inserirExistente(id, dados) \/ inserirNova(id, dados)
  <2>1. \A c, pol : criarCache(c, pol) => resposta'.op # "inserir"
    BY DEF criarCache, Responde
  <2>2. \A id : buscarPagina(id) \/ removerPagina(id) => resposta'.op # "inserir"
    BY DEF buscarPagina, removerPagina, Responde
  <2>3. liberarCache => resposta'.op # "inserir"
    BY DEF liberarCache, Responde
  <2> QED BY <2>1, <2>2, <2>3 DEF Next, inserirPagina
<1>2. CASE inserirExistente(id, dados)
  <2>1. Feita(Vivos, Novo(id, dados))
    BY <1>2, ExistenteFaz
  <2>2. Vivos' = Vivos
    BY <2>1, DeixaFaz DEF Feita
  <2> QED BY <2>2
<1>3. CASE inserirNova(id, dados)
  <2>1. Feita((Vivos \ Saem) \cup {id}, Novo(id, dados))
    BY <1>3, NovaFaz
  <2>2. Vivos' = (Vivos \ Saem) \cup {id}
    BY <2>1, DeixaFaz DEF Feita
  <2>3. v \in Saem
    BY <2>2
  <2> QED BY <2>3 DEF Saem
<1> QED BY <1>1, <1>2, <1>3

\* The spans of the tree that there is, and its victim.
LEMMA VitimaDaqui ==
    ASSUME Arrumada, raiz # Nulo
    PROVE  \E s : Boa(Esta, Vivos, s) /\ VitimaCerta(Esta, Vivos, s, Vitima(Esta))
<1>1. PICK s : Boa(Esta, Vivos, s)
  BY ArrumadaEsta DEF Sa
<1>2. VitimaCerta(Esta, Vivos, s, Vitima(Esta))
  BY <1>1, VitimaAcha, ArrumadaEsta
<1> QED BY <1>1, <1>2

\* The root is above every node.
LEMMA RaizAcima ==
    ASSUME NEW t, NEW live, NEW s, Boa(t, live, s), NEW q \in live, q # t.raiz
    PROVE  /\ Depth(live, s, t.raiz) \in Nat /\ Depth(live, s, q) \in Nat
           /\ Depth(live, s, q) > Depth(live, s, t.raiz)
<1> DEFINE h == Forma(t.no, t.raiz)
           r == h.top
<1>1. live \subseteq Page /\ SearchTree(h, live, s, Page) /\ t.raiz = r
  BY FatosDaBoa DEF Boa, Forma
<1> HIDE DEF h
<1>2. r \in live /\ s[r] = Page
  BY <1>1, FatosDaBoa DEF SearchTree, Whole, Top
<1>3. r \in Above(live, s, q)
  BY <1>1, <1>2 DEF Above
<1> HIDE DEF r
<1>4. Depth(live, s, r) < Depth(live, s, q)
  BY <1>1, <1>3, PaginasOK, AboveLess
<1>5. Depth(live, s, r) \in Nat /\ Depth(live, s, q) \in Nat
  BY <1>1, <1>2, PaginasOK, AboveChild
<1> QED BY <1>1, <1>4, <1>5

LEMMA UltimaNaoSai ==
    ASSUME Arrumada, Next,
           politica = "LRU_PROFUNDIDADE", resposta.op \in {"buscar", "inserir"},
           resposta.id \in Vivos, Vivos # {resposta.id}, resposta.id \in Despejadas
    PROVE  FALSE
<1> DEFINE v == resposta.id
<1>1. v = Vitima(Esta) /\ raiz # Nulo /\ v = raiz
  BY DespejadasVitima DEF Arrumada
<1>2. PICK s : Boa(Esta, Vivos, s) /\ VitimaCerta(Esta, Vivos, s, Vitima(Esta))
  BY <1>1, VitimaDaqui
<1>3. PICK q \in Vivos : q # v
  OBVIOUS
<1>4. Esta.raiz = v
  BY <1>1, ArrumadaEsta
<1> HIDE DEF v
<1>5. ~Pior(Esta, [id |-> q, prof |-> Depth(Vivos, s, q)],
                  [id |-> v, prof |-> Depth(Vivos, s, v)])
  BY <1>1, <1>2 DEF VitimaCerta
<1>6. ~(Depth(Vivos, s, q) > Depth(Vivos, s, v))
  BY <1>5 DEF Pior, PiorLRU
<1>7. Depth(Vivos, s, q) > Depth(Vivos, s, v)
  BY <1>2, <1>3, <1>4, RaizAcima
<1> QED BY <1>6, <1>7

\* No page of the tree deserves more than v to be evicted.
Justa(v) ==
    \A q \in Vivos \ {v} :
       LET menos == no[q].acessos < no[v].acessos
           mais  == no[q].acessos > no[v].acessos
       IN  CASE politica = "LFU"     -> mais \/ (~menos /\ Prof(q) <= Prof(v))
             [] politica = "HIBRIDA" -> ~ScoreAcima(Prof(q), no[q].acessos,
                                                    Prof(v), no[v].acessos)
             [] OTHER                -> Prof(q) <= Prof(v)

LEMMA ContadosAteOLimite ==
    ASSUME Arrumada, NEW q \in Vivos
    PROVE  no[q].acessos \in 0 .. MaxAcessos
<1>1. no[q] \in No
  BY ArrumadaEsta DEF Arrumada, TypeOK
<1> QED BY <1>1 DEF No

LEMMA VitimaEhJusta ==
    ASSUME Arrumada, Next, NEW v \in Despejadas
    PROVE  Justa(v)
<1>1. v = Vitima(Esta) /\ raiz # Nulo /\ v \in Vivos
  BY DespejadasVitima
<1>2. PICK s : Boa(Esta, Vivos, s) /\ VitimaCerta(Esta, Vivos, s, v)
  BY <1>1, VitimaDaqui
<1>3. ASSUME NEW q \in Vivos
      PROVE  /\ Prof(q) = Depth(Vivos, s, q) /\ Prof(q) \in Nat /\ no[q].acessos \in Nat
  <2>1. Prof(q) = Depth(Vivos, s, q)
    BY <1>2, CaminhoAcima
  <2>2. Depth(Vivos, s, q) \in Nat
    <3>1. SearchTree(Forma(Esta.no, Esta.raiz), Vivos, s, Page)
      BY <1>2 DEF Boa
    <3> QED BY <3>1, PaginasOK, AboveChild
  <2>3. no[q] \in No
    BY ArrumadaEsta DEF Arrumada, TypeOK
  <2>4. no[q].acessos \in Nat
    BY <2>3, BoundAssumption DEF No
  <2> QED BY <2>1, <2>2, <2>4
<1>4. Esta.no = no
  BY DEF Esta
<1> SUFFICES ASSUME NEW q \in Vivos \ {v}
             PROVE  LET menos == no[q].acessos < no[v].acessos
                        mais  == no[q].acessos > no[v].acessos
                    IN  CASE politica = "LFU"     -> mais \/ (~menos /\ Prof(q) <= Prof(v))
                          [] politica = "HIBRIDA" -> ~ScoreAcima(Prof(q), no[q].acessos,
                                                                 Prof(v), no[v].acessos)
                          [] OTHER                -> Prof(q) <= Prof(v)
  BY DEF Justa
<1> DEFINE x == Prof(q)  y == Prof(v)  a == no[q].acessos  b == no[v].acessos
<1>5. x \in Nat /\ y \in Nat /\ a \in Nat /\ b \in Nat
  BY <1>1, <1>3
<1>6. ~Pior(Esta, [id |-> q, prof |-> x], [id |-> v, prof |-> y])
  <2>1. x = Depth(Vivos, s, q) /\ y = Depth(Vivos, s, v)
    BY <1>1, <1>3
  <2> HIDE DEF x, y
  <2> QED BY <1>2, <2>1 DEF VitimaCerta
<1>7. CASE politica = "LFU"
  <2>1. ~(a < b \/ (a = b /\ x > y))
    BY <1>4, <1>6, <1>7 DEF Pior, PiorLFU
  <2> HIDE DEF x, y, a, b
  <2>2. a > b \/ (~(a < b) /\ x <= y)
    BY <1>5, <2>1
  <2> QED BY <1>7, <2>2 DEF x, y, a, b
<1>8. CASE politica = "HIBRIDA"
  <2>1. ~(Score[x][a] > Score[y][b])
    BY <1>4, <1>6, <1>8 DEF Pior, PiorHibrida
  <2>2. x \in 0 .. Cardinality(Page) /\ y \in 0 .. Cardinality(Page)
    BY <1>1, <1>2, <1>3, ProfundidadeCabe
  <2>3. a \in 0 .. MaxAcessos /\ b \in 0 .. MaxAcessos
    BY <1>1, ContadosAteOLimite
  <2> HIDE DEF x, y, a, b
  <2>4. ~ScoreAcima(x, a, y, b)
    BY <2>1, <2>2, <2>3, ScoreAssumption
  <2> QED BY <1>8, <2>4 DEF x, y, a, b
<1>9. CASE politica \notin {"LFU", "HIBRIDA"}
  <2>1. ~(x > y)
    BY <1>6, <1>9 DEF Pior, PiorLRU
  <2> HIDE DEF x, y
  <2>2. x <= y
    BY <1>5, <2>1
  <2> QED BY <1>9, <2>2 DEF x, y
<1> QED BY <1>7, <1>8, <1>9

\* The victim is the one that the comment on the policies promises: nobody is
\* deeper (LRU), or counted less, or as little and deeper (LFU); and in the
\* hybrid policy nobody has a score that is truly higher, however the doubles
\* round scores that are all but the same.
THEOREM VitimaJustaSempre == Spec => VitimaJusta
<1>1. Arrumada /\ [Next]_vars => [\A v \in Despejadas : Justa(v)]_vars
  BY VitimaEhJusta
<1> QED BY <1>1, ArrumadaInvariante, PTL DEF Spec, VitimaJusta, Justa

\* By depth, the page that the call before found or stored, which is the root,
\* is not the one evicted, unless it is alone.
THEOREM UltimaFicaSempre == Spec => UltimaFica
<1>1. Arrumada /\ [Next]_vars =>
         [/\ politica = "LRU_PROFUNDIDADE"
          /\ resposta.op \in {"buscar", "inserir"}
          /\ resposta.id \in Vivos
          /\ Vivos # {resposta.id}
          => resposta.id \notin Despejadas]_vars
  BY UltimaNaoSai
<1> QED BY <1>1, ArrumadaInvariante, PTL DEF Spec, UltimaFica

-----------------------------------------------------------------------------
(* What an access costs, and what it does to the depths.                   *)

\* u is what the tree t has become once the search that ended at f has brought x,
\* X levels deep, to the root.
Chega(t, live, s, f, u, liveU, x, X) ==
    /\ u.raiz = x /\ u.rotacoes = t.rotacoes + X
    /\ \E sU : /\ Boa(u, liveU, sU)
               /\ \A q \in live \ {x} :
                     /\ q \in liveU
                     /\ Depth(liveU, sU, q) <= HalfWay(X, Depth(live, s, q), f \in s[q])

LEMMA SplayChega ==
    ASSUME NEW t, NEW live, NEW s, Boa(t, live, s), NEW x \in live
    PROVE  Chega(t, live, s, x, splay(t, x), live, x, Depth(live, s, x))
<1> DEFINE u == splay(t, x)
<1>1. SplayFeito(t, live, s, Page, x, u)
  BY SplayFaz DEF Boa
<1> HIDE DEF u
<1> DEFINE h == Forma(t.no, t.raiz)
           i == Forma(u.no, u.raiz)
<1>2. OnTop(h, i, live, s, Page, x)
  BY <1>1 DEF SplayFeito
<1> HIDE DEF h, i
<1>3. PICK sT : /\ SearchTree(i, live, sT, Page)
                /\ \A q \in live \ {x} :
                      Depth(live, sT, q) <= HalfWay(Depth(live, s, x),
                                                    Depth(live, s, q), x \in s[q])
  BY <1>2 DEF OnTop
<1>4. Boa(u, live, sT)
  BY <1>1, <1>3 DEF SplayFeito, Boa, i
<1> QED BY <1>1, <1>3, <1>4 DEF SplayFeito, Chega, u

\* A new page has been one level below the node at which the search for it ended.
LEMMA InserirChega ==
    ASSUME NEW t, NEW live, NEW s, Boa(t, live, s), NEW id \in Page, id \notin live,
           NEW dados \in Dados \cup {NULL}
    PROVE  LET f == Fim(t, id) IN
           Chega(t, live, s, f, inserirSplay(t, id, dados), live \cup {id}, id,
                 IF f = Nulo THEN 0 ELSE Depth(live, s, f) + 1)
<1> DEFINE f == Fim(t, id)
           w == Pendura(t, id, f, dados)
           u == inserirSplay(t, id, dados)
           h == Forma(t.no, t.raiz)
           i == Forma(w.no, w.raiz)
           liveU == live \cup {id}
           sW == HungSpan(s, id, f, Page)
           X == IF f = Nulo THEN 0 ELSE Depth(live, s, f) + 1
<1>1. u = splay(w, id)
  BY BuscarAcha DEF inserirSplay
<1>2. Hung(h, id, f, i) /\ w \in Arvore /\ w.rotacoes = t.rotacoes
  BY PenduraHung
<1>3. /\ IF h.top = Nulo THEN f = Nulo ELSE SearchEnd(h, live, s, id, f)
      /\ SearchTree(h, live, s, Page)
  <2>1. h.top = t.raiz
    BY DEF Forma
  <2> HIDE DEF h
  <2> QED BY <2>1, BuscarAcha, FimAchado DEF Boa, h
<1> HIDE DEF f, w, u, h, i
<1>4. SearchTree(i, liveU, sW, Page)
  BY <1>2, <1>3, PaginasOK, HungTree
<1>5. /\ Depth(liveU, sW, id) = X
      /\ \A q \in live : /\ Depth(liveU, sW, q) = Depth(live, s, q)
                         /\ (id \in sW[q]) <=> (f \in s[q])
  <2>1. HungBelow(live, s, id, f, liveU, sW)
    BY <1>3, PaginasOK, HungDepth
  <2> QED BY <2>1 DEF HungBelow
<1> HIDE DEF sW, X
<1>6. Boa(w, liveU, sW) /\ id \in liveU
  BY <1>2, <1>4 DEF Boa, i
<1> HIDE DEF liveU
<1>7. Chega(w, liveU, sW, id, u, liveU, id, X)
  BY <1>1, <1>5, <1>6, SplayChega
<1>8. PICK sU : /\ Boa(u, liveU, sU)
                /\ \A q \in liveU \ {id} :
                      Depth(liveU, sU, q) <= HalfWay(X, Depth(liveU, sW, q), id \in sW[q])
  BY <1>7 DEF Chega
<1>9. ASSUME NEW q \in live \ {id}
      PROVE  /\ q \in liveU
             /\ Depth(liveU, sU, q) <= HalfWay(X, Depth(live, s, q), f \in s[q])
  <2>1. q \in liveU \ {id}
    BY DEF liveU
  <2>2. Depth(liveU, sU, q) <= HalfWay(X, Depth(live, s, q), id \in sW[q])
    BY <1>5, <1>8, <2>1
  <2>3. (id \in sW[q]) <=> (f \in s[q])
    BY <1>5
  <2> QED BY <2>1, <2>2, <2>3 DEF HalfWay
<1>10. Chega(t, live, s, f, u, liveU, id, X)
  BY <1>2, <1>7, <1>8, <1>9 DEF Chega
<1> QED BY <1>10 DEF f, u, liveU, X

\* Notes on the pages before and after the splay change nothing in that.
LEMMA ChegaDepois ==
    ASSUME NEW t, NEW live, NEW s, NEW f, NEW u, NEW liveU, NEW x, NEW X,
           Chega(t, live, s, f, u, liveU, x, X)
    PROVE  /\ \A v, id, d, a : Anotada(u, v, id, d, a) => Chega(t, live, s, f, v, liveU, x, X)
           /\ \A v, id, d, a : Anotada(v, t, id, d, a) => Chega(v, live, s, f, u, liveU, x, X)
<1>1. ASSUME NEW v, NEW id, NEW d, NEW a, Anotada(u, v, id, d, a)
      PROVE  Chega(t, live, s, f, v, liveU, x, X)
  <2>1. PICK sU : /\ Boa(u, liveU, sU)
                  /\ \A q \in live \ {x} :
                        /\ q \in liveU
                        /\ Depth(liveU, sU, q) <= HalfWay(X, Depth(live, s, q), f \in s[q])
    BY DEF Chega
  <2>2. Boa(v, liveU, sU)
    BY <1>1, <2>1, AnotaSa
  <2> QED BY <1>1, <2>1, <2>2 DEF Chega, Anotada
<1>2. ASSUME NEW v, NEW id, NEW d, NEW a, Anotada(v, t, id, d, a)
      PROVE  Chega(v, live, s, f, u, liveU, x, X)
  BY <1>2 DEF Chega, Anotada
<1> QED BY <1>1, <1>2

\* An access, from one state to the next.
Acessou(s, t, x, X) ==
    /\ Boa(Esta, Vivos, s) /\ Fica(t) /\ stats'.rotacoes = t.rotacoes
    /\ Chega(Esta, Vivos, s, Fim(Esta, resposta'.id), t, Vivos', x, X)

LEMMA BuscarAcessa ==
    ASSUME Arrumada, NEW id \in Page, buscarPagina(id), raiz' # Nulo
    PROVE  LET f == Fim(Esta, id) IN
           \E s, t : f \in Vivos /\ Acessou(s, t, f, Depth(Vivos, s, f))
<1> DEFINE f == Fim(Esta, id)
           t == buscarSplay(Esta, id)
<1>1. PICK s : Boa(Esta, Vivos, s)
  BY ArrumadaEsta DEF Sa
<1>2. Fica(t) /\ stats'.rotacoes = t.rotacoes /\ resposta'.id = id
  BY DEF buscarPagina, Conta, Responde
<1>3. t.raiz = f /\ Esta.raiz # Nulo
  <2>1. t.raiz = f
    BY <1>1, BuscarSplayLeva
  <2>2. Esta.raiz = Nulo => f = Nulo
    BY <1>1, BuscarAcha
  <2> HIDE DEF t, f
  <2>3. t.raiz # Nulo
    BY <1>2 DEF Fica
  <2> QED BY <2>1, <2>2, <2>3
<1>4. f \in Vivos /\ t = splay(Esta, f)
  BY <1>1, <1>3, BuscarAcha DEF buscarSplay
<1>5. Vivos' = Vivos
  BY BuscarFaz, DeixaFaz DEF Feita
<1> HIDE DEF f, t
<1>6. Chega(Esta, Vivos, s, f, t, Vivos, f, Depth(Vivos, s, f))
  <2> DEFINE e == Esta
             live == Vivos
  <2>1. Boa(e, live, s) /\ f \in live /\ t = splay(e, f)
    BY <1>1, <1>4
  <2> HIDE DEF e, live
  <2>2. Chega(e, live, s, f, t, live, f, Depth(live, s, f))
    BY <2>1, SplayChega
  <2> QED BY <2>2 DEF e, live
<1>7. Acessou(s, t, f, Depth(Vivos, s, f))
  BY <1>1, <1>2, <1>5, <1>6 DEF Acessou, f
<1> QED BY <1>4, <1>7 DEF f

LEMMA ExistenteAcessa ==
    ASSUME Arrumada, NEW id \in Page, NEW dados \in Dados \cup {NULL},
           inserirExistente(id, dados), resposta'.id = id
    PROVE  \E s, t : /\ id \in Vivos /\ Fim(Esta, id) = id
                     /\ Acessou(s, t, id, Depth(Vivos, s, id))
<1> DEFINE d == IF dados = NULL THEN no[id].dados ELSE dados
           w == [Esta EXCEPT !.no[id].dados = d, !.no[id].acessos = @ + 1]
           t == splay(w, id)
<1>1. PICK s : Boa(Esta, Vivos, s)
  BY ArrumadaEsta DEF Sa
<1>2. id \in Vivos /\ no[id].acessos < MaxAcessos /\ Fim(Esta, id) = id
  BY ArrumadaEsta DEF inserirExistente, buscar
<1>3. Fica(t) /\ stats'.rotacoes = t.rotacoes
  <2>1. w = [Esta EXCEPT !.no[id].dados = IF dados = NULL THEN @ ELSE dados,
                         !.no[id].acessos = @ + 1]
    BY DEF Esta
  <2> HIDE DEF w
  <2> QED BY <2>1 DEF inserirExistente, Conta
<1>4. d \in Dados \cup {Vazio, NULL}
  <2>1. no[id] \in No
    BY DEF Arrumada, TypeOK
  <2> QED BY <2>1 DEF No
<1> HIDE DEF d
<1>5. Anotada(Esta, w, id, d, no[id].acessos + 1)
  <2> DEFINE e == Esta
  <2>1. e \in Arvore /\ e.no = no
    BY <1>1, ArrumadaEsta DEF Boa
  <2>2. w = [e EXCEPT !.no[id].dados = d, !.no[id].acessos = @ + 1]
    OBVIOUS
  <2> HIDE DEF e, w
  <2>3. Anotada(e, w, id, d, e.no[id].acessos + 1)
    BY <1>2, <1>4, <2>1, <2>2, MaisUmAcesso
  <2> QED BY <2>1, <2>3 DEF e
<1> HIDE DEF w
<1>6. Boa(w, Vivos, s)
  BY <1>1, <1>5, AnotaSa
<1>7. Chega(w, Vivos, s, id, t, Vivos, id, Depth(Vivos, s, id))
  <2> DEFINE live == Vivos
  <2>1. Boa(w, live, s) /\ id \in live
    BY <1>2, <1>6
  <2> HIDE DEF live
  <2>2. Chega(w, live, s, id, t, live, id, Depth(live, s, id))
    BY <2>1, SplayChega
  <2> QED BY <2>2 DEF live
<1> HIDE DEF t
<1>8. Chega(Esta, Vivos, s, id, t, Vivos, id, Depth(Vivos, s, id))
  BY <1>5, <1>7, ChegaDepois
<1>9. Vivos' = Vivos
  BY ExistenteFaz, DeixaFaz DEF Feita
<1>10. Acessou(s, t, id, Depth(Vivos, s, id))
  BY <1>1, <1>2, <1>3, <1>8, <1>9 DEF Acessou
<1> QED BY <1>2, <1>10

LEMMA NovaAcessa ==
    ASSUME Arrumada, NEW id \in Page, NEW dados \in Dados \cup {NULL},
           inserirNova(id, dados), resposta'.id = id, resposta'.op = "inserir",
           Despejadas = {}
    PROVE  LET f == Fim(Esta, id) IN
           \E s, t : /\ f # id /\ f \in Vivos \cup {Nulo}
                     /\ f = Nulo => Vivos = {}
                     /\ Acessou(s, t, id, IF f = Nulo THEN 0 ELSE Depth(Vivos, s, f) + 1)
<1> DEFINE f == Fim(Esta, id)
           u == inserirSplay(Esta, id, dados)
           t == [u EXCEPT !.no[id].acessos = 1]
<1>1. PICK s : Boa(Esta, Vivos, s)
  BY ArrumadaEsta DEF Sa
<1>2. id \notin Vivos /\ Vivos' = (Vivos \ Saem) \cup {id}
  BY NovaFaz, DeixaFaz DEF Feita
<1>3. Saem = {} /\ Vivos' = Vivos \cup {id}
  <2>1. Saem \subseteq Vivos
    BY SaemVivos
  <2>2. Vivos \ Vivos' = {}
    BY DEF Despejadas
  <2> QED BY <1>2, <2>1, <2>2
<1>4. Fica(t) /\ stats'.rotacoes = t.rotacoes
  <2>1. ~(tamanho >= capacidade /\ raiz # Nulo)
    BY <1>3 DEF Saem
  <2> QED BY <2>1 DEF inserirNova, Conta
<1>5. /\ f # id /\ f \in Vivos \cup {Nulo}
      /\ f = Nulo => Vivos = {}
  <2>1. /\ Esta.raiz # Nulo => f \in Vivos
        /\ Esta.raiz = Nulo => f = Nulo /\ Vivos = {}
        /\ Vivos \subseteq Page
    BY <1>1, BuscarAcha, FatosDaBoa
  <2>2. Nulo \notin Page
    BY PaginasOK DEF PagesOK
  <2> HIDE DEF f
  <2> QED BY <1>2, <2>1, <2>2
<1> DEFINE X == IF f = Nulo THEN 0 ELSE Depth(Vivos, s, f) + 1
<1>6. Chega(Esta, Vivos, s, f, u, Vivos \cup {id}, id, X)
  BY <1>1, <1>2, InserirChega
<1> HIDE DEF X, f
<1>7. u \in Arvore
  BY <1>6 DEF Chega, Boa
<1>8. Anotada(u, t, id, u.no[id].dados, 1)
  <2> HIDE DEF u
  <2> QED BY <1>7, ContadorUm
<1> HIDE DEF u, t
<1>9. Chega(Esta, Vivos, s, f, t, Vivos \cup {id}, id, X)
  BY <1>6, <1>8, ChegaDepois
<1>10. Acessou(s, t, id, X)
  BY <1>1, <1>3, <1>4, <1>9 DEF Acessou, f
<1> QED BY <1>5, <1>10 DEF X, f

\* What an access is, whichever call makes it.
AcessoVisto(s, t) ==
    LET f == Fim(Esta, resposta'.id) IN
    /\ f \in Vivos \cup {Nulo} /\ (f = Nulo => Vivos = {})
    /\ Acessou(s, t, Acessada.id, Acessada.prof)
    /\ Acessada.prof \in Nat

LEMMA ProfNatural ==
    ASSUME NEW s, NEW t, NEW x, NEW X, Acessou(s, t, x, X), NEW p \in Vivos
    PROVE  Prof(p) = Depth(Vivos, s, p) /\ Prof(p) \in Nat
<1>1. Boa(Esta, Vivos, s) /\ SearchTree(Forma(Esta.no, Esta.raiz), Vivos, s, Page)
  BY DEF Acessou, Boa
<1>2. Depth(Vivos, s, p) \in Nat
  BY <1>1, PaginasOK, AboveChild
<1> QED BY <1>1, <1>2, CaminhoAcima

LEMMA AcessoFeito ==
    ASSUME Arrumada, Next, Acesso
    PROVE  \E s, t : AcessoVisto(s, t)
<1>1. resposta'.op \in {"buscar", "inserir"} /\ Despejadas = {} /\ raiz' # Nulo
  BY DEF Acesso
<1>2. Acessada = LET f == Fim(Esta, resposta'.id) IN
                 IF resposta'.op = "inserir" /\ f # resposta'.id
                 THEN [id |-> resposta'.id, prof |-> IF f = Nulo THEN 0 ELSE Prof(f) + 1]
                 ELSE [id |-> f, prof |-> Prof(f)]
  BY DEF Acessada
<1>3. ASSUME NEW id \in Page, buscarPagina(id) PROVE \E s, t : AcessoVisto(s, t)
  <2> DEFINE f == Fim(Esta, id)
  <2>1. resposta'.id = id /\ resposta'.op = "buscar"
    BY <1>3 DEF buscarPagina, Responde
  <2>2. PICK s, t : f \in Vivos /\ Acessou(s, t, f, Depth(Vivos, s, f))
    BY <1>1, <1>3, BuscarAcessa
  <2>3. Acessada = [id |-> f, prof |-> Prof(f)]
    BY <1>2, <2>1
  <2> HIDE DEF f
  <2>4. Prof(f) = Depth(Vivos, s, f) /\ Prof(f) \in Nat
    BY <2>2, ProfNatural
  <2>5. f # Nulo
    BY <2>2, ArrumadaEsta, PaginasOK DEF PagesOK
  <2>6. AcessoVisto(s, t)
    BY <2>1, <2>2, <2>3, <2>4, <2>5 DEF AcessoVisto, f
  <2> QED BY <2>6
<1>4. ASSUME NEW id \in Page, NEW dados \in Dados \cup {NULL}, inserirPagina(id, dados)
      PROVE  \E s, t : AcessoVisto(s, t)
  <2> DEFINE f == Fim(Esta, id)
  <2>1. /\ resposta'.id = id /\ resposta'.op = "inserir"
        /\ inserirExistente(id, dados) \/ inserirNova(id, dados)
    BY <1>4 DEF inserirPagina, Responde
  <2>2. CASE inserirExistente(id, dados)
    <3>1. PICK s, t : id \in Vivos /\ f = id /\ Acessou(s, t, id, Depth(Vivos, s, id))
      BY <2>1, <2>2, ExistenteAcessa
    <3>2. Acessada = [id |-> id, prof |-> Prof(id)]
      BY <1>2, <2>1, <3>1
    <3> HIDE DEF f
    <3>3. Prof(id) = Depth(Vivos, s, id) /\ Prof(id) \in Nat
      BY <3>1, ProfNatural
    <3>4. id # Nulo
      BY PaginasOK DEF PagesOK
    <3>5. AcessoVisto(s, t)
      BY <2>1, <3>1, <3>2, <3>3, <3>4 DEF AcessoVisto, f
    <3> QED BY <3>5
  <2>3. CASE inserirNova(id, dados)
    <3>1. PICK s, t : /\ f # id /\ f \in Vivos \cup {Nulo}
                      /\ f = Nulo => Vivos = {}
                      /\ Acessou(s, t, id, IF f = Nulo THEN 0 ELSE Depth(Vivos, s, f) + 1)
      BY <1>1, <2>1, <2>3, NovaAcessa
    <3>2. Acessada = [id |-> id, prof |-> IF f = Nulo THEN 0 ELSE Prof(f) + 1]
      BY <1>2, <2>1, <3>1
    <3> HIDE DEF f
    <3>3. f # Nulo => Prof(f) = Depth(Vivos, s, f) /\ Prof(f) \in Nat
      BY <3>1, ProfNatural
    <3>4. AcessoVisto(s, t)
      BY <2>1, <3>1, <3>2, <3>3 DEF AcessoVisto, f
    <3> QED BY <3>4
  <2> QED BY <2>1, <2>2, <2>3
<1>5. \A c, pol : criarCache(c, pol) => resposta'.op = "criar"
  BY DEF criarCache, Responde
<1>6. \A id : removerPagina(id) => resposta'.op = "remover"
  BY DEF removerPagina, Responde
<1>7. liberarCache => resposta'.op = "liberar"
  BY DEF liberarCache, Responde
<1> QED BY <1>1, <1>3, <1>4, <1>5, <1>6, <1>7 DEF Next

\* An access leaves a tree whose depths are known.
LEMMA ProfDepois ==
    (\A s : \A p \in Vivos : Boa(Esta, Vivos, s) => Prof(p) = Depth(Vivos, s, p))'
<1>1. \A s : \A p \in Vivos : Boa(Esta, Vivos, s) => Prof(p) = Depth(Vivos, s, p)
  BY CaminhoAcima
<1> QED BY <1>1, PTL

\* Where an access to x from depth X may leave the pages.
Metade(fim, x, X) ==
    \A q \in Vivos \ {x} :
       LET d == Prof(q)
           limite == IF q \notin Caminho(fim) THEN d + 2
                     ELSE IF (X - d) % 2 = 1 THEN (d \div 2) + 1
                     ELSE ((d + 1) \div 2) + 2
       IN  Prof(q)' <= limite

LEMMA AcessoPelaMetade ==
    ASSUME Arrumada, NEW s, NEW t, AcessoVisto(s, t)
    PROVE  /\ stats'.rotacoes = Acessada.prof /\ raiz' = Acessada.id
           /\ Metade(Fim(Esta, resposta'.id), Acessada.id, Acessada.prof)
<1> DEFINE f == Fim(Esta, resposta'.id)
           x == Acessada.id
           X == Acessada.prof
<1>1. /\ f \in Vivos \cup {Nulo} /\ (f = Nulo => Vivos = {})
      /\ Boa(Esta, Vivos, s) /\ Fica(t) /\ stats'.rotacoes = t.rotacoes
      /\ Chega(Esta, Vivos, s, f, t, Vivos', x, X) /\ X \in Nat
  BY DEF AcessoVisto, Acessou
<1> HIDE DEF f, x, X
<1>2. /\ t.raiz = x /\ t.rotacoes = Esta.rotacoes + X
  BY <1>1 DEF Chega
<1>3. PICK sU : /\ Boa(t, Vivos', sU)
                /\ \A q \in Vivos \ {x} :
                      /\ q \in Vivos'
                      /\ Depth(Vivos', sU, q) <= HalfWay(X, Depth(Vivos, s, q), f \in s[q])
  BY <1>1 DEF Chega
<1>4. Boa(Esta', Vivos', sU)
  <2>1. Esta' = [raiz |-> t.raiz, no |-> t.no, rotacoes |-> 0]
    BY <1>1 DEF Esta, Fica
  <2> DEFINE u == [raiz |-> t.raiz, no |-> t.no, rotacoes |-> 0]
             live == Vivos'
  <2>2. Boa(t, live, sU)
    BY <1>3
  <2>3. u \in Arvore /\ u.no = t.no /\ u.raiz = t.raiz
    BY <2>2 DEF Boa, Arvore
  <2> HIDE DEF u, live
  <2>4. Boa(u, live, sU)
    BY <2>2, <2>3 DEF Boa
  <2> QED BY <2>1, <2>4 DEF u, live
<1>5. ASSUME NEW q \in Vivos'
      PROVE  Prof(q)' = Depth(Vivos', sU, q)
  BY <1>4, <1>5, ProfDepois
<1>6. ASSUME NEW q \in Vivos \ {x}
      PROVE  Prof(q)' <= HalfWay(X, Prof(q), q \in Caminho(f))
  <2>1. q \in Vivos' /\ Depth(Vivos', sU, q) <= HalfWay(X, Depth(Vivos, s, q), f \in s[q])
    BY <1>3
  <2>2. Prof(q)' = Depth(Vivos', sU, q)
    BY <1>5, <2>1
  <2>3. Prof(q) = Depth(Vivos, s, q)
    BY <1>1, CaminhoAcima
  <2>4. f \in Vivos
    BY <1>1
  <2>5. q \in Caminho(f) <=> f \in s[q]
    <3>1. Caminho(f) = Above(Vivos, s, f)
      BY <1>1, <2>4, CaminhoAcima
    <3> QED BY <3>1 DEF Above
  <2> QED BY <2>1, <2>2, <2>3, <2>5 DEF HalfWay
<1>7. Metade(f, x, X)
  BY <1>6 DEF Metade, HalfWay
<1>8. X = Esta.rotacoes + X
  <2>1. Esta.rotacoes = 0
    BY DEF Esta
  <2> QED BY <1>1, <2>1
<1> QED BY <1>1, <1>2, <1>7, <1>8 DEF Fica, f, x, X

LEMMA AcessoSobe ==
    ASSUME Arrumada, Next, Acesso
    PROVE  stats'.rotacoes = Acessada.prof /\ raiz' = Acessada.id
BY AcessoFeito, AcessoPelaMetade

LEMMA AcessoEncurta ==
    ASSUME Arrumada, Next, Acesso
    PROVE  Metade(Fim(Esta, resposta'.id), Acessada.id, Acessada.prof)
BY AcessoFeito, AcessoPelaMetade

\* The rotations of an access, which the benchmark reports as its cost, are as
\* many as the levels between the page and the root, where it ends.
THEOREM RotacoesSempreProfundidade == Spec => RotacoesSaoProfundidade
<1>1. Arrumada /\ [Next]_vars =>
         [Acesso => stats'.rotacoes = Acessada.prof /\ raiz' = Acessada.id]_vars
  BY AcessoSobe
<1> QED BY <1>1, ArrumadaInvariante, PTL DEF Spec, RotacoesSaoProfundidade

\* An access leaves the nodes that its search visited at about half their depth,
\* and no other more than two levels deeper: what the order of the two rotations
\* of a zig-zig is for.
THEOREM SempreCaminhoPelaMetade == Spec => CaminhoPelaMetade
<1>1. Arrumada /\ [Next]_vars =>
         [Acesso => Metade(Fim(Esta, resposta'.id), Acessada.id, Acessada.prof)]_vars
  BY AcessoEncurta
<1>2. CaminhoPelaMetade <=>
         [][Acesso => Metade(Fim(Esta, resposta'.id), Acessada.id, Acessada.prof)]_vars
  BY DEF CaminhoPelaMetade, Metade
<1> QED BY <1>1, <1>2, ArrumadaInvariante, PTL DEF Spec
=============================================================================
