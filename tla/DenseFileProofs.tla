--------------------------- MODULE DenseFileProofs ---------------------------
(***************************************************************************)
(* What the operations of the two layouts of dense_ann do to a file in     *)
(* order: beam search, selection, insertion, deletion, build, 'finalize'   *)
(* and VACUUM keep rows below the next id, links whole and hints right,    *)
(* and change the rows as they should.                                     *)
(***************************************************************************)
EXTENDS DenseTable, SequenceTheorems, InductionLemmas

-----------------------------------------------------------------------------
(***************************************************************************)
(* A file in order: its shape, its rows below next, its links and its      *)
(* hints.  mv: VACUUM has moved what hints name; hints: there may be any.  *)
(***************************************************************************)
Buffer(f) == DOMAIN f \subseteq RowIds /\ \A r \in DOMAIN f : f[r] \in Vecs

Shape(t) ==
  /\ t = [buffer |-> t.buffer, nodes |-> t.nodes, rowids |-> t.rowids,
          vectors |-> t.vectors, lists |-> t.lists, head |-> t.head,
          state |-> t.state, pages |-> t.pages, top |-> t.top]
  /\ t.state \in [built : BOOLEAN, next : Nat, hints : BOOLEAN]
  /\ t.pages = [nodes |-> t.pages.nodes, vectors |-> t.pages.vectors, lists |-> t.pages.lists]
  /\ t.top \in Nat
  /\ Buffer(t.buffer)

NoRows(t) ==
  /\ t.nodes = << >> /\ t.vectors = << >> /\ t.lists = << >>
  /\ t.rowids = << >> /\ t.head = << >>
  /\ t.pages = [nodes |-> << >>, vectors |-> << >>, lists |-> << >>]

HintOK(t, tab, id, page, hints, mv) ==
  /\ ~mv => page \in {0, PageOf(t, tab, id)}
  /\ ~hints => page = 0

RefType  == [id : Nat, page : Nat, code : Nat]
NodeType == [row : RowIds, dead : BOOLEAN, vec : Vecs, nbrs : Seq(RefType)]

GoodRefs(t, hints, mv) ==
  {ref \in RefType : HintOK(t, "nodes", ref.id, ref.page, hints, mv)}

GraphBase(t, next, hints, mv) ==
  /\ t.vectors = << >> /\ t.lists = << >>
  /\ \A i \in DOMAIN t.nodes :
       /\ i \in Nat /\ i < next
       /\ t.nodes[i] \in NodeType /\ t.nodes[i].nbrs \in Seq(GoodRefs(t, hints, mv))
  /\ \A i \in DOMAIN t.pages.nodes : i \in Nat /\ i < next /\ t.pages.nodes[i] \in Nat
  /\ GraphWhole(t)

EntryType == [row : RowIds, dead : BOOLEAN, page : Nat, code : Nat]

IvfBase(t, next, hints, mv) ==
  /\ t.nodes = << >>
  /\ \A s \in DOMAIN t.vectors : s \in Nat /\ s < next /\ t.vectors[s] \in Vecs
  /\ \A k \in DOMAIN t.lists :
       LET c == t.lists[k]
       IN /\ k \in Nat
          /\ c = [first |-> c.first, page |-> c.page, ents |-> c.ents]
          /\ c.first \in Nat /\ c.ents \in Seq(EntryType)
          /\ \A e \in DOMAIN c.ents :
               /\ HintOK(t, "vectors", c.first + e - 1, c.ents[e].page, hints, mv)
               /\ c.ents[e].dead => c.ents[e].page = 0
  /\ \A s \in DOMAIN t.pages.vectors : t.pages.vectors[s] \in Nat
  /\ IvfWhole(t)

(* The entry set, or the list directory, that goes with a file.            *)
Directory(head, nl, next) ==
  /\ DOMAIN head = 0 .. nl - 1
  /\ \A L \in 0 .. nl - 1 :
       /\ head[L] = [n |-> head[L].n, first |-> head[L].first, last |-> head[L].last]
       /\ head[L].n \in Nat /\ head[L].n <= next + MaxSlots

IvfHead(t, next, head) ==
  /\ \E nl \in 1 .. NLists : Directory(head, nl, next)
  /\ \A k \in DOMAIN t.lists :
       ListOfKey(k) \in DOMAIN head /\ k % Stride < head[ListOfKey(k)].n

Good(lay, t, next, head, hints, mv) ==
  IF lay = "ivf"
  THEN IvfBase(t, next, hints, mv) /\ IvfHead(t, next, head)
  ELSE GraphBase(t, next, hints, mv) /\ head \in Seq(GoodRefs(t, hints, mv))

(* The rows of a built table by SQL, and rows without one of them.         *)
GraphView(t) == [r \in DOMAIN t.rowids |-> VecOfNode(t, r)]
IvfView(t)   == [r \in DOMAIN t.rowids |-> VecOfSlot(t, r)]
Less(f, r)   == [k \in DOMAIN f \ {r} |-> f[k]]
RowsOf(t)    == IF layout = "ivf" THEN IvfView(t) ELSE GraphView(t)

-----------------------------------------------------------------------------
(***************************************************************************)
(* Places in order, and the sequences made from them.                      *)
(***************************************************************************)
LEMMA OneTo == ASSUME NEW n \in Nat PROVE IsFiniteSet(1 .. n) /\ Cardinality(1 .. n) = n
<1>1. 1 \in Int /\ n \in Int
  OBVIOUS
<1>2. IsFiniteSet(1 .. n) /\ Cardinality(1 .. n) = IF 1 > n THEN 0 ELSE n - 1 + 1
  BY <1>1, FS_Interval
<1> QED BY <1>2

LEMMA PlaceFacts ==
  ASSUME NEW S, IsFiniteSet(S), S \subseteq Nat
  PROVE  /\ Cardinality(S) \in Nat
         /\ \A k \in S : Place(S, k) \in 0 .. Cardinality(S) - 1
         /\ \A k, l \in S : Place(S, k) = Place(S, l) => k = l
         /\ \A n \in 0 .. Cardinality(S) - 1 : Nth(S, n) \in S /\ Place(S, Nth(S, n)) = n
<1> DEFINE R == {p \in Nat \X Nat : p[1] < p[2]}
           m == Cardinality(S)
<1>1. \A a, b \in Nat : << a, b >> \in R <=> a < b
  OBVIOUS
<1> HIDE DEF R
<1>2. OrdersStrictly(R, S)
  <2> SUFFICES ASSUME NEW a \in S, NEW b \in S, NEW c \in S
               PROVE  /\ << a, a >> \notin R
                      /\ a # b => << a, b >> \in R \/ << b, a >> \in R
                      /\ << a, b >> \in R /\ << b, c >> \in R => << a, c >> \in R
    BY DEF OrdersStrictly
  <2>1. a \in Nat /\ b \in Nat /\ c \in Nat
    OBVIOUS
  <2> QED BY <1>1, <2>1
<1>3. Places(R, S) \in Bijection(S, 0 .. m - 1)
  BY <1>2, PlacesAreAll
<1>4. \A a \in S : Places(R, S)[a] = Place(S, a)
  <2> TAKE a \in S
  <2>1. Before(R, S, a) = {b \in S : b < a}
    BY <1>1 DEF Before
  <2> QED BY <2>1 DEF Places, Place
<1>5. /\ Places(R, S) \in [S -> 0 .. m - 1]
      /\ \A a, b \in S : Places(R, S)[a] = Places(R, S)[b] => a = b
      /\ \A n \in 0 .. m - 1 : \E a \in S : Places(R, S)[a] = n
  BY <1>3 DEF Bijection, Injection, IsInjective, Surjection
<1>6. \A n \in 0 .. m - 1 : Nth(S, n) \in S /\ Place(S, Nth(S, n)) = n
  <2> TAKE n \in 0 .. m - 1
  <2>1. \E a \in S : Place(S, a) = n
    BY <1>4, <1>5
  <2> QED BY <2>1 DEF Nth
<1> QED BY <1>4, <1>5, <1>6, FS_CardinalityType

LEMMA SubFacts ==
  ASSUME NEW T, NEW s \in Seq(T), NEW I \in SUBSET DOMAIN s
  PROVE  /\ Sub(s, I) \in Seq(T)
         /\ \E f \in [DOMAIN Sub(s, I) -> I] :
              /\ \A n \in DOMAIN Sub(s, I) : Sub(s, I)[n] = s[f[n]]
              /\ \A m, n \in DOMAIN Sub(s, I) : f[m] = f[n] => m = n
<1> DEFINE c == Cardinality(I)
           f == [n \in 1 .. c |-> Nth(I, n - 1)]
<1>1. DOMAIN s = 1 .. Len(s) /\ Len(s) \in Nat /\ \A i \in DOMAIN s : s[i] \in T
  BY LenProperties, ElementOfSeq
<1>2. IsFiniteSet(I) /\ I \subseteq Nat
  <2>1. IsFiniteSet(1 .. Len(s))
    BY <1>1, OneTo
  <2> QED BY <1>1, <2>1, FS_Subset
<1>3. c \in Nat /\ \A n \in 0 .. c - 1 : Nth(I, n) \in I /\ Place(I, Nth(I, n)) = n
  BY <1>2, PlaceFacts
<1>4. \A n \in 1 .. c : f[n] \in I /\ Place(I, f[n]) = n - 1
  <2> TAKE n \in 1 .. c
  <2>1. n - 1 \in 0 .. c - 1
    BY <1>3
  <2> QED BY <1>3, <2>1
<1>5. \A m, n \in 1 .. c : f[m] = f[n] => m = n
  BY <1>4
<1>6. Sub(s, I) = [n \in 1 .. c |-> s[f[n]]]
  BY DEF Sub
<1>7. f \in [1 .. c -> I]
  BY <1>4
<1> HIDE DEF f, c
<1>8. DOMAIN Sub(s, I) = 1 .. c
  BY <1>6
<1>9. \A n \in 1 .. c : s[f[n]] \in T
  BY <1>1, <1>4
<1>10. Sub(s, I) \in Seq(T)
  BY <1>3, <1>6, <1>9, IsASeq
<1>11. /\ f \in [DOMAIN Sub(s, I) -> I]
       /\ \A n \in DOMAIN Sub(s, I) : Sub(s, I)[n] = s[f[n]]
       /\ \A m, n \in DOMAIN Sub(s, I) : f[m] = f[n] => m = n
  <2>1. \A n \in 1 .. c : Sub(s, I)[n] = s[f[n]]
    BY <1>6
  <2> QED BY <1>5, <1>7, <1>8, <2>1
<1> QED BY <1>10, <1>11

(* No two members of a list name the same node.                            *)
Distinct(s) == \A a, b \in DOMAIN s : s[a].id = s[b].id => a = b

(* A list made of members of another, each taken at most once.             *)
PickedFrom(u, s) ==
  \E f \in [DOMAIN u -> DOMAIN s] :
    /\ \A n \in DOMAIN u : u[n].id = s[f[n]].id /\ u[n].page = s[f[n]].page /\ u[n].code = s[f[n]].code
    /\ \A m, n \in DOMAIN u : f[m] = f[n] => m = n

LEMMA PickedDistinct ==
  ASSUME NEW s, NEW u, PickedFrom(u, s), Distinct(s)
  PROVE  Distinct(u)
<1>1. PICK f \in [DOMAIN u -> DOMAIN s] :
        /\ \A n \in DOMAIN u : u[n].id = s[f[n]].id
        /\ \A m, n \in DOMAIN u : f[m] = f[n] => m = n
  BY DEF PickedFrom
<1> SUFFICES ASSUME NEW a \in DOMAIN u, NEW b \in DOMAIN u, u[a].id = u[b].id PROVE a = b
  BY DEF Distinct
<1>2. f[a] \in DOMAIN s /\ f[b] \in DOMAIN s /\ s[f[a]].id = s[f[b]].id
  BY <1>1
<1>3. f[a] = f[b]
  BY <1>2 DEF Distinct
<1> QED BY <1>1, <1>3

(* Candidates, as dnhnsw_select takes them.                                *)
Cands == [id : Nat, page : Nat, code : Nat, d : Nat]

LEMMA DistIsNat == ASSUME NEW a \in Nat, NEW b \in Nat PROVE Dist(a, b) \in Nat
BY DEF Dist

LEMMA AroundFacts ==
  ASSUME NEW x \in Nat, NEW refs \in Seq(RefType)
  PROVE  Around(x, refs) \in Seq(Cands) /\ PickedFrom(Around(x, refs), refs)
<1> DEFINE D == DOMAIN refs
           d(i) == Dist(x, refs[i].code)
           Nearer(j, i) == d(j) < d(i) \/ (d(j) = d(i) /\ j < i)
           At(n) == CHOOSE i \in D : Cardinality({j \in D : Nearer(j, i)}) = n - 1
           R == {p \in D \X D : Nearer(p[1], p[2])}
           f == [n \in D |-> At(n)]
<1>1. D = 1 .. Len(refs) /\ Len(refs) \in Nat /\ \A i \in D : refs[i] \in RefType
  BY LenProperties, ElementOfSeq
<1>2. IsFiniteSet(D) /\ Cardinality(D) = Len(refs) /\ D \subseteq Nat
  <2>1. IsFiniteSet(1 .. Len(refs)) /\ Cardinality(1 .. Len(refs)) = Len(refs)
    BY <1>1, OneTo
  <2> QED BY <1>1, <2>1
<1>3. \A i \in D : d(i) \in Nat
  <2> TAKE i \in D
  <2>1. refs[i].code \in Nat
    BY <1>1 DEF RefType
  <2> QED BY <2>1, DistIsNat
<1> HIDE DEF d
<1>4. \A a, b \in D : << a, b >> \in R <=> Nearer(a, b)
  OBVIOUS
<1>5. OrdersStrictly(R, D)
  <2> SUFFICES ASSUME NEW a \in D, NEW b \in D, NEW c \in D
               PROVE  /\ << a, a >> \notin R
                      /\ a # b => << a, b >> \in R \/ << b, a >> \in R
                      /\ << a, b >> \in R /\ << b, c >> \in R => << a, c >> \in R
    BY DEF OrdersStrictly
  <2>1. d(a) \in Nat /\ d(b) \in Nat /\ d(c) \in Nat /\ a \in Nat /\ b \in Nat /\ c \in Nat
    BY <1>2, <1>3
  <2>2. ~Nearer(a, a) /\ (a # b => Nearer(a, b) \/ Nearer(b, a))
        /\ (Nearer(a, b) /\ Nearer(b, c) => Nearer(a, c))
    BY <2>1
  <2> QED BY <1>4, <2>2
<1>6. Places(R, D) \in Bijection(D, 0 .. Len(refs) - 1)
  BY <1>2, <1>5, PlacesAreAll
<1>7. \A a \in D : Places(R, D)[a] = Cardinality({j \in D : Nearer(j, a)})
  <2> TAKE a \in D
  <2>1. Before(R, D, a) = {j \in D : Nearer(j, a)}
    BY <1>4 DEF Before
  <2> QED BY <2>1 DEF Places
<1>8. \A n \in D : At(n) \in D /\ Places(R, D)[At(n)] = n - 1
  <2> TAKE n \in D
  <2>1. n - 1 \in 0 .. Len(refs) - 1
    BY <1>1
  <2>2. \E i \in D : Places(R, D)[i] = n - 1
    BY <1>6, <2>1 DEF Bijection, Surjection
  <2>3. \E i \in D : Cardinality({j \in D : Nearer(j, i)}) = n - 1
    BY <1>7, <2>2
  <2>4. At(n) \in D /\ Cardinality({j \in D : Nearer(j, At(n))}) = n - 1
    BY <2>3
  <2> QED BY <1>7, <2>4
<1> HIDE DEF At, R
<1>9. f \in [D -> D] /\ \A m, n \in D : f[m] = f[n] => m = n
  <2>1. \A n \in D : f[n] = At(n) /\ n \in Nat
    BY <1>2
  <2> QED BY <1>8, <2>1
<1>10. Around(x, refs) = [n \in D |-> [id |-> refs[At(n)].id, page |-> refs[At(n)].page,
                                       code |-> refs[At(n)].code, d |-> d(At(n))]]
  BY DEF Around, At, d
<1>11. PickedFrom(Around(x, refs), refs)
  <2>1. DOMAIN Around(x, refs) = D
    BY <1>10
  <2>2. \A n \in D : /\ Around(x, refs)[n].id = refs[f[n]].id
                     /\ Around(x, refs)[n].page = refs[f[n]].page
                     /\ Around(x, refs)[n].code = refs[f[n]].code
    BY <1>10
  <2> HIDE DEF f
  <2> QED BY <1>9, <2>1, <2>2 DEF PickedFrom
<1>12. \A n \in D : [id |-> refs[At(n)].id, page |-> refs[At(n)].page,
                     code |-> refs[At(n)].code, d |-> d(At(n))] \in Cands
  <2> TAKE n \in D
  <2>1. refs[At(n)] \in RefType /\ d(At(n)) \in Nat
    BY <1>1, <1>3, <1>8
  <2> QED BY <2>1 DEF RefType, Cands
<1>13. Around(x, refs) \in Seq(Cands)
  BY <1>1, <1>10, <1>12, IsASeq
<1> QED BY <1>11, <1>13

-----------------------------------------------------------------------------
(***************************************************************************)
(* dnhnsw_select keeps some of its candidates, M0 at most.                 *)
(***************************************************************************)
LEMMA KeepIfType ==
  ASSUME NEW out \in Seq(Cands), NEW c \in Cands
  PROVE  KeepIf(out, c) \in Seq(Cands)
<1>1. Append(out, c) \in Seq(Cands)
  BY AppendProperties
<1> QED BY <1>1 DEF KeepIf

(* Kept, after the first n candidates. *)
KeptOf(u, s, n) ==
  /\ u \in Seq(Cands) /\ Len(u) <= M0
  /\ \E f \in [DOMAIN u -> 1 .. n] :
       /\ \A k \in DOMAIN u : u[k] = s[f[k]]
       /\ \A k, l \in DOMAIN u : f[k] = f[l] => k = l

LEMMA KeptStays ==
  ASSUME NEW u, NEW s, NEW n \in Nat, KeptOf(u, s, n)
  PROVE  KeptOf(u, s, n + 1)
<1>1. PICK f \in [DOMAIN u -> 1 .. n] :
        /\ \A k \in DOMAIN u : u[k] = s[f[k]]
        /\ \A k, l \in DOMAIN u : f[k] = f[l] => k = l
  BY DEF KeptOf
<1>2. f \in [DOMAIN u -> 1 .. n + 1]
  OBVIOUS
<1> QED BY <1>1, <1>2 DEF KeptOf

LEMMA KeptGrows ==
  ASSUME NEW u, NEW s, NEW n \in Nat, KeptOf(u, s, n), s[n + 1] \in Cands, Len(u) < M0
  PROVE  KeptOf(Append(u, s[n + 1]), s, n + 1)
<1> DEFINE v == Append(u, s[n + 1])
           m == Len(u)
<1>1. PICK f \in [DOMAIN u -> 1 .. n] :
        /\ \A k \in DOMAIN u : u[k] = s[f[k]]
        /\ \A k, l \in DOMAIN u : f[k] = f[l] => k = l
  BY DEF KeptOf
<1>2. u \in Seq(Cands) /\ m \in Nat /\ DOMAIN u = 1 .. m
  BY LenProperties DEF KeptOf
<1>3. /\ v \in Seq(Cands) /\ Len(v) = m + 1
      /\ \A k \in 1 .. m : v[k] = u[k]
      /\ v[m + 1] = s[n + 1]
  BY <1>2, AppendProperties
<1>4. DOMAIN v = 1 .. m + 1
  BY <1>3, LenProperties
<1> HIDE DEF v, m
<1> DEFINE g == [k \in 1 .. m + 1 |-> IF k = m + 1 THEN n + 1 ELSE f[k]]
<1>5. \A k \in 1 .. m : g[k] = f[k] /\ f[k] \in 1 .. n
  BY <1>1, <1>2
<1>6. g[m + 1] = n + 1
  BY <1>2
<1>7. g \in [1 .. m + 1 -> 1 .. n + 1]
  BY <1>1, <1>2
<1>8. \A k \in 1 .. m + 1 : v[k] = s[g[k]]
  <2> TAKE k \in 1 .. m + 1
  <2>1. CASE k = m + 1
    BY <1>3, <1>6, <2>1
  <2>2. CASE k \in 1 .. m
    BY <1>1, <1>2, <1>3, <1>5, <2>2
  <2> QED BY <1>2, <2>1, <2>2
<1>9. \A k, l \in 1 .. m + 1 : g[k] = g[l] => k = l
  <2> TAKE k, l \in 1 .. m + 1
  <2>1. k = m + 1 \/ k \in 1 .. m
    BY <1>2
  <2>2. l = m + 1 \/ l \in 1 .. m
    BY <1>2
  <2>3. k \in 1 .. m /\ l \in 1 .. m /\ g[k] = g[l] => k = l
    BY <1>1, <1>2, <1>5
  <2>4. \A j \in 1 .. m : g[j] # n + 1
    <3>1. \A j \in 1 .. m : g[j] \in 1 .. n
      BY <1>5
    <3>2. n + 1 \notin 1 .. n
      OBVIOUS
    <3> QED BY <3>1, <3>2
  <2> QED BY <1>6, <2>1, <2>2, <2>3, <2>4
<1> HIDE DEF g
<1>10. Len(v) <= M0
  BY <1>2, <1>3, GraphAssumption
<1>11. /\ g \in [DOMAIN v -> 1 .. n + 1]
       /\ \A k \in DOMAIN v : v[k] = s[g[k]]
       /\ \A k, l \in DOMAIN v : g[k] = g[l] => k = l
  BY <1>4, <1>7, <1>8, <1>9
<1>12. KeptOf(v, s, n + 1)
  BY <1>3, <1>10, <1>11 DEF KeptOf
<1> QED BY <1>12 DEF v

LEMMA SelectFacts ==
  ASSUME NEW s \in Seq(Cands)
  PROVE  /\ SelectNbrs(s) \in Seq(Cands) /\ Len(SelectNbrs(s)) <= M0
         /\ PickedFrom(SelectNbrs(s), s)
<1> DEFINE n == Len(s)
           V == Seq(Cands)
           F == [p \in (1 .. n) \X V |-> KeepIf(p[2], s[p[1]])]
           kept == CHOOSE f : f = [i \in 0 .. n |->
                     IF i = 0 THEN << >> ELSE KeepIf(f[i - 1], s[i])]
<1>1. n \in Nat /\ DOMAIN s = 1 .. n /\ \A i \in 1 .. n : s[i] \in Cands
  BY LenProperties, ElementOfSeq
<1>2. << >> \in V
  BY EmptySeq
<1>3. \A out \in V, i \in 1 .. n : KeepIf(out, s[i]) \in V
  BY <1>1, KeepIfType
<1> HIDE DEF V, n
<1>4. F \in [(1 .. n) \X V -> V]
  BY <1>1, <1>3
<1>5. \A i \in 1 .. n, out \in V : F[<< i, out >>] = KeepIf(out, s[i])
  OBVIOUS
<1> HIDE DEF F
<1>6. PICK f \in [0 .. n -> V] :
        f[0] = << >> /\ \A i \in 1 .. n : f[i] = F[<< i, f[i - 1] >>]
  <2> DEFINE base == << >>
  <2>1. base \in V
    BY <1>2
  <2>2. StepsIn(F, n, V)
    BY <1>4 DEF StepsIn
  <2> HIDE DEF base
  <2>3. HasIterates(base, n, F, V)
    BY <1>1, <2>1, <2>2, Recursion
  <2> QED BY <2>3 DEF base, HasIterates, Iterates
<1>7. f = [i \in 0 .. n |-> IF i = 0 THEN << >> ELSE KeepIf(f[i - 1], s[i])]
  <2>1. \A i \in 1 .. n : f[i] = KeepIf(f[i - 1], s[i])
    <3> TAKE i \in 1 .. n
    <3>1. i - 1 \in 0 .. n /\ f[i - 1] \in V
      BY <1>1, <1>6
    <3> QED BY <1>5, <1>6, <3>1
  <2> QED BY <1>1, <1>6, <2>1
<1>8. kept = [i \in 0 .. n |-> IF i = 0 THEN << >> ELSE KeepIf(kept[i - 1], s[i])]
  BY <1>7
<1>9. SelectNbrs(s) = kept[n]
  BY DEF SelectNbrs, n
<1> HIDE DEF kept
<1> DEFINE S == {i \in 0 .. n : KeptOf(kept[i], s, i)}
<1>10. 0 \in S
  <2>1. kept[0] = << >>
    BY <1>1, <1>8
  <2> DEFINE none == << >>
  <2>2. none \in Seq(Cands) /\ Len(none) = 0 /\ DOMAIN none = {}
    BY EmptySeq
  <2>3. none \in [{} -> 1 .. 0] /\ M0 \in Nat
    BY GraphAssumption
  <2>4. kept[0] = none
    BY <2>1
  <2> HIDE DEF none
  <2>5. \E h \in [DOMAIN none -> 1 .. 0] :
          /\ \A k \in DOMAIN none : none[k] = s[h[k]]
          /\ \A k, l \in DOMAIN none : h[k] = h[l] => k = l
    <3>1. none \in [DOMAIN none -> 1 .. 0]
      BY <2>2, <2>3
    <3>2. WITNESS none \in [DOMAIN none -> 1 .. 0]
    <3> QED BY <2>2
  <2>6. Len(none) <= M0
    BY <2>2, <2>3
  <2>7. KeptOf(none, s, 0)
    BY <2>2, <2>5, <2>6 DEF KeptOf
  <2> QED BY <1>1, <2>4, <2>7
<1>11. \A i \in 1 .. n : i - 1 \in S => i \in S
  <2> SUFFICES ASSUME NEW i \in 1 .. n, KeptOf(kept[i - 1], s, i - 1) PROVE KeptOf(kept[i], s, i)
    OBVIOUS
  <2>1. i - 1 \in Nat /\ i - 1 + 1 = i /\ s[i] \in Cands
    BY <1>1
  <2>2. kept[i] = KeepIf(kept[i - 1], s[i])
    BY <1>1, <1>8
  <2>3. \/ kept[i] = kept[i - 1]
        \/ kept[i] = Append(kept[i - 1], s[i]) /\ Len(kept[i - 1]) < M0
    BY <2>2 DEF KeepIf
  <2>4. KeptOf(kept[i - 1], s, i)
    BY <2>1, KeptStays
  <2>5. Len(kept[i - 1]) < M0 => KeptOf(Append(kept[i - 1], s[i]), s, i)
    BY <2>1, KeptGrows
  <2> QED BY <2>3, <2>4, <2>5
<1>12. n \in S
  <2> HIDE DEF S
  <2>1. \A i \in 0 .. n : i \in S
    BY <1>1, <1>10, <1>11, UpTo
  <2> QED BY <1>1, <2>1
<1>13. KeptOf(SelectNbrs(s), s, n)
  BY <1>9, <1>12
<1>14. PickedFrom(SelectNbrs(s), s)
  BY <1>1, <1>13 DEF KeptOf, PickedFrom
<1> QED BY <1>13, <1>14 DEF KeptOf

-----------------------------------------------------------------------------
(***************************************************************************)
(* The beam search meets a node once, with a good hint and its own row.    *)
(***************************************************************************)
Seen(t, hints, mv) ==
  {c \in [d : Nat, id : Nat, page : Nat, done : BOOLEAN, row : SUBSET NodeType] :
     /\ HintOK(t, "nodes", c.id, c.page, hints, mv)
     /\ c.row \subseteq {t.nodes[i] : i \in {c.id} \cap DOMAIN t.nodes}}

Searches(t, hints, mv) ==
  {s \in [L : Seq(Seen(t, hints, mv)), vis : SUBSET Nat, exp : SUBSET Seen(t, hints, mv)] :
     Distinct(s.L) /\ \A i \in DOMAIN s.L : s.L[i].id \in s.vis}

(* A sequence with a member more.                                          *)
IsInserted(z, T, s, i, e) ==
  /\ z \in Seq(T) /\ DOMAIN z = 1 .. Len(s) + 1
  /\ \A k \in 1 .. Len(s) + 1 : z[k] = IF k < i THEN s[k] ELSE IF k = i THEN e ELSE s[k - 1]

LEMMA InsertAtFacts ==
  ASSUME NEW T, NEW s \in Seq(T), NEW e \in T, NEW i \in 1 .. Len(s) + 1
  PROVE  IsInserted(InsertAt(s, i, e), T, s, i, e)
<1> DEFINE n == Len(s)
           a == SubSeq(s, 1, i - 1)
           b == SubSeq(s, i, n)
           ae == a \o << e >>
           z == ae \o b
<1>1. n \in Nat /\ i \in Nat /\ 1 <= i /\ i <= n + 1
  BY LenProperties
<1>2. a \in Seq(T) /\ Len(a) = i - 1 /\ \A k \in 1 .. i - 1 : a[k] = s[k]
  BY <1>1, SubSeqProperties
<1>3. b \in Seq(T) /\ Len(b) = n - i + 1 /\ \A k \in 1 .. n - i + 1 : b[k] = s[i + k - 1]
  BY <1>1, SubSeqProperties
<1>4. << e >> \in Seq(T) /\ Len(<< e >>) = 1 /\ << e >>[1] = e
  OBVIOUS
<1> HIDE DEF a, b, n
<1>5. ae \in Seq(T) /\ Len(ae) = i /\ \A k \in 1 .. i : ae[k] = IF k < i THEN s[k] ELSE e
  <2>1. ae \in Seq(T) /\ Len(ae) = Len(a) + 1
        /\ \A k \in 1 .. Len(a) + 1 : ae[k] = IF k <= Len(a) THEN a[k] ELSE << e >>[k - Len(a)]
    BY <1>2, <1>4, ConcatProperties
  <2> HIDE DEF ae
  <2> QED BY <1>1, <1>2, <1>4, <2>1
<1> HIDE DEF ae
<1>6. z \in Seq(T) /\ Len(z) = n + 1
      /\ \A k \in 1 .. n + 1 : z[k] = IF k <= i THEN ae[k] ELSE b[k - i]
  <2>1. z \in Seq(T) /\ Len(z) = Len(ae) + Len(b)
        /\ \A k \in 1 .. Len(ae) + Len(b) : z[k] = IF k <= Len(ae) THEN ae[k] ELSE b[k - Len(ae)]
    BY <1>3, <1>5, ConcatProperties
  <2> HIDE DEF z
  <2> QED BY <1>1, <1>3, <1>5, <2>1
<1>7. InsertAt(s, i, e) = z
  BY DEF InsertAt, z, ae, a, b, n
<1> HIDE DEF z
<1>8. \A k \in 1 .. n + 1 : z[k] = IF k < i THEN s[k] ELSE IF k = i THEN e ELSE s[k - 1]
  <2> TAKE k \in 1 .. n + 1
  <2>1. CASE k <= i
    BY <1>1, <1>5, <1>6, <2>1
  <2>2. CASE k > i
    <3>1. k - i \in 1 .. n - i + 1 /\ i + (k - i) - 1 = k - 1 /\ ~(k <= i) /\ ~(k < i) /\ k # i
      BY <1>1, <2>2
    <3>2. b[k - i] = s[i + (k - i) - 1]
      BY <1>3, <3>1
    <3>3. b[k - i] = s[k - 1]
      BY <3>1, <3>2
    <3> QED BY <1>6, <3>1, <3>3
  <2> QED BY <1>1, <2>1, <2>2
<1>9. DOMAIN z = 1 .. n + 1
  BY <1>6, LenProperties
<1> QED BY <1>6, <1>7, <1>8, <1>9 DEF n, IsInserted

(* A list with a member more, of an id of its own.                         *)
LEMMA InsertAtDistinct ==
  ASSUME NEW T, NEW s \in Seq(T), NEW e \in T, NEW i \in 1 .. Len(s) + 1,
         Distinct(s), \A k \in DOMAIN s : s[k].id # e.id
  PROVE  /\ InsertAt(s, i, e) \in Seq(T) /\ Distinct(InsertAt(s, i, e))
         /\ \A k \in DOMAIN InsertAt(s, i, e) :
              InsertAt(s, i, e)[k] = e \/ \E j \in DOMAIN s : InsertAt(s, i, e)[k] = s[j]
<1>0. IsInserted(InsertAt(s, i, e), T, s, i, e)
  BY InsertAtFacts
<1> DEFINE z == InsertAt(s, i, e)
           n == Len(s)
           back(k) == IF k < i THEN k ELSE k - 1
<1>1. /\ z \in Seq(T) /\ DOMAIN z = 1 .. n + 1
      /\ \A k \in 1 .. n + 1 : z[k] = IF k < i THEN s[k] ELSE IF k = i THEN e ELSE s[k - 1]
  BY <1>0 DEF IsInserted
<1>2. n \in Nat /\ DOMAIN s = 1 .. n /\ i \in 1 .. n + 1
  BY LenProperties
<1> HIDE DEF z, n
<1>3. z[i] = e
  BY <1>1, <1>2
<1>4. \A k \in 1 .. n + 1 : k # i => back(k) \in 1 .. n /\ z[k] = s[back(k)]
  <2> TAKE k \in 1 .. n + 1
  <2>1. CASE k < i
    BY <1>1, <1>2, <2>1
  <2>2. CASE k > i
    BY <1>1, <1>2, <2>2
  <2> QED BY <1>2, <2>1, <2>2
<1>5. \A k, l \in 1 .. n + 1 : k # i /\ l # i /\ back(k) = back(l) => k = l
  BY <1>2
<1> HIDE DEF back
<1>6. Distinct(z)
  <2> SUFFICES ASSUME NEW k \in 1 .. n + 1, NEW l \in 1 .. n + 1, z[k].id = z[l].id PROVE k = l
    BY <1>1 DEF Distinct
  <2>1. CASE k # i /\ l # i
    <3>1. back(k) \in DOMAIN s /\ back(l) \in DOMAIN s /\ s[back(k)].id = s[back(l)].id
      BY <1>2, <1>4, <2>1
    <3>2. back(k) = back(l)
      BY <3>1 DEF Distinct
    <3> QED BY <1>5, <2>1, <3>2
  <2>2. CASE k = i /\ l # i
    <3>1. back(l) \in DOMAIN s /\ s[back(l)].id = e.id
      BY <1>2, <1>3, <1>4, <2>2
    <3> QED BY <3>1
  <2>3. CASE k # i /\ l = i
    <3>1. back(k) \in DOMAIN s /\ s[back(k)].id = e.id
      BY <1>2, <1>3, <1>4, <2>3
    <3> QED BY <3>1
  <2> QED BY <2>1, <2>2, <2>3
<1>7. \A k \in DOMAIN z : z[k] = e \/ \E j \in DOMAIN s : z[k] = s[j]
  BY <1>1, <1>2, <1>3, <1>4
<1> QED BY <1>1, <1>6, <1>7 DEF z

LEMMA CandInsertFacts ==
  ASSUME NEW T, NEW L \in Seq(T), NEW ef \in Nat \ {0}, NEW c \in T,
         Distinct(L), \A k \in DOMAIN L : L[k].id # c.id
  PROVE  /\ CandInsert(L, ef, c) \in Seq(T) /\ Distinct(CandInsert(L, ef, c))
         /\ \A k \in DOMAIN CandInsert(L, ef, c) :
              \/ CandInsert(L, ef, c)[k] = c
              \/ \E j \in DOMAIN L : CandInsert(L, ef, c)[k] = L[j]
<1> DEFINE keep == IF Len(L) = ef THEN Front(L) ELSE L
           P == {i \in DOMAIN keep : keep[i].d <= c.d}
           p == 1 + Cardinality(P)
<1>1. Len(L) \in Nat /\ DOMAIN L = 1 .. Len(L)
  BY LenProperties
<1>2. /\ keep \in Seq(T)
      /\ \A i \in DOMAIN keep : i \in DOMAIN L /\ keep[i] = L[i]
  <2>1. CASE Len(L) = ef
    <3>1. Len(L) - 1 \in 0 .. Len(L)
      BY <1>1, <2>1
    <3>2. /\ SubSeq(L, 1, Len(L) - 1) \in Seq(T)
          /\ Len(SubSeq(L, 1, Len(L) - 1)) = Len(L) - 1
          /\ \A i \in 1 .. Len(L) - 1 : SubSeq(L, 1, Len(L) - 1)[i] = L[i]
      BY <1>1, <3>1, SubSeqProperties
    <3>3. keep = SubSeq(L, 1, Len(L) - 1)
      BY <2>1 DEF Front
    <3>4. DOMAIN keep = 1 .. Len(L) - 1
      BY <3>2, <3>3, LenProperties
    <3> QED BY <1>1, <3>2, <3>3, <3>4
  <2>2. CASE Len(L) # ef
    BY <2>2
  <2> QED BY <2>1, <2>2
<1> HIDE DEF keep
<1>3. Distinct(keep) /\ \A k \in DOMAIN keep : keep[k].id # c.id
  BY <1>2 DEF Distinct
<1>4. p \in 1 .. Len(keep) + 1
  <2>1. DOMAIN keep = 1 .. Len(keep) /\ Len(keep) \in Nat
    BY <1>2, LenProperties
  <2>2. IsFiniteSet(1 .. Len(keep)) /\ Cardinality(1 .. Len(keep)) = Len(keep)
    BY <2>1, OneTo
  <2>3. P \in SUBSET (1 .. Len(keep))
    BY <2>1
  <2>4. Cardinality(P) \in Nat /\ Cardinality(P) <= Len(keep)
    <3> HIDE DEF P
    <3> QED BY <2>2, <2>3, FS_Subset, FS_CardinalityType
  <2> QED BY <2>1, <2>4
<1>5. CandInsert(L, ef, c) \in {L, InsertAt(keep, p, c)}
  BY DEF CandInsert, keep
<1> HIDE DEF p
<1>6. /\ InsertAt(keep, p, c) \in Seq(T) /\ Distinct(InsertAt(keep, p, c))
      /\ \A k \in DOMAIN InsertAt(keep, p, c) :
           \/ InsertAt(keep, p, c)[k] = c
           \/ \E j \in DOMAIN keep : InsertAt(keep, p, c)[k] = keep[j]
  BY <1>2, <1>3, <1>4, InsertAtDistinct
<1>7. \A k \in DOMAIN InsertAt(keep, p, c) :
        \/ InsertAt(keep, p, c)[k] = c
        \/ \E j \in DOMAIN L : InsertAt(keep, p, c)[k] = L[j]
  BY <1>2, <1>6
<1>8. CASE CandInsert(L, ef, c) = L
  BY <1>8
<1>9. CASE CandInsert(L, ef, c) = InsertAt(keep, p, c)
  BY <1>6, <1>7, <1>9
<1> QED BY <1>5, <1>8, <1>9

LEMMA VisitFacts ==
  ASSUME NEW t, NEW hints \in BOOLEAN, NEW mv \in BOOLEAN, NEW q \in Nat, NEW ef \in Nat \ {0},
         NEW s \in Searches(t, hints, mv), NEW ref \in GoodRefs(t, hints, mv)
  PROVE  Visit(s, q, ef, ref) \in Searches(t, hints, mv)
<1> DEFINE T == Seen(t, hints, mv)
           c == [d |-> Dist(q, ref.code), id |-> ref.id, page |-> ref.page,
                 done |-> FALSE, row |-> {}]
           r == Visit(s, q, ef, ref)
<1>1. /\ s = [L |-> s.L, vis |-> s.vis, exp |-> s.exp]
      /\ s.L \in Seq(T) /\ s.vis \subseteq Nat /\ s.exp \subseteq T /\ Distinct(s.L)
      /\ \A i \in DOMAIN s.L : s.L[i].id \in s.vis
  BY DEF Searches
<1>2. CASE ref.id \in s.vis
  BY <1>2 DEF Visit
<1>3. CASE ref.id \notin s.vis
  <2>1. /\ ref.id \in Nat /\ ref.page \in Nat /\ ref.code \in Nat
        /\ HintOK(t, "nodes", ref.id, ref.page, hints, mv)
    BY DEF GoodRefs, RefType
  <2>2. Dist(q, ref.code) \in Nat
    BY <2>1, DistIsNat
  <2>3. c \in T /\ c.id = ref.id
    BY <2>1, <2>2 DEF Seen
  <2>4. \A k \in DOMAIN s.L : s.L[k].id # c.id
    BY <1>1, <1>3, <2>3
  <2>5. r = [L |-> CandInsert(s.L, ef, c), vis |-> s.vis \cup {ref.id}, exp |-> s.exp]
    BY <1>1, <1>3 DEF Visit
  <2> HIDE DEF c, T, r
  <2>6. /\ CandInsert(s.L, ef, c) \in Seq(T) /\ Distinct(CandInsert(s.L, ef, c))
        /\ \A k \in DOMAIN CandInsert(s.L, ef, c) :
             \/ CandInsert(s.L, ef, c)[k] = c
             \/ \E j \in DOMAIN s.L : CandInsert(s.L, ef, c)[k] = s.L[j]
    BY <1>1, <2>3, <2>4, CandInsertFacts
  <2>7. \A k \in DOMAIN CandInsert(s.L, ef, c) : CandInsert(s.L, ef, c)[k].id \in s.vis \cup {ref.id}
    BY <1>1, <2>3, <2>6
  <2>8. r \in Searches(t, hints, mv)
    BY <1>1, <2>1, <2>5, <2>6, <2>7 DEF Searches, T
  <2> QED BY <2>8 DEF r
<1> QED BY <1>2, <1>3

LEMMA VisitAllFacts ==
  ASSUME NEW t, NEW hints \in BOOLEAN, NEW mv \in BOOLEAN, NEW q \in Nat, NEW ef \in Nat \ {0},
         NEW s \in Searches(t, hints, mv), NEW refs \in Seq(GoodRefs(t, hints, mv))
  PROVE  VisitAll(s, q, ef, refs) \in Searches(t, hints, mv)
<1> DEFINE n == Len(refs)
           V == Searches(t, hints, mv)
           F == [p \in (1 .. n) \X V |-> Visit(p[2], q, ef, refs[p[1]])]
           seen == CHOOSE f : f = [i \in 0 .. n |->
                     IF i = 0 THEN s ELSE Visit(f[i - 1], q, ef, refs[i])]
<1>1. n \in Nat /\ \A i \in 1 .. n : refs[i] \in GoodRefs(t, hints, mv)
  BY LenProperties, ElementOfSeq
<1>2. \A r \in V, i \in 1 .. n : Visit(r, q, ef, refs[i]) \in V
  BY <1>1, VisitFacts
<1>3. s \in V
  OBVIOUS
<1> HIDE DEF V, n
<1>4. F \in [(1 .. n) \X V -> V]
  BY <1>2
<1>5. \A i \in 1 .. n, r \in V : F[<< i, r >>] = Visit(r, q, ef, refs[i])
  OBVIOUS
<1> HIDE DEF F
<1>6. PICK f \in [0 .. n -> V] : f[0] = s /\ \A i \in 1 .. n : f[i] = F[<< i, f[i - 1] >>]
  <2>1. StepsIn(F, n, V)
    BY <1>4 DEF StepsIn
  <2>2. HasIterates(s, n, F, V)
    BY <1>1, <1>3, <2>1, Recursion
  <2> QED BY <2>2 DEF HasIterates, Iterates
<1>7. f = [i \in 0 .. n |-> IF i = 0 THEN s ELSE Visit(f[i - 1], q, ef, refs[i])]
  <2>1. \A i \in 1 .. n : f[i] = Visit(f[i - 1], q, ef, refs[i])
    <3> TAKE i \in 1 .. n
    <3>1. i - 1 \in 0 .. n /\ f[i - 1] \in V
      BY <1>1, <1>6
    <3> QED BY <1>5, <1>6, <3>1
  <2> QED BY <1>1, <1>6, <2>1
<1>8. seen = [i \in 0 .. n |-> IF i = 0 THEN s ELSE Visit(seen[i - 1], q, ef, refs[i])]
  BY <1>7
<1>9. VisitAll(s, q, ef, refs) = seen[n]
  BY DEF VisitAll, n
<1> HIDE DEF seen
<1> DEFINE S == {i \in 0 .. n : seen[i] \in V}
<1>10. 0 \in S
  BY <1>1, <1>3, <1>8
<1>11. \A i \in 1 .. n : i - 1 \in S => i \in S
  BY <1>1, <1>2, <1>8
<1>12. n \in S
  <2> HIDE DEF S
  <2>1. \A i \in 0 .. n : i \in S
    BY <1>1, <1>10, <1>11, UpTo
  <2> QED BY <1>1, <2>1
<1> QED BY <1>9, <1>12 DEF V

GoodNodes(t, hints, mv) ==
  \A i \in DOMAIN t.nodes :
    t.nodes[i] \in NodeType /\ t.nodes[i].nbrs \in Seq(GoodRefs(t, hints, mv))

LEMMA NbrsFacts ==
  ASSUME NEW t, NEW hints \in BOOLEAN, NEW mv \in BOOLEAN, GoodNodes(t, hints, mv),
         NEW c \in Seen(t, hints, mv)
  PROVE  Nbrs(c) \in Seq(GoodRefs(t, hints, mv))
<1>1. CASE c.row = {}
  <2>1. << >> \in Seq(GoodRefs(t, hints, mv))
    BY EmptySeq
  <2> QED BY <1>1, <2>1 DEF Nbrs
<1>2. CASE c.row # {}
  <2>1. (CHOOSE n \in c.row : TRUE) \in c.row
    BY <1>2
  <2>2. c.row \subseteq {t.nodes[i] : i \in {c.id} \cap DOMAIN t.nodes}
    BY DEF Seen
  <2>3. PICK i \in DOMAIN t.nodes : (CHOOSE n \in c.row : TRUE) = t.nodes[i]
    BY <2>1, <2>2
  <2>4. Nbrs(c) = t.nodes[i].nbrs
    BY <1>2, <2>3 DEF Nbrs
  <2> QED BY <2>4 DEF GoodNodes
<1> QED BY <1>1, <1>2

LEMMA FetchFacts ==
  ASSUME NEW t, NEW hints \in BOOLEAN, NEW mv \in BOOLEAN, GoodNodes(t, hints, mv),
         NEW W \in Nat, NEW s \in Searches(t, hints, mv)
  PROVE  Fetch(t, W, FALSE, s) \in Searches(t, hints, mv)
<1> DEFINE T == Seen(t, hints, mv)
           Row(c) == {t[u][c.id] : u \in Source(t, "nodes", c.id, c.page, FALSE)}
           Done(c) == [c EXCEPT !.done = TRUE, !.row = Row(c)]
           B == Batch(s, W)
           L == [i \in DOMAIN s.L |-> IF i \in B THEN Done(s.L[i]) ELSE s.L[i]]
           E == {L[i] : i \in {j \in B : L[j].row # {}}}
<1>1. /\ s = [L |-> s.L, vis |-> s.vis, exp |-> s.exp]
      /\ s.L \in Seq(T) /\ s.vis \subseteq Nat /\ s.exp \subseteq T /\ Distinct(s.L)
      /\ \A i \in DOMAIN s.L : s.L[i].id \in s.vis
  BY DEF Searches
<1>2. \A c \in T : Done(c) \in T /\ Done(c).id = c.id
  <2> TAKE c \in T
  <2>1. /\ c \in [d : Nat, id : Nat, page : Nat, done : BOOLEAN, row : SUBSET NodeType]
        /\ HintOK(t, "nodes", c.id, c.page, hints, mv)
    BY DEF Seen
  <2>2. Row(c) = {t.nodes[i] : i \in {c.id} \cap DOMAIN t.nodes}
    BY DEF Source
  <2>3. Row(c) \in SUBSET NodeType
    BY <2>2 DEF GoodNodes
  <2> HIDE DEF Row
  <2>4. Done(c) \in [d : Nat, id : Nat, page : Nat, done : BOOLEAN, row : SUBSET NodeType]
        /\ Done(c).id = c.id /\ Done(c).page = c.page /\ Done(c).row = Row(c)
    BY <2>1, <2>3
  <2> HIDE DEF Done
  <2> QED BY <2>1, <2>2, <2>4 DEF Seen
<1>3. DOMAIN s.L = 1 .. Len(s.L) /\ Len(s.L) \in Nat /\ \A i \in DOMAIN s.L : s.L[i] \in T
  BY <1>1, LenProperties, ElementOfSeq
<1>4. B \subseteq DOMAIN s.L
  BY DEF Batch
<1> HIDE DEF Done, B, T
<1>5. \A i \in DOMAIN s.L : L[i] \in T /\ L[i].id = s.L[i].id
  BY <1>2, <1>3
<1>6. DOMAIN L = DOMAIN s.L /\ L \in Seq(T)
  <2>1. L = [i \in 1 .. Len(s.L) |-> L[i]]
    BY <1>3
  <2>2. DOMAIN L = DOMAIN s.L
    OBVIOUS
  <2> HIDE DEF L
  <2>3. \A i \in 1 .. Len(s.L) : L[i] \in T
    BY <1>3, <1>5
  <2>4. [i \in 1 .. Len(s.L) |-> L[i]] \in Seq(T)
    BY <1>3, <2>3, IsASeq
  <2> QED BY <2>1, <2>2, <2>4
<1>7. Fetch(t, W, FALSE, s) = [L |-> L, vis |-> s.vis, exp |-> s.exp \cup E]
  <2>1. Fetch(t, W, FALSE, s) = [s EXCEPT !.L = L, !.exp = @ \cup E]
    BY DEF Fetch, Fetched, Done, B
  <2> HIDE DEF L, E
  <2> QED BY <1>1, <2>1
<1>8. E \subseteq T
  BY <1>4, <1>5
<1> HIDE DEF L, E
<1>9. Distinct(L) /\ \A i \in DOMAIN L : L[i].id \in s.vis
  BY <1>1, <1>5, <1>6 DEF Distinct
<1>10. [L |-> L, vis |-> s.vis, exp |-> s.exp \cup E] \in Searches(t, hints, mv)
  BY <1>1, <1>6, <1>8, <1>9 DEF Searches, T
<1> QED BY <1>7, <1>10

LEMMA ExpandFacts ==
  ASSUME NEW t, NEW hints \in BOOLEAN, NEW mv \in BOOLEAN, GoodNodes(t, hints, mv),
         NEW q \in Nat, NEW ef \in Nat \ {0}, NEW W \in Nat, NEW s \in Searches(t, hints, mv)
  PROVE  Expand(t, q, ef, W, FALSE, s) \in Searches(t, hints, mv)
<1> DEFINE V == Searches(t, hints, mv)
           fetched == Fetch(t, W, FALSE, s)
           L == fetched.L
           n == Len(L)
           B == Batch(s, W)
           F == [p \in (1 .. n) \X V |-> IF p[1] \in B THEN VisitAll(p[2], q, ef, Nbrs(L[p[1]])) ELSE p[2]]
           seen == CHOOSE f : f = [i \in 0 .. n |->
                     IF i = 0 THEN fetched
                     ELSE IF i \in B THEN VisitAll(f[i - 1], q, ef, Nbrs(L[i])) ELSE f[i - 1]]
<1>1. fetched \in V
  BY FetchFacts
<1>2. L \in Seq(Seen(t, hints, mv))
  BY <1>1 DEF Searches
<1>3. n \in Nat /\ \A i \in 1 .. n : L[i] \in Seen(t, hints, mv)
  BY <1>2, LenProperties, ElementOfSeq
<1>4. \A i \in 1 .. n : Nbrs(L[i]) \in Seq(GoodRefs(t, hints, mv))
  BY <1>3, NbrsFacts
<1>5. \A r \in V, i \in 1 .. n : VisitAll(r, q, ef, Nbrs(L[i])) \in V
  BY <1>4, VisitAllFacts
<1>9. Expand(t, q, ef, W, FALSE, s) = seen[n]
  BY DEF Expand, VisitRows
<1> HIDE DEF V, n, B, fetched
<1>10. F \in [(1 .. n) \X V -> V]
  BY <1>5
<1>11. \A i \in 1 .. n, r \in V :
         F[<< i, r >>] = IF i \in B THEN VisitAll(r, q, ef, Nbrs(L[i])) ELSE r
  OBVIOUS
<1> HIDE DEF F
<1>12. PICK f \in [0 .. n -> V] : f[0] = fetched /\ \A i \in 1 .. n : f[i] = F[<< i, f[i - 1] >>]
  <2>1. StepsIn(F, n, V)
    BY <1>10 DEF StepsIn
  <2>2. HasIterates(fetched, n, F, V)
    BY <1>1, <1>3, <2>1, Recursion
  <2> QED BY <2>2 DEF HasIterates, Iterates
<1>13. f = [i \in 0 .. n |->
              IF i = 0 THEN fetched
              ELSE IF i \in B THEN VisitAll(f[i - 1], q, ef, Nbrs(L[i])) ELSE f[i - 1]]
  <2>1. \A i \in 1 .. n : f[i] = IF i \in B THEN VisitAll(f[i - 1], q, ef, Nbrs(L[i])) ELSE f[i - 1]
    <3> TAKE i \in 1 .. n
    <3>1. i - 1 \in 0 .. n /\ f[i - 1] \in V
      BY <1>3, <1>12
    <3> QED BY <1>11, <1>12, <3>1
  <2> QED BY <1>3, <1>12, <2>1
<1>14. seen = [i \in 0 .. n |->
                 IF i = 0 THEN fetched
                 ELSE IF i \in B THEN VisitAll(seen[i - 1], q, ef, Nbrs(L[i])) ELSE seen[i - 1]]
  BY <1>13
<1> HIDE DEF seen
<1> DEFINE S == {i \in 0 .. n : seen[i] \in V}
<1>15. 0 \in S
  BY <1>1, <1>3, <1>14
<1>16. \A i \in 1 .. n : i - 1 \in S => i \in S
  BY <1>3, <1>5, <1>14
<1>17. n \in S
  <2> HIDE DEF S
  <2>1. \A i \in 0 .. n : i \in S
    BY <1>3, <1>15, <1>16, UpTo
  <2> QED BY <1>3, <2>1
<1> QED BY <1>9, <1>17 DEF V

LEMMA AnnCoreFacts ==
  ASSUME NEW t, NEW hints \in BOOLEAN, NEW mv \in BOOLEAN, GoodNodes(t, hints, mv),
         NEW m, m.head \in Seq(GoodRefs(t, hints, mv)),
         NEW q \in Nat, NEW ef \in Nat \ {0}, NEW W \in Nat
  PROVE  AnnCore(t, m, q, ef, W, FALSE) \in Searches(t, hints, mv)
<1> DEFINE V == Searches(t, hints, mv)
           n == MaxNodes
           X(r) == Expand(t, q, ef, W, FALSE, r)
           none == [L |-> << >>, vis |-> {}, exp |-> {}]
           base == VisitAll(none, q, ef, m.head)
           F == [p \in (1 .. n) \X V |-> X(p[2])]
           round == CHOOSE f : f = [i \in 0 .. n |->
                      IF i = 0 THEN base ELSE X(f[i - 1])]
<1>1. none \in V
  <2>1. << >> \in Seq(Seen(t, hints, mv)) /\ DOMAIN << >> = {}
    BY EmptySeq
  <2> DEFINE e == << >>
  <2>2. e \in Seq(Seen(t, hints, mv)) /\ DOMAIN e = {}
    BY <2>1
  <2> HIDE DEF e
  <2>3. Distinct(e) /\ \A i \in DOMAIN e : e[i].id \in {}
    BY <2>2 DEF Distinct
  <2>4. [L |-> e, vis |-> {}, exp |-> {}] \in V
    BY <2>2, <2>3 DEF Searches
  <2> QED BY <2>4 DEF e
<1>2. base \in V
  <2> HIDE DEF none
  <2> QED BY <1>1, VisitAllFacts
<1>3. n \in Nat
  BY FileAssumption
<1>4. \A r \in V : X(r) \in V
  BY ExpandFacts
<1>9. AnnCore(t, m, q, ef, W, FALSE) = round[n]
  BY DEF AnnCore
<1> HIDE DEF V, n, base, X
<1>10. F \in [(1 .. n) \X V -> V]
  BY <1>4
<1>11. \A i \in 1 .. n, r \in V : F[<< i, r >>] = X(r)
  OBVIOUS
<1> HIDE DEF F
<1>12. PICK f \in [0 .. n -> V] : f[0] = base /\ \A i \in 1 .. n : f[i] = F[<< i, f[i - 1] >>]
  <2>1. StepsIn(F, n, V)
    BY <1>10 DEF StepsIn
  <2>2. HasIterates(base, n, F, V)
    BY <1>2, <1>3, <2>1, Recursion
  <2> QED BY <2>2 DEF HasIterates, Iterates
<1>13. f = [i \in 0 .. n |-> IF i = 0 THEN base ELSE X(f[i - 1])]
  <2>1. \A i \in 1 .. n : f[i] = X(f[i - 1])
    <3> TAKE i \in 1 .. n
    <3>1. i - 1 \in 0 .. n /\ f[i - 1] \in V
      BY <1>3, <1>12
    <3> QED BY <1>11, <1>12, <3>1
  <2> QED BY <1>3, <1>12, <2>1
<1>14. round = [i \in 0 .. n |-> IF i = 0 THEN base ELSE X(round[i - 1])]
  BY <1>13
<1> HIDE DEF round
<1> DEFINE S == {i \in 0 .. n : round[i] \in V}
<1>15. 0 \in S
  BY <1>2, <1>3, <1>14
<1>16. \A i \in 1 .. n : i - 1 \in S => i \in S
  BY <1>3, <1>4, <1>14
<1>17. n \in S
  <2> HIDE DEF S
  <2>1. \A i \in 0 .. n : i \in S
    BY <1>3, <1>15, <1>16, UpTo
  <2> QED BY <1>3, <2>1
<1> QED BY <1>9, <1>17 DEF V

-----------------------------------------------------------------------------
(***************************************************************************)
(* A row above all others gets the next page, and no other row moves.      *)
(***************************************************************************)
LEMMA OnlyPlace == ASSUME NEW a \in Nat PROVE Place({a}, a) = 0 /\ Nth({a}, 0) = a
<1>1. {j \in {a} : j < a} = {}
  OBVIOUS
<1>2. Place({a}, a) = 0
  BY <1>1, FS_EmptySet DEF Place
<1>3. \E k \in {a} : Place({a}, k) = 0
  BY <1>2
<1>4. Nth({a}, 0) \in {a}
  BY <1>3 DEF Nth
<1> QED BY <1>2, <1>4

LEMMA AppendNode ==
  ASSUME NEW t, Shape(t), NEW key \in Nat, NEW row, \A k \in DOMAIN t.nodes : k < key
  PROVE  InsertRow(t, "nodes", key, row) =
           [buffer |-> t.buffer, nodes |-> Put(t.nodes, key, row), rowids |-> t.rowids,
            vectors |-> t.vectors, lists |-> t.lists, head |-> t.head, state |-> t.state,
            pages |-> [nodes |-> Put(t.pages.nodes, key, t.top + 1),
                       vectors |-> t.pages.vectors, lists |-> t.pages.lists],
            top |-> t.top + 1]
<1>1. t.top + 1 \in Nat
  BY DEF Shape
<1> DEFINE free == {t.pages.nodes[k] : k \in {}} \cup {t.top + 1}
           page == [k \in {} \cup {key} |-> Nth(free, Place({} \cup {key}, k))]
           z == InsertRow(t, "nodes", key, row)
<1>2. free = {t.top + 1} /\ {} \cup {key} = {key}
  OBVIOUS
<1>3. page = [k \in {key} |-> t.top + 1]
  <2>1. \A k \in {key} : Nth(free, Place({key}, k)) = t.top + 1
    BY <1>1, <1>2, OnlyPlace
  <2> QED BY <1>2, <2>1
<1>4. z = [t EXCEPT !.nodes = Put(@, key, row), !.pages.nodes = Over(page, @), !.top = @ + 1]
  BY DEF InsertRow
<1> HIDE DEF page, z
<1>5. Over(page, t.pages.nodes) = Put(t.pages.nodes, key, t.top + 1)
  BY <1>3 DEF Over, Put
<1>6. z = [t EXCEPT !.nodes = Put(t.nodes, key, row),
                    !.pages = [t.pages EXCEPT !.nodes = Put(t.pages.nodes, key, t.top + 1)],
                    !.top = t.top + 1]
  BY <1>4, <1>5
<1>7. [t.pages EXCEPT !.nodes = Put(t.pages.nodes, key, t.top + 1)] =
        [nodes |-> Put(t.pages.nodes, key, t.top + 1),
         vectors |-> t.pages.vectors, lists |-> t.pages.lists]
  BY DEF Shape
<1> QED BY <1>6, <1>7 DEF Shape, z

-----------------------------------------------------------------------------
(***************************************************************************)
(* Neighbour lists made by selection.                                      *)
(***************************************************************************)
LEMMA RefsOfPicked ==
  ASSUME NEW G \in SUBSET RefType, NEW s, \A b \in DOMAIN s : AsRef(s[b]) \in G,
         NEW u \in Seq(Cands), PickedFrom(u, s)
  PROVE  /\ Refs(u) \in Seq(G) /\ Len(Refs(u)) = Len(u)
         /\ \A a \in DOMAIN Refs(u) : \E b \in DOMAIN s : Refs(u)[a] = AsRef(s[b])
         /\ Distinct(s) => Distinct(Refs(u))
<1>1. DOMAIN u = 1 .. Len(u) /\ Len(u) \in Nat
  BY LenProperties
<1>2. \A a \in DOMAIN u : \E b \in DOMAIN s : AsRef(u[a]) = AsRef(s[b])
  BY DEF PickedFrom, AsRef
<1>3. \A a \in 1 .. Len(u) : AsRef(u[a]) \in G
  BY <1>1, <1>2
<1>4. Refs(u) = [a \in 1 .. Len(u) |-> AsRef(u[a])]
  BY <1>1 DEF Refs
<1>5. Refs(u) \in Seq(G)
  <2>1. [a \in 1 .. Len(u) |-> AsRef(u[a])] \in Seq(G)
    BY <1>1, <1>3, IsASeq
  <2> QED BY <1>4, <2>1
<1>6. DOMAIN Refs(u) = 1 .. Len(u) /\ Len(Refs(u)) = Len(u)
  <2>1. DOMAIN Refs(u) = 1 .. Len(u)
    BY <1>4
  <2>2. Len(Refs(u)) \in Nat /\ DOMAIN Refs(u) = 1 .. Len(Refs(u))
    BY <1>5, LenProperties
  <2> QED BY <1>1, <2>1, <2>2
<1>7. ASSUME Distinct(s) PROVE Distinct(Refs(u))
  <2>1. Distinct(u)
    BY <1>7, PickedDistinct
  <2>2. \A a \in DOMAIN u : Refs(u)[a].id = u[a].id
    BY <1>1, <1>4 DEF AsRef
  <2> QED BY <1>1, <1>6, <2>1, <2>2 DEF Distinct
<1>8. \A a \in DOMAIN Refs(u) : \E b \in DOMAIN s : Refs(u)[a] = AsRef(s[b])
  BY <1>1, <1>2, <1>4, <1>6
<1> QED BY <1>5, <1>6, <1>7, <1>8

LEMMA RefIsItself == ASSUME NEW ref \in RefType PROVE AsRef(ref) = ref
BY DEF AsRef, RefType

LEMMA CodeIsNat == ASSUME NEW v \in Vecs PROVE v \in Nat /\ CodeOf[v] \in Nat
BY FileAssumption

LEMMA LinkBackFacts ==
  ASSUME NEW G \in SUBSET RefType, NEW node \in NodeType, node.nbrs \in Seq(G),
         Len(node.nbrs) <= M0, Distinct(node.nbrs), NEW ref \in G,
         \A a \in DOMAIN node.nbrs : node.nbrs[a].id # ref.id
  PROVE  LET lb == LinkBack(node, ref)
         IN  /\ lb \in NodeType /\ lb.row = node.row /\ lb.dead = node.dead /\ lb.vec = node.vec
             /\ lb.nbrs \in Seq(G) /\ Len(lb.nbrs) <= M0 /\ Distinct(lb.nbrs)
             /\ \A a \in DOMAIN lb.nbrs :
                  lb.nbrs[a] = ref \/ \E b \in DOMAIN node.nbrs : lb.nbrs[a] = node.nbrs[b]
<1> DEFINE old == node.nbrs
           all == Append(old, ref)
           n == Len(old)
           lb == LinkBack(node, ref)
<1>1. /\ node = [row |-> node.row, dead |-> node.dead, vec |-> node.vec, nbrs |-> old]
      /\ node.row \in RowIds /\ node.dead \in BOOLEAN /\ node.vec \in Vecs
  BY DEF NodeType
<1>2. n \in Nat /\ DOMAIN old = 1 .. n /\ old \in Seq(G) /\ \A b \in 1 .. n : old[b] \in G
  BY LenProperties, ElementOfSeq
<1>3. /\ all \in Seq(G) /\ Len(all) = n + 1
      /\ \A b \in 1 .. n : all[b] = old[b]
      /\ all[n + 1] = ref
  BY <1>2, AppendProperties
<1>4. DOMAIN all = 1 .. n + 1
  BY <1>3, LenProperties
<1> HIDE DEF all, n
<1>5. \A b \in DOMAIN all : /\ all[b] \in G
                            /\ all[b] = ref \/ \E a \in DOMAIN old : all[b] = old[a]
  <2> TAKE b \in DOMAIN all
  <2>1. b = n + 1 \/ b \in 1 .. n
    BY <1>2, <1>4
  <2> QED BY <1>2, <1>3, <2>1
<1>6. Distinct(all)
  <2> SUFFICES ASSUME NEW a \in 1 .. n + 1, NEW b \in 1 .. n + 1, all[a].id = all[b].id PROVE a = b
    BY <1>4 DEF Distinct
  <2>1. a = n + 1 \/ a \in 1 .. n
    BY <1>2
  <2>2. b = n + 1 \/ b \in 1 .. n
    BY <1>2
  <2>3. a \in 1 .. n /\ b \in 1 .. n => a = b
    BY <1>2, <1>3 DEF Distinct
  <2>4. ~(a \in 1 .. n /\ b = n + 1) /\ ~(b \in 1 .. n /\ a = n + 1)
    BY <1>2, <1>3
  <2> QED BY <2>1, <2>2, <2>3, <2>4
<1> DEFINE Made(list) ==
      /\ lb = [row |-> node.row, dead |-> node.dead, vec |-> node.vec, nbrs |-> list]
      /\ list \in Seq(G) /\ Len(list) <= M0 /\ Distinct(list)
      /\ \A a \in DOMAIN list : list[a] = ref \/ \E b \in DOMAIN old : list[a] = old[b]
<1>7. ASSUME n < M0 PROVE \E list : Made(list)
  <2>1. lb = [node EXCEPT !.nbrs = all]
    BY <1>7 DEF LinkBack, all, n
  <2>2. Len(all) <= M0
    BY <1>2, <1>3, <1>7, GraphAssumption
  <2>3. Made(all)
    <3> HIDE DEF lb
    <3> QED BY <1>1, <1>3, <1>5, <1>6, <2>1, <2>2
  <2> QED BY <2>3
<1>8. ASSUME ~(n < M0) PROVE \E list : Made(list)
  <2> DEFINE A == Around(CodeOf[node.vec], all)
             sel == SelectNbrs(A)
  <2>1. CodeOf[node.vec] \in Nat
    BY <1>1, CodeIsNat
  <2>2. all \in Seq(RefType)
    BY <1>3, SeqMonotonic
  <2>3. A \in Seq(Cands) /\ PickedFrom(A, all)
    <3> HIDE DEF all
    <3> QED BY <2>1, <2>2, AroundFacts
  <2>4. /\ \A b \in DOMAIN all : AsRef(all[b]) = all[b]
        /\ \A b \in DOMAIN all : AsRef(all[b]) \in G
    BY <1>5, RefIsItself
  <2> HIDE DEF A
  <2>5. sel \in Seq(Cands) /\ Len(sel) <= M0 /\ PickedFrom(sel, A)
    BY <2>3, SelectFacts
  <2> HIDE DEF sel
  <2>6. \A a \in DOMAIN A : \E b \in DOMAIN all : AsRef(A[a]) = AsRef(all[b])
    BY <2>3 DEF PickedFrom, AsRef
  <2>7. Distinct(A) /\ \A a \in DOMAIN A : AsRef(A[a]) \in G
    BY <1>6, <2>3, <2>4, <2>6, PickedDistinct
  <2>8. /\ Refs(sel) \in Seq(G) /\ Len(Refs(sel)) = Len(sel) /\ Distinct(Refs(sel))
        /\ \A a \in DOMAIN Refs(sel) : \E b \in DOMAIN A : Refs(sel)[a] = AsRef(A[b])
    BY <2>5, <2>7, RefsOfPicked
  <2>9. \A a \in DOMAIN Refs(sel) : \E b \in DOMAIN all : Refs(sel)[a] = all[b]
    BY <2>4, <2>6, <2>8
  <2>10. lb = [node EXCEPT !.nbrs = Refs(sel)]
    BY <1>8 DEF LinkBack, all, n, sel, A
  <2>11. Made(Refs(sel))
    <3> HIDE DEF lb
    <3> QED BY <1>1, <1>5, <2>5, <2>8, <2>9, <2>10
  <2> QED BY <2>11
<1>9. PICK list : Made(list)
  <2> HIDE DEF Made
  <2> QED BY <1>7, <1>8
<1>10. list \in Seq(RefType)
  BY <1>9, SeqMonotonic
<1>11. lb \in NodeType
  BY <1>1, <1>9, <1>10 DEF NodeType
<1> HIDE DEF lb
<1>12. lb.nbrs = list /\ lb.row = node.row /\ lb.dead = node.dead /\ lb.vec = node.vec
  BY <1>9
<1> QED BY <1>9, <1>11, <1>12 DEF lb

-----------------------------------------------------------------------------
(***************************************************************************)
(* insert_built on the graph layout.                                       *)
(***************************************************************************)
LEMMA NewNbrsFacts ==
  ASSUME NEW t, NEW hints \in BOOLEAN, NEW mv \in BOOLEAN, GoodNodes(t, hints, mv),
         NEW m, m.head \in Seq(GoodRefs(t, hints, mv)), NEW v \in Vecs
  PROVE  LET u == NewNbrs(t, m, v)
         IN  /\ u \in Seq(Cands)
             /\ Refs(u) \in Seq(GoodRefs(t, hints, mv)) /\ Len(Refs(u)) <= M0 /\ Distinct(Refs(u))
             /\ \A a \in DOMAIN Refs(u) : RefRight(t, Refs(u)[a])
             /\ \A a \in DOMAIN u : u[a].id \in DOMAIN t.nodes
<1> DEFINE G == GoodRefs(t, hints, mv)
           T == Seen(t, hints, mv)
           ef == Larger(EfC, M0)
           L == AnnCore(t, m, v, ef, 4, FALSE).L
           I == {i \in DOMAIN L : \E n \in L[i].row : ~n.dead}
           live == Sub(L, I)
           Own(c) == CodeOf[(CHOOSE n \in c.row : TRUE).vec]
           Cand(c) == [id |-> c.id, page |-> c.page, d |-> c.d, code |-> Own(c)]
           s == [i \in DOMAIN live |-> Cand(live[i])]
           u == NewNbrs(t, m, v)
<1>1. L \in Seq(T) /\ Distinct(L)
  <2>1. v \in Nat /\ ef \in Nat \ {0} /\ 4 \in Nat
    BY CodeIsNat, GraphAssumption DEF Larger
  <2> HIDE DEF ef
  <2>2. AnnCore(t, m, v, ef, 4, FALSE) \in Searches(t, hints, mv)
    BY <2>1, AnnCoreFacts
  <2> QED BY <2>2 DEF Searches
<1>2. u = SelectNbrs(s)
  BY DEF NewNbrs, AtOwnCode, Live
<1> HIDE DEF L, u
<1>3. live \in Seq(T) /\ \E f \in [DOMAIN live -> I] :
        /\ \A n \in DOMAIN live : live[n] = L[f[n]]
        /\ \A a, b \in DOMAIN live : f[a] = f[b] => a = b
  <2>1. I \in SUBSET DOMAIN L
    OBVIOUS
  <2> HIDE DEF I, T
  <2> QED BY <1>1, <2>1, SubFacts
<1>4. PICK f \in [DOMAIN live -> I] :
        /\ \A n \in DOMAIN live : live[n] = L[f[n]]
        /\ \A a, b \in DOMAIN live : f[a] = f[b] => a = b
  BY <1>3
<1> HIDE DEF live
<1>5. \A n \in DOMAIN live : /\ live[n] \in T /\ live[n].id \in DOMAIN t.nodes
                             /\ Own(live[n]) = CodeOf[t.nodes[live[n].id].vec]
  <2> TAKE n \in DOMAIN live
  <2>1. live[n] \in T
    BY <1>3, ElementOfSeq, LenProperties
  <2>2. live[n].row # {}
    BY <1>4
  <2>3. live[n].row \subseteq {t.nodes[i] : i \in {live[n].id} \cap DOMAIN t.nodes}
    BY <2>1 DEF Seen
  <2>4. live[n].id \in DOMAIN t.nodes /\ live[n].row = {t.nodes[live[n].id]}
    BY <2>2, <2>3
  <2>5. (CHOOSE k \in live[n].row : TRUE) = t.nodes[live[n].id]
    BY <2>4
  <2> QED BY <2>1, <2>4, <2>5
<1>6. \A n \in DOMAIN live :
        Cand(live[n]) \in Cands /\ AsRef(Cand(live[n])) \in G /\ RefRight(t, AsRef(Cand(live[n])))
  <2> TAKE n \in DOMAIN live
  <2>1. /\ live[n].d \in Nat /\ live[n].id \in Nat /\ live[n].page \in Nat
        /\ HintOK(t, "nodes", live[n].id, live[n].page, hints, mv)
    BY <1>5 DEF Seen
  <2>2. Own(live[n]) \in Nat /\ Own(live[n]) = CodeOf[t.nodes[live[n].id].vec]
    <3>1. t.nodes[live[n].id].vec \in Vecs
      BY <1>5 DEF GoodNodes, NodeType
    <3> QED BY <1>5, <3>1, CodeIsNat
  <2> HIDE DEF Own
  <2>3. Cand(live[n]) \in Cands
    BY <2>1, <2>2 DEF Cands
  <2>4. AsRef(Cand(live[n])) = [id |-> live[n].id, page |-> live[n].page, code |-> Own(live[n])]
    BY DEF AsRef
  <2>5. AsRef(Cand(live[n])) \in G
    BY <2>1, <2>2, <2>4 DEF GoodRefs, RefType
  <2>6. RefRight(t, AsRef(Cand(live[n])))
    BY <1>5, <2>2, <2>4 DEF RefRight
  <2> QED BY <2>3, <2>5, <2>6
<1>7. DOMAIN live = 1 .. Len(live) /\ Len(live) \in Nat
  BY <1>3, LenProperties
<1>8. \A n \in DOMAIN live : Cand(live[n]).id = live[n].id
  OBVIOUS
<1> HIDE DEF Cand
<1>9. DOMAIN s = DOMAIN live /\ s \in Seq(Cands)
  <2>1. s = [i \in 1 .. Len(live) |-> Cand(live[i])]
    BY <1>7
  <2>2. \A i \in 1 .. Len(live) : Cand(live[i]) \in Cands
    BY <1>6, <1>7
  <2>3. [i \in 1 .. Len(live) |-> Cand(live[i])] \in Seq(Cands)
    BY <1>7, <2>2, IsASeq
  <2> QED BY <2>1, <2>3
<1>10. \A n \in DOMAIN s : s[n] = Cand(live[n]) /\ n \in DOMAIN live
  OBVIOUS
<1>11. Distinct(s)
  <2> HIDE DEF s
  <2> SUFFICES ASSUME NEW a \in DOMAIN s, NEW b \in DOMAIN s, s[a].id = s[b].id PROVE a = b
    BY DEF Distinct
  <2>1. L[f[a]].id = L[f[b]].id /\ f[a] \in DOMAIN L /\ f[b] \in DOMAIN L
    BY <1>4, <1>8, <1>10
  <2>2. f[a] = f[b]
    BY <1>1, <2>1 DEF Distinct
  <2> QED BY <1>4, <1>10, <2>2
<1> HIDE DEF s
<1>12. u \in Seq(Cands) /\ Len(u) <= M0 /\ PickedFrom(u, s)
  BY <1>2, <1>9, SelectFacts
<1>13. G \in SUBSET RefType /\ \A b \in DOMAIN s : AsRef(s[b]) \in G
  BY <1>6, <1>10 DEF GoodRefs
<1> HIDE DEF G, T, ef, I, Own
<1>14. /\ Refs(u) \in Seq(G) /\ Len(Refs(u)) = Len(u) /\ Distinct(Refs(u))
       /\ \A a \in DOMAIN Refs(u) : \E b \in DOMAIN s : Refs(u)[a] = AsRef(s[b])
  <2>1. u \in Seq(Cands) /\ PickedFrom(u, s) /\ Distinct(s)
    BY <1>11, <1>12
  <2>2. G \in SUBSET RefType /\ \A b \in DOMAIN s : AsRef(s[b]) \in G
    BY <1>13
  <2> HIDE DEF s, u, live, L
  <2>3. /\ Refs(u) \in Seq(G) /\ Len(Refs(u)) = Len(u)
        /\ \A a \in DOMAIN Refs(u) : \E b \in DOMAIN s : Refs(u)[a] = AsRef(s[b])
        /\ Distinct(s) => Distinct(Refs(u))
    BY <2>1, <2>2, RefsOfPicked, Zenon
  <2> QED BY <2>1, <2>3
<1>15. \A a \in DOMAIN Refs(u) : RefRight(t, Refs(u)[a])
  BY <1>6, <1>10, <1>14
<1>16. \A a \in DOMAIN u : u[a].id \in DOMAIN t.nodes
  <2> TAKE a \in DOMAIN u
  <2>1. \E b \in DOMAIN s : u[a].id = s[b].id
    BY <1>12 DEF PickedFrom
  <2>2. PICK b \in DOMAIN s : u[a].id = s[b].id
    BY <2>1
  <2>3. u[a].id = live[b].id /\ b \in DOMAIN live
    BY <1>8, <1>10, <2>2
  <2> QED BY <1>5, <2>3
<1> QED BY <1>12, <1>14, <1>15, <1>16 DEF G, u

(* What a row a new node links back to becomes.                            *)
Relinked(old, new, ref, G) ==
  /\ new \in NodeType /\ new.row = old.row /\ new.dead = old.dead /\ new.vec = old.vec
  /\ new.nbrs \in Seq(G) /\ Len(new.nbrs) <= M0 /\ Distinct(new.nbrs)
  /\ \A a \in DOMAIN new.nbrs :
       new.nbrs[a] = ref \/ \E b \in DOMAIN old.nbrs : new.nbrs[a] = old.nbrs[b]

LEMMA GoodRefsGrow ==
  ASSUME NEW t, NEW z, NEW hints, NEW mv, NEW key, NEW page,
         key \notin DOMAIN t.pages.nodes, z.pages.nodes = Put(t.pages.nodes, key, page)
  PROVE  GoodRefs(t, hints, mv) \subseteq GoodRefs(z, hints, mv)
<1> SUFFICES ASSUME NEW ref \in GoodRefs(t, hints, mv) PROVE ref \in GoodRefs(z, hints, mv)
  OBVIOUS
<1>1. ref \in RefType /\ HintOK(t, "nodes", ref.id, ref.page, hints, mv)
  BY DEF GoodRefs
<1>2. PageOf(t, "nodes", ref.id) \in {0, PageOf(z, "nodes", ref.id)}
  <2>1. CASE ref.id \in DOMAIN t.pages.nodes
    <3>1. ref.id # key
      BY <2>1
    <3>2. ref.id \in DOMAIN Put(t.pages.nodes, key, page)
          /\ Put(t.pages.nodes, key, page)[ref.id] = t.pages.nodes[ref.id]
      BY <2>1, <3>1 DEF Put
    <3> QED BY <2>1, <3>2 DEF PageOf
  <2>2. CASE ref.id \notin DOMAIN t.pages.nodes
    BY <2>2 DEF PageOf
  <2> QED BY <2>1, <2>2
<1>3. HintOK(z, "nodes", ref.id, ref.page, hints, mv)
  BY <1>1, <1>2 DEF HintOK
<1> QED BY <1>1, <1>3 DEF GoodRefs

(* The rows of a whole graph, with a node more that others link to.        *)
LEMMA GraphWithNode ==
  ASSUME NEW t, NEW z, NEW next \in Nat, NEW r, NEW ref, NEW G, GraphWhole(t),
         next \notin DOMAIN t.nodes, r \notin DOMAIN t.rowids,
         DOMAIN z.nodes = DOMAIN t.nodes \cup {next}, z.rowids = Put(t.rowids, r, next),
         \A i \in DOMAIN t.nodes : Relinked(t.nodes[i], z.nodes[i], ref, G),
         z.nodes[next].row = r, ~z.nodes[next].dead, z.nodes[next].nbrs \in Seq(RefType),
         Len(z.nodes[next].nbrs) <= M0, Distinct(z.nodes[next].nbrs),
         \A a \in DOMAIN z.nodes[next].nbrs : RefRight(t, z.nodes[next].nbrs[a]),
         ref.id = next, ref.code = CodeOf[z.nodes[next].vec]
  PROVE  GraphWhole(z)
<1>1. DOMAIN z.rowids = DOMAIN t.rowids \cup {r}
      /\ z.rowids[r] = next
      /\ \A u \in DOMAIN t.rowids : z.rowids[u] = t.rowids[u]
  BY DEF Put
<1>2. \A x : RefRight(t, x) => RefRight(z, x) /\ x.id # next
  <2> TAKE x
  <2> HAVE RefRight(t, x)
  <2>1. x.id \in DOMAIN t.nodes /\ x.code = CodeOf[t.nodes[x.id].vec]
    BY DEF RefRight
  <2>2. z.nodes[x.id].vec = t.nodes[x.id].vec
    BY <2>1 DEF Relinked
  <2> QED BY <2>1, <2>2 DEF RefRight
<1>3. RefRight(z, ref)
  BY DEF RefRight
<1>4. ASSUME NEW i \in DOMAIN t.nodes
      PROVE  /\ Len(z.nodes[i].nbrs) <= M0
             /\ \A a \in DOMAIN z.nodes[i].nbrs :
                  /\ RefRight(z, z.nodes[i].nbrs[a]) /\ z.nodes[i].nbrs[a].id # i
                  /\ \A b \in DOMAIN z.nodes[i].nbrs :
                       z.nodes[i].nbrs[a].id = z.nodes[i].nbrs[b].id => a = b
             /\ ~z.nodes[i].dead =>
                  z.nodes[i].row \in DOMAIN z.rowids /\ z.rowids[z.nodes[i].row] = i
  <2>1. Relinked(t.nodes[i], z.nodes[i], ref, G)
    OBVIOUS
  <2>2. /\ \A b \in DOMAIN t.nodes[i].nbrs :
             RefRight(t, t.nodes[i].nbrs[b]) /\ t.nodes[i].nbrs[b].id # i
        /\ ~t.nodes[i].dead =>
             t.nodes[i].row \in DOMAIN t.rowids /\ t.rowids[t.nodes[i].row] = i
    BY DEF GraphWhole
  <2>3. i # next
    OBVIOUS
  <2>4. \A a \in DOMAIN z.nodes[i].nbrs :
          RefRight(z, z.nodes[i].nbrs[a]) /\ z.nodes[i].nbrs[a].id # i
    <3> TAKE a \in DOMAIN z.nodes[i].nbrs
    <3>1. CASE z.nodes[i].nbrs[a] = ref
      BY <1>3, <2>3, <3>1
    <3>2. CASE \E b \in DOMAIN t.nodes[i].nbrs : z.nodes[i].nbrs[a] = t.nodes[i].nbrs[b]
      BY <1>2, <2>2, <3>2
    <3> QED BY <2>1, <3>1, <3>2 DEF Relinked
  <2>5. Distinct(z.nodes[i].nbrs) /\ Len(z.nodes[i].nbrs) <= M0
        /\ z.nodes[i].row = t.nodes[i].row /\ z.nodes[i].dead = t.nodes[i].dead
    BY <2>1 DEF Relinked
  <2> QED BY <1>1, <2>2, <2>4, <2>5 DEF Distinct
<1>5. /\ \A a \in DOMAIN z.nodes[next].nbrs :
           /\ RefRight(z, z.nodes[next].nbrs[a]) /\ z.nodes[next].nbrs[a].id # next
           /\ \A b \in DOMAIN z.nodes[next].nbrs :
                z.nodes[next].nbrs[a].id = z.nodes[next].nbrs[b].id => a = b
  BY <1>2 DEF Distinct
<1>6. ASSUME NEW u \in DOMAIN z.rowids
      PROVE  LET i == z.rowids[u]
             IN i \in DOMAIN z.nodes /\ ~z.nodes[i].dead /\ z.nodes[i].row = u
  <2>1. CASE u = r
    BY <1>1, <2>1
  <2>2. CASE u # r
    <3>1. u \in DOMAIN t.rowids /\ z.rowids[u] = t.rowids[u]
      BY <1>1, <2>2
    <3>2. /\ t.rowids[u] \in DOMAIN t.nodes
          /\ ~t.nodes[t.rowids[u]].dead /\ t.nodes[t.rowids[u]].row = u
      BY <3>1 DEF GraphWhole
    <3>3. Relinked(t.nodes[t.rowids[u]], z.nodes[t.rowids[u]], ref, G)
      BY <3>2
    <3> QED BY <3>1, <3>2, <3>3 DEF Relinked
  <2> QED BY <2>1, <2>2
<1>7. ASSUME NEW i \in DOMAIN z.nodes
      PROVE  /\ Len(z.nodes[i].nbrs) <= M0
             /\ \A a \in DOMAIN z.nodes[i].nbrs :
                  /\ RefRight(z, z.nodes[i].nbrs[a]) /\ z.nodes[i].nbrs[a].id # i
                  /\ \A b \in DOMAIN z.nodes[i].nbrs :
                       z.nodes[i].nbrs[a].id = z.nodes[i].nbrs[b].id => a = b
             /\ ~z.nodes[i].dead =>
                  z.nodes[i].row \in DOMAIN z.rowids /\ z.rowids[z.nodes[i].row] = i
  <2>1. CASE i = next
    BY <1>1, <1>5, <2>1
  <2>2. CASE i # next
    <3>1. i \in DOMAIN t.nodes
      BY <2>2
    <3> QED BY <1>4, <3>1
  <2> QED BY <2>1, <2>2
<1> QED BY <1>6, <1>7 DEF GraphWhole

LEMMA InsertNodeFacts ==
  ASSUME NEW t, Shape(t), NEW next \in Nat, NEW hints \in BOOLEAN, NEW mv \in BOOLEAN,
         GraphBase(t, next, hints, mv),
         NEW m, m.next = next, m.head \in Seq(GoodRefs(t, hints, mv)),
         NEW r \in RowIds, r \notin DOMAIN t.rowids, NEW v \in Vecs
  PROVE  LET z == InsertNode(t, m, r, v)
         IN  /\ Shape(z) /\ z.state = t.state /\ z.head = t.head /\ z.buffer = t.buffer
             /\ GraphBase(z, next + 1, hints, mv)
             /\ GoodRefs(t, hints, mv) \subseteq GoodRefs(z, hints, mv)
             /\ GraphView(z) = Put(GraphView(t), r, v)
<1> DEFINE G == GoodRefs(t, hints, mv)
           sel == NewNbrs(t, m, v)
           new == [row |-> r, dead |-> FALSE, vec |-> v, nbrs |-> Refs(sel)]
           added == InsertRow(t, "nodes", next, new)
           back == {sel[i].id : i \in DOMAIN sel}
           ref == Ref(next, 0, v)
           rows == Put(t.nodes, next, new)
           N == [i \in DOMAIN t.nodes \cup {next} |->
                   IF i \in back THEN LinkBack(rows[i], ref) ELSE rows[i]]
           pages == [nodes |-> Put(t.pages.nodes, next, t.top + 1),
                     vectors |-> t.pages.vectors, lists |-> t.pages.lists]
           z == InsertNode(t, m, r, v)
           H == GoodRefs(z, hints, mv)
<1>1. /\ t.vectors = << >> /\ t.lists = << >>
      /\ \A i \in DOMAIN t.nodes : i \in Nat /\ i < next /\ t.nodes[i] \in NodeType
                                   /\ t.nodes[i].nbrs \in Seq(G)
      /\ \A i \in DOMAIN t.pages.nodes : i \in Nat /\ i < next /\ t.pages.nodes[i] \in Nat
      /\ GraphWhole(t)
  BY DEF GraphBase
<1>2. next \notin DOMAIN t.nodes /\ next \notin DOMAIN t.pages.nodes
  BY <1>1
<1>3. /\ sel \in Seq(Cands)
      /\ Refs(sel) \in Seq(G) /\ Len(Refs(sel)) <= M0 /\ Distinct(Refs(sel))
      /\ \A a \in DOMAIN Refs(sel) : RefRight(t, Refs(sel)[a])
      /\ \A a \in DOMAIN sel : sel[a].id \in DOMAIN t.nodes
  <2>1. GoodNodes(t, hints, mv)
    BY <1>1 DEF GoodNodes
  <2> QED BY <2>1, NewNbrsFacts
<1>4. z = [added EXCEPT !.rowids = Put(@, r, next),
                        !.nodes = [i \in DOMAIN @ |->
                                     IF i \in back THEN LinkBack(@[i], ref) ELSE @[i]]]
  BY DEF InsertNode, LinkedNode
<1> HIDE DEF sel, z
<1>5. added = [buffer |-> t.buffer, nodes |-> rows, rowids |-> t.rowids,
               vectors |-> t.vectors, lists |-> t.lists, head |-> t.head, state |-> t.state,
               pages |-> pages, top |-> t.top + 1]
  <2> HIDE DEF new
  <2> QED BY <1>1, AppendNode
<1>6. DOMAIN rows = DOMAIN t.nodes \cup {next} /\ rows[next] = new
      /\ \A i \in DOMAIN t.nodes : rows[i] = t.nodes[i]
  <2> HIDE DEF new
  <2> QED BY <1>2 DEF Put
<1> HIDE DEF rows, added, new, pages
<1>7. z = [buffer |-> t.buffer, nodes |-> N, rowids |-> Put(t.rowids, r, next),
           vectors |-> t.vectors, lists |-> t.lists, head |-> t.head, state |-> t.state,
           pages |-> pages, top |-> t.top + 1]
  <2> DEFINE K(f) == [i \in DOMAIN f |-> IF i \in back THEN LinkBack(f[i], ref) ELSE f[i]]
  <2>1. z = [added EXCEPT !.rowids = Put(added.rowids, r, next), !.nodes = K(added.nodes)]
    BY <1>4
  <2>2. K(rows) = N
    BY <1>6
  <2> HIDE DEF K, N
  <2> QED BY <1>5, <2>1, <2>2
<1>8. G \subseteq H
  <2>1. z.pages.nodes = Put(t.pages.nodes, next, t.top + 1)
    BY <1>7 DEF pages
  <2> DEFINE last == t.top + 1
  <2>2. z.pages.nodes = Put(t.pages.nodes, next, last)
    BY <2>1
  <2> HIDE DEF last
  <2> QED BY <1>2, <2>2, GoodRefsGrow, Zenon
<1>9. ref \in H /\ ref.id = next /\ ref.page = 0 /\ ref.code = CodeOf[v]
  <2>1. CodeOf[v] \in Nat
    BY CodeIsNat
  <2> QED BY <2>1 DEF Ref, GoodRefs, RefType, HintOK
<1>10. new \in NodeType /\ new.nbrs = Refs(sel) /\ new.vec = v /\ new.row = r /\ ~new.dead
       /\ new.nbrs \in Seq(H)
  <2>1. Refs(sel) \in Seq(RefType) /\ Refs(sel) \in Seq(H)
    <3>1. G \subseteq RefType
      BY DEF GoodRefs
    <3> HIDE DEF G, H
    <3> QED BY <1>3, <1>8, <3>1, SeqMonotonic
  <2> QED BY <2>1 DEF NodeType, new
<1> HIDE DEF ref
<1>11. next \notin back /\ back \subseteq DOMAIN t.nodes
  BY <1>2, <1>3
<1> HIDE DEF back
<1>12. DOMAIN N = DOMAIN t.nodes \cup {next} /\ N[next] = new
       /\ \A i \in DOMAIN t.nodes : N[i] = IF i \in back THEN LinkBack(t.nodes[i], ref) ELSE t.nodes[i]
  BY <1>6, <1>11
<1> HIDE DEF N
<1>13. ASSUME NEW i \in DOMAIN t.nodes PROVE Relinked(t.nodes[i], N[i], ref, H)
  <2> DEFINE node == t.nodes[i]
  <2>1. node \in NodeType /\ node.nbrs \in Seq(H)
    <3>1. node.nbrs \in Seq(G) /\ node \in NodeType
      BY <1>1
    <3> HIDE DEF G, H, node
    <3> QED BY <1>8, <3>1, SeqMonotonic
  <2>2. Len(node.nbrs) <= M0 /\ Distinct(node.nbrs)
        /\ \A a \in DOMAIN node.nbrs : node.nbrs[a].id # ref.id
    <3>1. /\ Len(node.nbrs) <= M0
          /\ \A a, b \in DOMAIN node.nbrs : node.nbrs[a].id = node.nbrs[b].id => a = b
          /\ \A a \in DOMAIN node.nbrs : node.nbrs[a].id \in DOMAIN t.nodes
      BY <1>1 DEF GraphWhole, RefRight
    <3> QED BY <1>2, <1>9, <3>1 DEF Distinct
  <2>3. H \in SUBSET RefType
    BY DEF GoodRefs
  <2> HIDE DEF node, H
  <2>4. Relinked(node, LinkBack(node, ref), ref, H)
    BY <1>9, <2>1, <2>2, <2>3, LinkBackFacts DEF Relinked
  <2>5. Relinked(node, node, ref, H)
    BY <2>1, <2>2 DEF Relinked
  <2> QED BY <1>12, <2>4, <2>5 DEF node
<1>14. z.nodes = N /\ z.rowids = Put(t.rowids, r, next) /\ z.vectors = << >> /\ z.lists = << >>
       /\ z.pages = pages
  BY <1>1, <1>7
<1>15. GraphWhole(z)
  <2>1. Refs(sel) \in Seq(RefType)
    BY <1>10 DEF NodeType
  <2>2. /\ DOMAIN z.nodes = DOMAIN t.nodes \cup {next}
        /\ \A i \in DOMAIN t.nodes : Relinked(t.nodes[i], z.nodes[i], ref, H)
    <3> HIDE DEF H
    <3> QED BY <1>12, <1>13, <1>14
  <2>3. z.nodes[next] = new
    BY <1>12, <1>14
  <2>4. /\ z.nodes[next].row = r /\ ~z.nodes[next].dead /\ z.nodes[next].nbrs \in Seq(RefType)
        /\ Len(z.nodes[next].nbrs) <= M0 /\ Distinct(z.nodes[next].nbrs)
        /\ \A a \in DOMAIN z.nodes[next].nbrs : RefRight(t, z.nodes[next].nbrs[a])
        /\ ref.id = next /\ ref.code = CodeOf[z.nodes[next].vec]
    <3> HIDE DEF H
    <3> QED BY <1>3, <1>9, <1>10, <2>1, <2>3
  <2> HIDE DEF H
  <2>5. GraphWhole(t) /\ next \notin DOMAIN t.nodes /\ z.rowids = Put(t.rowids, r, next)
    BY <1>1, <1>2, <1>14
  <2> QED BY <2>2, <2>4, <2>5, GraphWithNode, Zenon
<1>16. \A i \in DOMAIN z.nodes : /\ i \in Nat /\ i < next + 1
                                 /\ z.nodes[i] \in NodeType /\ z.nodes[i].nbrs \in Seq(H)
  <2> TAKE i \in DOMAIN z.nodes
  <2>1. CASE i = next
    <3> HIDE DEF H
    <3> QED BY <1>10, <1>12, <1>14, <2>1
  <2>2. CASE i # next
    <3>1. i \in DOMAIN t.nodes /\ i \in Nat /\ i < next
      BY <1>1, <1>12, <1>14, <2>2
    <3> HIDE DEF H
    <3>2. z.nodes[i] \in NodeType /\ z.nodes[i].nbrs \in Seq(H)
      BY <1>13, <1>14, <3>1 DEF Relinked
    <3> QED BY <3>1, <3>2
  <2> QED BY <2>1, <2>2
<1>17. \A i \in DOMAIN z.pages.nodes : i \in Nat /\ i < next + 1 /\ z.pages.nodes[i] \in Nat
  <2>1. t.top \in Nat /\ z.pages.nodes = Put(t.pages.nodes, next, t.top + 1)
    BY <1>14 DEF Shape, pages
  <2> QED BY <1>1, <2>1 DEF Put
<1>18. GraphBase(z, next + 1, hints, mv)
  BY <1>14, <1>15, <1>16, <1>17 DEF GraphBase
<1>19. Shape(z) /\ z.state = t.state /\ z.head = t.head /\ z.buffer = t.buffer
  BY <1>7 DEF Shape, pages
<1>20. GraphView(z) = Put(GraphView(t), r, v)
  <2> DEFINE R == Put(t.rowids, r, next)
  <2>1. z.nodes = N /\ z.rowids = R
    BY <1>14
  <2>2. DOMAIN R = DOMAIN t.rowids \cup {r} /\ R[r] = next
        /\ \A u \in DOMAIN t.rowids : R[u] = t.rowids[u]
    BY DEF Put
  <2> HIDE DEF R
  <2>3. N[R[r]].vec = v
    BY <1>10, <1>12, <2>2
  <2>4. \A u \in DOMAIN t.rowids : N[R[u]].vec = t.nodes[t.rowids[u]].vec
    <3> TAKE u \in DOMAIN t.rowids
    <3>1. t.rowids[u] \in DOMAIN t.nodes
      BY <1>1 DEF GraphWhole
    <3> QED BY <1>13, <2>2, <3>1 DEF Relinked
  <2> QED BY <2>1, <2>2, <2>3, <2>4 DEF GraphView, VecOfNode, Put
<1> QED BY <1>8, <1>18, <1>19, <1>20 DEF z

-----------------------------------------------------------------------------
(***************************************************************************)
(* delete_row and do_finalize on the graph layout.                         *)
(***************************************************************************)
SameLinks(a, b) ==
  /\ Len(a) = Len(b) /\ DOMAIN a = DOMAIN b
  /\ \A i \in DOMAIN a : a[i].id = b[i].id /\ a[i].code = b[i].code

LEMMA WholeWithSameLinks ==
  ASSUME NEW t, NEW z, GraphWhole(t), DOMAIN z.nodes = DOMAIN t.nodes,
         \A i \in DOMAIN t.nodes :
           z.nodes[i].vec = t.nodes[i].vec /\ SameLinks(z.nodes[i].nbrs, t.nodes[i].nbrs),
         \A i \in DOMAIN t.nodes : ~z.nodes[i].dead =>
           z.nodes[i].row \in DOMAIN z.rowids /\ z.rowids[z.nodes[i].row] = i,
         \A r \in DOMAIN z.rowids :
           /\ z.rowids[r] \in DOMAIN t.nodes
           /\ ~z.nodes[z.rowids[r]].dead /\ z.nodes[z.rowids[r]].row = r
  PROVE  GraphWhole(z)
<1>1. ASSUME NEW i \in DOMAIN z.nodes
      PROVE  /\ Len(z.nodes[i].nbrs) <= M0
             /\ \A a \in DOMAIN z.nodes[i].nbrs :
                  /\ RefRight(z, z.nodes[i].nbrs[a]) /\ z.nodes[i].nbrs[a].id # i
                  /\ \A b \in DOMAIN z.nodes[i].nbrs :
                       z.nodes[i].nbrs[a].id = z.nodes[i].nbrs[b].id => a = b
  <2> DEFINE new == z.nodes[i].nbrs
             old == t.nodes[i].nbrs
  <2>1. i \in DOMAIN t.nodes
    OBVIOUS
  <2>2. /\ Len(old) <= M0
        /\ \A a \in DOMAIN old :
             /\ RefRight(t, old[a]) /\ old[a].id # i
             /\ \A b \in DOMAIN old : old[a].id = old[b].id => a = b
    BY <2>1 DEF GraphWhole
  <2>3. SameLinks(new, old)
    BY <2>1
  <2> HIDE DEF new, old
  <2>4. \A x, y : RefRight(t, x) /\ y.id = x.id /\ y.code = x.code => RefRight(z, y)
    BY DEF RefRight
  <2>5. \A a \in DOMAIN new : RefRight(z, new[a]) /\ new[a].id # i
    BY <2>2, <2>3, <2>4 DEF SameLinks
  <2>6. \A a, b \in DOMAIN new : new[a].id = new[b].id => a = b
    BY <2>2, <2>3 DEF SameLinks
  <2>7. Len(new) <= M0
    BY <2>2, <2>3 DEF SameLinks
  <2> QED BY <2>5, <2>6, <2>7 DEF new
<1> QED BY <1>1 DEF GraphWhole

LEMMA DeleteNodeFacts ==
  ASSUME NEW t, Shape(t), NEW next \in Nat, NEW hints \in BOOLEAN, NEW mv \in BOOLEAN,
         GraphBase(t, next, hints, mv), NEW r \in DOMAIN t.rowids
  PROVE  LET z == DeleteNode(t, r)
         IN  /\ Shape(z) /\ z.state = t.state /\ z.head = t.head /\ z.buffer = t.buffer
             /\ GraphBase(z, next, hints, mv)
             /\ GoodRefs(z, hints, mv) = GoodRefs(t, hints, mv)
             /\ GraphView(z) = Less(GraphView(t), r)
<1> DEFINE z == DeleteNode(t, r)
           at == t.rowids[r]
           N == [t.nodes EXCEPT ![at].dead = TRUE]
           R == Restrict(t.rowids, DOMAIN t.rowids \ {r})
<1>1. z = [buffer |-> t.buffer, nodes |-> N, rowids |-> R,
           vectors |-> t.vectors, lists |-> t.lists, head |-> t.head, state |-> t.state,
           pages |-> t.pages, top |-> t.top]
  <2>1. z = [t EXCEPT !.nodes = N, !.rowids = R]
    BY DEF DeleteNode
  <2> HIDE DEF N, R, z
  <2> QED BY <2>1 DEF Shape
<1> HIDE DEF z
<1>2. DOMAIN R = DOMAIN t.rowids \ {r} /\ \A u \in DOMAIN t.rowids \ {r} : R[u] = t.rowids[u]
  BY DEF Restrict
<1>3. /\ \A i \in DOMAIN t.nodes :
           /\ i \in Nat /\ i < next
           /\ t.nodes[i] \in NodeType /\ t.nodes[i].nbrs \in Seq(GoodRefs(t, hints, mv))
      /\ GraphWhole(t)
  BY DEF GraphBase
<1>4. /\ at \in DOMAIN t.nodes /\ ~t.nodes[at].dead /\ t.nodes[at].row = r
      /\ \A u \in DOMAIN t.rowids :
           /\ t.rowids[u] \in DOMAIN t.nodes
           /\ ~t.nodes[t.rowids[u]].dead /\ t.nodes[t.rowids[u]].row = u
      /\ \A i \in DOMAIN t.nodes : ~t.nodes[i].dead =>
           t.nodes[i].row \in DOMAIN t.rowids /\ t.rowids[t.nodes[i].row] = i
  BY <1>3 DEF GraphWhole
<1>5. /\ DOMAIN N = DOMAIN t.nodes
      /\ \A i \in DOMAIN t.nodes : i # at => N[i] = t.nodes[i]
      /\ N[at] = [t.nodes[at] EXCEPT !.dead = TRUE]
  BY <1>4
<1> HIDE DEF N, R
<1>6. /\ N[at] \in NodeType /\ N[at].dead /\ N[at].row = r
      /\ N[at].vec = t.nodes[at].vec /\ N[at].nbrs = t.nodes[at].nbrs
  <2> DEFINE node == t.nodes[at]
  <2>1. node = [row |-> node.row, dead |-> node.dead, vec |-> node.vec, nbrs |-> node.nbrs]
        /\ node \in NodeType /\ node.row = r
    BY <1>3, <1>4 DEF NodeType
  <2>2. N[at] = [node EXCEPT !.dead = TRUE]
    BY <1>5
  <2> HIDE DEF node
  <2>3. N[at] = [row |-> node.row, dead |-> TRUE, vec |-> node.vec, nbrs |-> node.nbrs]
    BY <2>1, <2>2
  <2> QED BY <2>1, <2>3 DEF NodeType, node
<1>7. z.nodes = N /\ z.rowids = R /\ z.pages = t.pages
  BY <1>1
<1>8. GoodRefs(z, hints, mv) = GoodRefs(t, hints, mv)
  BY <1>7 DEF GoodRefs, HintOK, PageOf
<1>9. \A i \in DOMAIN t.nodes :
        N[i] \in NodeType /\ N[i].vec = t.nodes[i].vec /\ N[i].nbrs = t.nodes[i].nbrs
  BY <1>3, <1>5, <1>6
<1>10. GraphWhole(z)
  <2>1. DOMAIN z.nodes = DOMAIN t.nodes
    BY <1>5, <1>7
  <2>2. \A i \in DOMAIN t.nodes :
          z.nodes[i].vec = t.nodes[i].vec /\ SameLinks(z.nodes[i].nbrs, t.nodes[i].nbrs)
    BY <1>7, <1>9 DEF SameLinks
  <2>3. \A i \in DOMAIN t.nodes : ~z.nodes[i].dead =>
          z.nodes[i].row \in DOMAIN z.rowids /\ z.rowids[z.nodes[i].row] = i
    <3> SUFFICES ASSUME NEW i \in DOMAIN t.nodes, ~N[i].dead
                 PROVE  N[i].row \in DOMAIN R /\ R[N[i].row] = i
      BY <1>7
    <3>1. i # at
      BY <1>6
    <3>2. N[i] = t.nodes[i] /\ t.nodes[i].row \in DOMAIN t.rowids /\ t.rowids[t.nodes[i].row] = i
      BY <1>4, <1>5, <3>1
    <3>3. t.nodes[i].row # r
      BY <3>1, <3>2
    <3> QED BY <1>2, <3>2, <3>3
  <2>4. \A u \in DOMAIN z.rowids :
          /\ z.rowids[u] \in DOMAIN t.nodes
          /\ ~z.nodes[z.rowids[u]].dead /\ z.nodes[z.rowids[u]].row = u
    <3> SUFFICES ASSUME NEW u \in DOMAIN t.rowids, u # r
                 PROVE  R[u] \in DOMAIN t.nodes /\ ~N[R[u]].dead /\ N[R[u]].row = u
      BY <1>2, <1>7
    <3>1. R[u] = t.rowids[u] /\ R[u] # at
      BY <1>2, <1>4
    <3> QED BY <1>4, <1>5, <3>1
  <2> QED BY <1>3, <2>1, <2>2, <2>3, <2>4, WholeWithSameLinks, Zenon
<1>11. GraphBase(z, next, hints, mv)
  <2>1. z.vectors = << >> /\ z.lists = << >>
        /\ \A i \in DOMAIN z.pages.nodes : i \in Nat /\ i < next /\ z.pages.nodes[i] \in Nat
    BY <1>1 DEF GraphBase
  <2>2. \A i \in DOMAIN z.nodes :
          /\ i \in Nat /\ i < next
          /\ z.nodes[i] \in NodeType /\ z.nodes[i].nbrs \in Seq(GoodRefs(z, hints, mv))
    BY <1>3, <1>5, <1>7, <1>8, <1>9
  <2> QED BY <1>10, <2>1, <2>2 DEF GraphBase
<1>12. Shape(z) /\ z.state = t.state /\ z.head = t.head /\ z.buffer = t.buffer
  BY <1>1 DEF Shape
<1>13. GraphView(z) = Less(GraphView(t), r)
  <2>1. \A u \in DOMAIN t.rowids : N[t.rowids[u]].vec = t.nodes[t.rowids[u]].vec
    BY <1>4, <1>9
  <2> QED BY <1>2, <1>7, <2>1 DEF GraphView, VecOfNode, Less
<1> QED BY <1>8, <1>11, <1>12, <1>13 DEF z

(* The page of every reference, where there is one.                        *)
LEMMA HintedFacts ==
  ASSUME NEW hints, hints, NEW mv, NEW t, NEW n, \A i \in DOMAIN t.pages.nodes : t.pages.nodes[i] \in Nat,
         NEW refs \in Seq(RefType), NEW z, z.pages = t.pages
  PROVE  /\ Hinted(t, n, refs) \in Seq(GoodRefs(z, hints, mv))
         /\ SameLinks(Hinted(t, n, refs), refs)
<1> DEFINE page(i) == IF refs[i].id < n THEN PageOf(t, "nodes", refs[i].id) ELSE 0
           h == Hinted(t, n, refs)
<1>1. DOMAIN refs = 1 .. Len(refs) /\ Len(refs) \in Nat /\ \A i \in DOMAIN refs : refs[i] \in RefType
  BY LenProperties, ElementOfSeq
<1>2. h = [i \in 1 .. Len(refs) |-> [refs[i] EXCEPT !.page = page(i)]]
  BY <1>1 DEF Hinted
<1>3. \A i \in 1 .. Len(refs) :
        /\ [refs[i] EXCEPT !.page = page(i)] \in GoodRefs(z, hints, mv)
        /\ [refs[i] EXCEPT !.page = page(i)].id = refs[i].id
        /\ [refs[i] EXCEPT !.page = page(i)].code = refs[i].code
  <2> TAKE i \in 1 .. Len(refs)
  <2>1. page(i) \in {0, PageOf(z, "nodes", refs[i].id)} /\ page(i) \in Nat
    BY DEF PageOf
  <2>2. refs[i] \in RefType
    BY <1>1
  <2> HIDE DEF page
  <2> QED BY <2>1, <2>2 DEF GoodRefs, RefType, HintOK
<1> HIDE DEF page, h
<1>4. h \in Seq(GoodRefs(z, hints, mv))
  <2> DEFINE new(i) == [refs[i] EXCEPT !.page = page(i)]
             G == GoodRefs(z, hints, mv)
  <2>1. \A i \in 1 .. Len(refs) : new(i) \in G
    BY <1>3
  <2>2. h = [i \in 1 .. Len(refs) |-> new(i)]
    BY <1>2
  <2> HIDE DEF new, G
  <2>3. h \in Seq(G)
    BY <1>1, <2>1, <2>2, IsASeq
  <2> QED BY <2>3 DEF G
<1>5. DOMAIN h = 1 .. Len(refs) /\ Len(h) = Len(refs)
  <2>1. DOMAIN h = 1 .. Len(refs)
    BY <1>2
  <2>2. Len(h) \in Nat /\ DOMAIN h = 1 .. Len(h)
    BY <1>4, LenProperties
  <2> QED BY <1>1, <2>1, <2>2
<1>6. \A i \in DOMAIN h : h[i].id = refs[i].id /\ h[i].code = refs[i].code
  BY <1>2, <1>3, <1>5
<1>7. SameLinks(h, refs)
  BY <1>1, <1>5, <1>6 DEF SameLinks
<1> QED BY <1>4, <1>7 DEF h

LEMMA FinalizeGraphFacts ==
  ASSUME NEW t, Shape(t), NEW next \in Nat, NEW old, NEW was, GraphBase(t, next, old, was),
         NEW m, m.next = next, m.head \in Seq(RefType),
         NEW hints \in BOOLEAN, hints, NEW mv \in BOOLEAN
  PROVE  LET z == FinalizeGraph(t, m)
         IN  /\ Shape(z) /\ z.state = t.state /\ z.buffer = t.buffer
             /\ GraphBase(z, next, hints, mv)
             /\ z.head \in Seq(GoodRefs(z, hints, mv)) /\ GraphView(z) = GraphView(t)
<1> DEFINE z == FinalizeGraph(t, m)
           new(i) == [t.nodes[i] EXCEPT !.nbrs = Hinted(t, next, t.nodes[i].nbrs)]
           N == [i \in DOMAIN t.nodes |-> new(i)]
           head == Hinted(t, next, m.head)
           G == GoodRefs(z, hints, mv)
<1>1. /\ \A i \in DOMAIN t.nodes : i \in Nat /\ i < next /\ t.nodes[i] \in NodeType
      /\ \A i \in DOMAIN t.pages.nodes : i \in Nat /\ i < next /\ t.pages.nodes[i] \in Nat
      /\ t.vectors = << >> /\ t.lists = << >> /\ GraphWhole(t)
  BY DEF GraphBase
<1>2. z = [buffer |-> t.buffer, nodes |-> N, rowids |-> t.rowids,
           vectors |-> t.vectors, lists |-> t.lists, head |-> head, state |-> t.state,
           pages |-> t.pages, top |-> t.top]
  <2> DEFINE K == [i \in DOMAIN t.nodes |->
                     IF i < m.next THEN [t.nodes[i] EXCEPT !.nbrs = Hinted(t, m.next, t.nodes[i].nbrs)]
                     ELSE t.nodes[i]]
  <2>1. z = [t EXCEPT !.nodes = K, !.head = head]
    BY DEF FinalizeGraph
  <2>2. K = N
    BY <1>1
  <2> HIDE DEF K, N, z, head
  <2> QED BY <2>1, <2>2 DEF Shape
<1> HIDE DEF z
<1>3. z.nodes = N /\ z.pages = t.pages /\ z.rowids = t.rowids
      /\ z.vectors = << >> /\ z.lists = << >> /\ z.head = head
  <2> HIDE DEF N, head
  <2> QED BY <1>1, <1>2
<1>4. ASSUME NEW i \in DOMAIN t.nodes
      PROVE  /\ N[i] \in NodeType /\ N[i].row = t.nodes[i].row /\ N[i].dead = t.nodes[i].dead
             /\ N[i].vec = t.nodes[i].vec /\ N[i].nbrs \in Seq(G)
             /\ SameLinks(N[i].nbrs, t.nodes[i].nbrs)
  <2> DEFINE node == t.nodes[i]
             h == Hinted(t, next, node.nbrs)
  <2>1. /\ node = [row |-> node.row, dead |-> node.dead, vec |-> node.vec, nbrs |-> node.nbrs]
        /\ node.row \in RowIds /\ node.dead \in BOOLEAN /\ node.vec \in Vecs
        /\ node.nbrs \in Seq(RefType)
    BY <1>1 DEF NodeType
  <2>2. N[i] = [node EXCEPT !.nbrs = h]
    OBVIOUS
  <2> HIDE DEF node, N, h
  <2>3. N[i] = [row |-> node.row, dead |-> node.dead, vec |-> node.vec, nbrs |-> h]
    BY <2>1, <2>2
  <2>4. h \in Seq(GoodRefs(z, hints, mv)) /\ SameLinks(h, node.nbrs)
    BY <1>1, <1>3, <2>1, HintedFacts DEF h
  <2>5. h \in Seq(RefType)
    <3>1. GoodRefs(z, hints, mv) \subseteq RefType
      BY DEF GoodRefs
    <3> HIDE DEF G
    <3> QED BY <2>4, <3>1, SeqMonotonic
  <2>6. N[i] \in NodeType
    BY <2>1, <2>3, <2>5 DEF NodeType
  <2>7. /\ N[i].row = node.row /\ N[i].dead = node.dead /\ N[i].vec = node.vec /\ N[i].nbrs = h
    BY <2>3
  <2> QED BY <2>4, <2>6, <2>7 DEF node
<1>5. DOMAIN N = DOMAIN t.nodes
  OBVIOUS
<1> HIDE DEF N
<1>6. head \in Seq(GoodRefs(z, hints, mv))
  BY <1>1, <1>3, HintedFacts
<1>7. GraphWhole(z)
  <2>1. DOMAIN z.nodes = DOMAIN t.nodes
    BY <1>3, <1>5
  <2>2. \A i \in DOMAIN t.nodes :
          z.nodes[i].vec = t.nodes[i].vec /\ SameLinks(z.nodes[i].nbrs, t.nodes[i].nbrs)
    BY <1>3, <1>4
  <2>0. /\ \A r \in DOMAIN t.rowids :
             /\ t.rowids[r] \in DOMAIN t.nodes
             /\ ~t.nodes[t.rowids[r]].dead /\ t.nodes[t.rowids[r]].row = r
        /\ \A i \in DOMAIN t.nodes : ~t.nodes[i].dead =>
             t.nodes[i].row \in DOMAIN t.rowids /\ t.rowids[t.nodes[i].row] = i
    BY <1>1 DEF GraphWhole
  <2>3. \A i \in DOMAIN t.nodes : ~z.nodes[i].dead =>
          z.nodes[i].row \in DOMAIN z.rowids /\ z.rowids[z.nodes[i].row] = i
    BY <1>3, <1>4, <2>0
  <2>4. \A r \in DOMAIN z.rowids :
          /\ z.rowids[r] \in DOMAIN t.nodes
          /\ ~z.nodes[z.rowids[r]].dead /\ z.nodes[z.rowids[r]].row = r
    <3> SUFFICES ASSUME NEW r \in DOMAIN t.rowids
                 PROVE  /\ t.rowids[r] \in DOMAIN t.nodes
                        /\ ~N[t.rowids[r]].dead /\ N[t.rowids[r]].row = r
      BY <1>3
    <3> QED BY <1>4, <2>0
  <2> QED BY <1>1, <2>1, <2>2, <2>3, <2>4, WholeWithSameLinks, Zenon
<1>8. GraphBase(z, next, hints, mv)
  <2>1. \A i \in DOMAIN z.nodes : /\ i \in Nat /\ i < next /\ z.nodes[i] \in NodeType
                                  /\ z.nodes[i].nbrs \in Seq(GoodRefs(z, hints, mv))
    BY <1>1, <1>3, <1>4, <1>5
  <2> QED BY <1>1, <1>3, <1>7, <2>1 DEF GraphBase
<1>9. Shape(z) /\ z.state = t.state /\ z.buffer = t.buffer
  BY <1>2 DEF Shape
<1>10. GraphView(z) = GraphView(t)
  <2>1. \A r \in DOMAIN t.rowids : t.rowids[r] \in DOMAIN t.nodes
    BY <1>1 DEF GraphWhole
  <2>2. \A r \in DOMAIN t.rowids : N[t.rowids[r]].vec = t.nodes[t.rowids[r]].vec
    BY <1>4, <2>1
  <2> QED BY <1>3, <2>2 DEF GraphView, VecOfNode
<1> QED BY <1>3, <1>6, <1>8, <1>9, <1>10 DEF z

-----------------------------------------------------------------------------
(***************************************************************************)
(* Tables laid out anew.                                                   *)
(***************************************************************************)
PagesFor(top, rows) == [k \in DOMAIN rows |-> top + 1 + Place(DOMAIN rows, k)]

LEMMA PagesForFacts ==
  ASSUME NEW top \in Nat, NEW rows, IsFiniteSet(DOMAIN rows), DOMAIN rows \subseteq Nat
  PROVE  /\ PagesFor(top, rows) \in [DOMAIN rows -> Nat]
         /\ Cardinality(DOMAIN rows) \in Nat /\ top + Cardinality(DOMAIN rows) \in Nat
<1> DEFINE D == DOMAIN rows
<1>1. Cardinality(D) \in Nat /\ \A k \in D : Place(D, k) \in 0 .. Cardinality(D) - 1
  <2> HIDE DEF D
  <2>1. IsFiniteSet(D) /\ D \subseteq Nat
    BY DEF D
  <2> QED BY <2>1, PlaceFacts
<1>2. \A k \in D : top + 1 + Place(D, k) \in Nat
  BY <1>1
<1> QED BY <1>1, <1>2 DEF PagesFor

LEMMA OverEmpty ==
  ASSUME NEW f, NEW g, DOMAIN g = {}
  PROVE  /\ DOMAIN Over(f, g) = DOMAIN f /\ \A k \in DOMAIN f : Over(f, g)[k] = f[k]
BY DEF Over

LEMMA OverSame ==
  ASSUME NEW f
  PROVE  /\ DOMAIN Over(f, f) = DOMAIN f /\ \A k \in DOMAIN f : Over(f, f)[k] = f[k]
BY DEF Over

LEMMA OverNone == Over(<< >>, << >>) = << >>
<1> DEFINE none == << >>
<1>1. DOMAIN none = {} /\ none = [k \in {} |-> 0]
  OBVIOUS
<1> HIDE DEF none
<1>2. Over(none, none) = [k \in {} |-> 0]
  BY <1>1 DEF Over
<1> QED BY <1>1, <1>2 DEF none

LEMMA LayNodes ==
  ASSUME NEW t, Shape(t), NEW rows
  PROVE  Lay(t, "nodes", rows) =
           [buffer |-> t.buffer, nodes |-> Over(rows, t.nodes), rowids |-> t.rowids,
            vectors |-> t.vectors, lists |-> t.lists, head |-> t.head, state |-> t.state,
            pages |-> [nodes |-> Over(PagesFor(t.top, rows), t.pages.nodes),
                       vectors |-> t.pages.vectors, lists |-> t.pages.lists],
            top |-> t.top + Cardinality(DOMAIN rows)]
<1> DEFINE z == Lay(t, "nodes", rows)
           P == Over(PagesFor(t.top, rows), t.pages.nodes)
           T == t.top + Cardinality(DOMAIN rows)
           N == Over(rows, t.nodes)
<1>1. z = [t EXCEPT !.nodes = N, !.pages = [t.pages EXCEPT !.nodes = P], !.top = T]
  BY DEF Lay, PagesFor
<1> HIDE DEF z, P, N, T
<1>2. [t.pages EXCEPT !.nodes = P] =
        [nodes |-> P, vectors |-> t.pages.vectors, lists |-> t.pages.lists]
  BY DEF Shape
<1>3. z = [buffer |-> t.buffer, nodes |-> N, rowids |-> t.rowids,
           vectors |-> t.vectors, lists |-> t.lists, head |-> t.head, state |-> t.state,
           pages |-> [nodes |-> P, vectors |-> t.pages.vectors, lists |-> t.pages.lists], top |-> T]
  BY <1>1, <1>2 DEF Shape
<1> QED BY <1>3 DEF z, P, N, T

LEMMA LayVectors ==
  ASSUME NEW t, Shape(t), NEW rows
  PROVE  Lay(t, "vectors", rows) =
           [buffer |-> t.buffer, nodes |-> t.nodes, rowids |-> t.rowids,
            vectors |-> Over(rows, t.vectors), lists |-> t.lists, head |-> t.head, state |-> t.state,
            pages |-> [nodes |-> t.pages.nodes,
                       vectors |-> Over(PagesFor(t.top, rows), t.pages.vectors), lists |-> t.pages.lists],
            top |-> t.top + Cardinality(DOMAIN rows)]
<1> DEFINE z == Lay(t, "vectors", rows)
           P == Over(PagesFor(t.top, rows), t.pages.vectors)
           T == t.top + Cardinality(DOMAIN rows)
           V == Over(rows, t.vectors)
<1>1. z = [t EXCEPT !.vectors = V, !.pages = [t.pages EXCEPT !.vectors = P], !.top = T]
  BY DEF Lay, PagesFor
<1> HIDE DEF z, P, V, T
<1>2. [t.pages EXCEPT !.vectors = P] =
        [nodes |-> t.pages.nodes, vectors |-> P, lists |-> t.pages.lists]
  BY DEF Shape
<1>3. z = [buffer |-> t.buffer, nodes |-> t.nodes, rowids |-> t.rowids,
           vectors |-> V, lists |-> t.lists, head |-> t.head, state |-> t.state,
           pages |-> [nodes |-> t.pages.nodes, vectors |-> P, lists |-> t.pages.lists], top |-> T]
  BY <1>1, <1>2 DEF Shape
<1> QED BY <1>3 DEF z, P, V, T

LEMMA LayLists ==
  ASSUME NEW t, Shape(t), NEW rows
  PROVE  Lay(t, "lists", rows) =
           [buffer |-> t.buffer, nodes |-> t.nodes, rowids |-> t.rowids,
            vectors |-> t.vectors, lists |-> Over(rows, t.lists), head |-> t.head, state |-> t.state,
            pages |-> [nodes |-> t.pages.nodes, vectors |-> t.pages.vectors,
                       lists |-> Over(PagesFor(t.top, rows), t.pages.lists)],
            top |-> t.top + Cardinality(DOMAIN rows)]
<1> DEFINE z == Lay(t, "lists", rows)
           P == Over(PagesFor(t.top, rows), t.pages.lists)
           T == t.top + Cardinality(DOMAIN rows)
           C == Over(rows, t.lists)
<1>1. z = [t EXCEPT !.lists = C, !.pages = [t.pages EXCEPT !.lists = P], !.top = T]
  BY DEF Lay, PagesFor
<1> HIDE DEF z, P, C, T
<1>2. [t.pages EXCEPT !.lists = P] =
        [nodes |-> t.pages.nodes, vectors |-> t.pages.vectors, lists |-> P]
  BY DEF Shape
<1>3. z = [buffer |-> t.buffer, nodes |-> t.nodes, rowids |-> t.rowids,
           vectors |-> t.vectors, lists |-> C, head |-> t.head, state |-> t.state,
           pages |-> [nodes |-> t.pages.nodes, vectors |-> t.pages.vectors, lists |-> P], top |-> T]
  BY <1>1, <1>2 DEF Shape
<1> QED BY <1>3 DEF z, P, C, T

-----------------------------------------------------------------------------
(***************************************************************************)
(* VACUUM gives every row another page.                                    *)
(***************************************************************************)
SameFunction(f, g) == DOMAIN f = DOMAIN g /\ \A k \in DOMAIN g : f[k] = g[k]

(* What a copy keeps.                                                      *)
Copied(z, t) ==
  /\ z.state = t.state /\ z.head = t.head /\ z.buffer = t.buffer /\ z.rowids = t.rowids
  /\ SameFunction(z.nodes, t.nodes) /\ SameFunction(z.vectors, t.vectors)
  /\ SameFunction(z.lists, t.lists)
  /\ t.nodes = << >> => z.nodes = << >>
  /\ t.vectors = << >> => z.vectors = << >>
  /\ t.lists = << >> => z.lists = << >>

LEMMA OverItself ==
  ASSUME NEW f PROVE SameFunction(Over(f, f), f) /\ (f = << >> => Over(f, f) = << >>)
<1>1. SameFunction(Over(f, f), f)
  BY OverSame DEF SameFunction
<1>2. f = << >> => Over(f, f) = << >>
  BY OverNone
<1> QED BY <1>1, <1>2

LEMMA PagesAnew ==
  ASSUME NEW top \in Nat, NEW rows, IsFiniteSet(DOMAIN rows), DOMAIN rows \subseteq Nat,
         NEW none, DOMAIN none = {}
  PROVE  LET p == Over(PagesFor(top, rows), none)
         IN DOMAIN p = DOMAIN rows /\ \A k \in DOMAIN rows : p[k] \in Nat
<1>1. PagesFor(top, rows) \in [DOMAIN rows -> Nat]
  BY PagesForFacts
<1>2. /\ DOMAIN Over(PagesFor(top, rows), none) = DOMAIN PagesFor(top, rows)
      /\ \A k \in DOMAIN PagesFor(top, rows) :
           Over(PagesFor(top, rows), none)[k] = PagesFor(top, rows)[k]
  BY OverEmpty
<1> QED BY <1>1, <1>2

LEMMA VacuumFacts ==
  ASSUME NEW t, Shape(t),
         IsFiniteSet(DOMAIN t.nodes), DOMAIN t.nodes \subseteq Nat,
         IsFiniteSet(DOMAIN t.vectors), DOMAIN t.vectors \subseteq Nat,
         IsFiniteSet(DOMAIN t.lists), DOMAIN t.lists \subseteq Nat
  PROVE  LET z == VacuumFile(t)
         IN  /\ Shape(z) /\ Copied(z, t)
             /\ DOMAIN z.pages.nodes = DOMAIN t.nodes
             /\ \A k \in DOMAIN t.nodes : z.pages.nodes[k] \in Nat
             /\ DOMAIN z.pages.vectors = DOMAIN t.vectors
             /\ \A k \in DOMAIN t.vectors : z.pages.vectors[k] \in Nat
<1> DEFINE none == << >>
           e1 == [t EXCEPT !.pages = EmptyFile.pages, !.top = 0]
           e2 == Lay(e1, "nodes", t.nodes)
           e3 == Lay(e2, "vectors", t.vectors)
           z == VacuumFile(t)
           P1 == Over(PagesFor(0, t.nodes), none)
           T1 == Cardinality(DOMAIN t.nodes)
           P2 == Over(PagesFor(T1, t.vectors), none)
           T2 == T1 + Cardinality(DOMAIN t.vectors)
           P3 == Over(PagesFor(T2, t.lists), none)
           T3 == T2 + Cardinality(DOMAIN t.lists)
<1>0. T1 \in Nat /\ T2 \in Nat /\ T3 \in Nat
  <2>1. T1 \in Nat
    BY FS_CardinalityType
  <2>2. T2 \in Nat
    BY <2>1, FS_CardinalityType
  <2>3. T3 \in Nat
    BY <2>2, FS_CardinalityType
  <2> QED BY <2>1, <2>2, <2>3
<1>1. EmptyFile.pages = [nodes |-> none, vectors |-> none, lists |-> none]
  BY DEF EmptyFile
<1>2. z = Lay(e3, "lists", t.lists)
  BY DEF VacuumFile
<1>3. DOMAIN none = {}
  OBVIOUS
<1> HIDE DEF none, z
<1>4. e1 = [buffer |-> t.buffer, nodes |-> t.nodes, rowids |-> t.rowids,
            vectors |-> t.vectors, lists |-> t.lists, head |-> t.head, state |-> t.state,
            pages |-> [nodes |-> none, vectors |-> none, lists |-> none], top |-> 0]
  <2> DEFINE pp == EmptyFile.pages
  <2>1. e1 = [t EXCEPT !.pages = pp, !.top = 0]
    OBVIOUS
  <2>2. pp = [nodes |-> none, vectors |-> none, lists |-> none]
    BY <1>1
  <2> HIDE DEF pp, e1
  <2>3. e1 = [buffer |-> t.buffer, nodes |-> t.nodes, rowids |-> t.rowids,
              vectors |-> t.vectors, lists |-> t.lists, head |-> t.head, state |-> t.state,
              pages |-> pp, top |-> 0]
    BY <2>1 DEF Shape
  <2> QED BY <2>2, <2>3
<1> HIDE DEF e1
<1>5. /\ Shape(e1) /\ e1.top = 0 /\ e1.nodes = t.nodes
      /\ e1.pages = [nodes |-> none, vectors |-> none, lists |-> none]
  <2>1. /\ e1.buffer = t.buffer /\ e1.nodes = t.nodes /\ e1.rowids = t.rowids
        /\ e1.vectors = t.vectors /\ e1.lists = t.lists /\ e1.head = t.head /\ e1.state = t.state
        /\ e1.pages = [nodes |-> none, vectors |-> none, lists |-> none] /\ e1.top = 0
    BY <1>4
  <2>2. e1.pages.nodes = none /\ e1.pages.vectors = none /\ e1.pages.lists = none
    BY <2>1
  <2> QED BY <1>4, <2>1, <2>2 DEF Shape
<1>6. e2 = [buffer |-> t.buffer, nodes |-> Over(t.nodes, t.nodes), rowids |-> t.rowids,
            vectors |-> t.vectors, lists |-> t.lists, head |-> t.head, state |-> t.state,
            pages |-> [nodes |-> P1, vectors |-> none, lists |-> none], top |-> T1]
  <2>1. e2 = [buffer |-> e1.buffer, nodes |-> Over(t.nodes, e1.nodes), rowids |-> e1.rowids,
              vectors |-> e1.vectors, lists |-> e1.lists, head |-> e1.head, state |-> e1.state,
              pages |-> [nodes |-> Over(PagesFor(e1.top, t.nodes), e1.pages.nodes),
                         vectors |-> e1.pages.vectors, lists |-> e1.pages.lists],
              top |-> e1.top + Cardinality(DOMAIN t.nodes)]
    BY <1>5, LayNodes
  <2>2. e1.pages.nodes = none /\ e1.pages.vectors = none /\ e1.pages.lists = none
        /\ e1.top + Cardinality(DOMAIN t.nodes) = T1
    BY <1>0, <1>5
  <2> HIDE DEF T1, e2
  <2>3. Over(PagesFor(e1.top, t.nodes), e1.pages.nodes) = P1
    BY <1>5, <2>2
  <2> HIDE DEF P1
  <2>4. /\ e1.buffer = t.buffer /\ e1.nodes = t.nodes /\ e1.rowids = t.rowids
        /\ e1.vectors = t.vectors /\ e1.lists = t.lists /\ e1.head = t.head /\ e1.state = t.state
    BY <1>4
  <2> QED BY <2>1, <2>2, <2>3, <2>4
<1> HIDE DEF e2, P1, T1
<1>7. Shape(e2)
  <2>1. /\ e2.buffer = t.buffer /\ e2.nodes = Over(t.nodes, t.nodes) /\ e2.rowids = t.rowids
        /\ e2.vectors = t.vectors /\ e2.lists = t.lists /\ e2.head = t.head /\ e2.state = t.state
        /\ e2.pages = [nodes |-> P1, vectors |-> none, lists |-> none] /\ e2.top = T1
    BY <1>6
  <2>2. e2.pages.nodes = P1 /\ e2.pages.vectors = none /\ e2.pages.lists = none
    BY <2>1
  <2> QED BY <1>0, <1>6, <2>1, <2>2 DEF Shape
<1>8. e3 = [buffer |-> t.buffer, nodes |-> Over(t.nodes, t.nodes), rowids |-> t.rowids,
            vectors |-> Over(t.vectors, t.vectors), lists |-> t.lists, head |-> t.head,
            state |-> t.state,
            pages |-> [nodes |-> P1, vectors |-> P2, lists |-> none], top |-> T2]
  <2>1. e3 = [buffer |-> e2.buffer, nodes |-> e2.nodes, rowids |-> e2.rowids,
              vectors |-> Over(t.vectors, e2.vectors), lists |-> e2.lists, head |-> e2.head,
              state |-> e2.state,
              pages |-> [nodes |-> e2.pages.nodes,
                         vectors |-> Over(PagesFor(e2.top, t.vectors), e2.pages.vectors),
                         lists |-> e2.pages.lists],
              top |-> e2.top + Cardinality(DOMAIN t.vectors)]
    BY <1>7, LayVectors
  <2>2. e2.pages.nodes = P1 /\ e2.pages.vectors = none /\ e2.pages.lists = none
        /\ e2.top = T1
    BY <1>6
  <2>3. Over(PagesFor(e2.top, t.vectors), e2.pages.vectors) = P2
        /\ e2.top + Cardinality(DOMAIN t.vectors) = T2
    BY <2>2
  <2> HIDE DEF P2, T2, e3
  <2>4. /\ e2.buffer = t.buffer /\ e2.nodes = Over(t.nodes, t.nodes) /\ e2.rowids = t.rowids
        /\ e2.vectors = t.vectors /\ e2.lists = t.lists /\ e2.head = t.head /\ e2.state = t.state
    BY <1>6
  <2> QED BY <2>1, <2>2, <2>3, <2>4
<1> HIDE DEF e3, P2, T2
<1>9. Shape(e3)
  <2>1. /\ e3.buffer = t.buffer /\ e3.nodes = Over(t.nodes, t.nodes) /\ e3.rowids = t.rowids
        /\ e3.vectors = Over(t.vectors, t.vectors) /\ e3.lists = t.lists /\ e3.head = t.head
        /\ e3.state = t.state
        /\ e3.pages = [nodes |-> P1, vectors |-> P2, lists |-> none] /\ e3.top = T2
    BY <1>8
  <2>2. e3.pages.nodes = P1 /\ e3.pages.vectors = P2 /\ e3.pages.lists = none
    BY <2>1
  <2> QED BY <1>0, <1>8, <2>1, <2>2 DEF Shape
<1>10. z = [buffer |-> t.buffer, nodes |-> Over(t.nodes, t.nodes), rowids |-> t.rowids,
            vectors |-> Over(t.vectors, t.vectors), lists |-> Over(t.lists, t.lists),
            head |-> t.head, state |-> t.state,
            pages |-> [nodes |-> P1, vectors |-> P2, lists |-> P3], top |-> T3]
  <2>1. z = [buffer |-> e3.buffer, nodes |-> e3.nodes, rowids |-> e3.rowids,
             vectors |-> e3.vectors, lists |-> Over(t.lists, e3.lists), head |-> e3.head,
             state |-> e3.state,
             pages |-> [nodes |-> e3.pages.nodes, vectors |-> e3.pages.vectors,
                        lists |-> Over(PagesFor(e3.top, t.lists), e3.pages.lists)],
             top |-> e3.top + Cardinality(DOMAIN t.lists)]
    BY <1>2, <1>9, LayLists
  <2>2. e3.pages.nodes = P1 /\ e3.pages.vectors = P2 /\ e3.pages.lists = none
        /\ e3.top = T2
    BY <1>8
  <2>3. Over(PagesFor(e3.top, t.lists), e3.pages.lists) = P3
        /\ e3.top + Cardinality(DOMAIN t.lists) = T3
    BY <2>2
  <2> HIDE DEF P3, T3
  <2>4. /\ e3.buffer = t.buffer /\ e3.nodes = Over(t.nodes, t.nodes) /\ e3.rowids = t.rowids
        /\ e3.vectors = Over(t.vectors, t.vectors) /\ e3.lists = t.lists /\ e3.head = t.head
        /\ e3.state = t.state
    BY <1>8
  <2> QED BY <2>1, <2>2, <2>3, <2>4
<1> HIDE DEF P3, T3
<1>11. /\ z.buffer = t.buffer /\ z.nodes = Over(t.nodes, t.nodes) /\ z.rowids = t.rowids
       /\ z.vectors = Over(t.vectors, t.vectors) /\ z.lists = Over(t.lists, t.lists)
       /\ z.head = t.head /\ z.state = t.state
       /\ z.pages = [nodes |-> P1, vectors |-> P2, lists |-> P3] /\ z.top = T3
  BY <1>10
<1>12. z.pages.nodes = P1 /\ z.pages.vectors = P2 /\ z.pages.lists = P3
  BY <1>11
<1>13. Shape(z)
  BY <1>0, <1>10, <1>11, <1>12 DEF Shape
<1>14. Copied(z, t)
  BY <1>11, OverItself DEF Copied
<1>15. DOMAIN P1 = DOMAIN t.nodes /\ \A k \in DOMAIN t.nodes : P1[k] \in Nat
  <2>1. 0 \in Nat
    OBVIOUS
  <2> QED BY <1>3, <2>1, PagesAnew DEF P1
<1>16. DOMAIN P2 = DOMAIN t.vectors /\ \A k \in DOMAIN t.vectors : P2[k] \in Nat
  BY <1>0, <1>3, PagesAnew DEF P2
<1> QED BY <1>12, <1>13, <1>14, <1>15, <1>16 DEF z

LEMMA NoHintsNoPages ==
  ASSUME NEW t, NEW z, NEW hints \in BOOLEAN, NEW mv, NEW now, hints => now
  PROVE  /\ GoodRefs(t, hints, mv) \subseteq GoodRefs(z, hints, now)
         /\ \A tab, id, page : HintOK(t, tab, id, page, hints, mv) => HintOK(z, tab, id, page, hints, now)
<1>1. \A tab, id, page : HintOK(t, tab, id, page, hints, mv) => HintOK(z, tab, id, page, hints, now)
  BY DEF HintOK
<1> QED BY <1>1 DEF GoodRefs

LEMMA BoundedIsFinite ==
  ASSUME NEW n \in Nat, NEW S, \A i \in S : i \in Nat /\ i < n
  PROVE  IsFiniteSet(S) /\ S \subseteq Nat
<1>1. S \subseteq 0 .. n - 1
  OBVIOUS
<1> QED BY <1>1, IntervalSize, FS_Subset

LEMMA VacuumGraphFacts ==
  ASSUME NEW t, Shape(t), NEW next \in Nat, NEW hints \in BOOLEAN, NEW mv \in BOOLEAN,
         GraphBase(t, next, hints, mv), NEW now \in BOOLEAN, hints => now
  PROVE  LET z == VacuumFile(t)
         IN  /\ Shape(z) /\ z.state = t.state /\ z.buffer = t.buffer /\ z.head = t.head
             /\ GraphBase(z, next, hints, now)
             /\ GoodRefs(t, hints, mv) \subseteq GoodRefs(z, hints, now)
             /\ GraphView(z) = GraphView(t)
<1> DEFINE z == VacuumFile(t)
<1>1. /\ t.vectors = << >> /\ t.lists = << >> /\ DOMAIN t.vectors = {} /\ DOMAIN t.lists = {}
      /\ \A i \in DOMAIN t.nodes :
           /\ i \in Nat /\ i < next
           /\ t.nodes[i] \in NodeType /\ t.nodes[i].nbrs \in Seq(GoodRefs(t, hints, mv))
      /\ GraphWhole(t)
  BY DEF GraphBase
<1>2. IsFiniteSet(DOMAIN t.nodes) /\ DOMAIN t.nodes \subseteq Nat
  BY <1>1, BoundedIsFinite
<1>3. IsFiniteSet({})
  BY FS_EmptySet
<1>4. /\ Shape(z) /\ Copied(z, t)
      /\ DOMAIN z.pages.nodes = DOMAIN t.nodes
      /\ \A k \in DOMAIN t.nodes : z.pages.nodes[k] \in Nat
  BY <1>1, <1>2, <1>3, VacuumFacts
<1> HIDE DEF z
<1>5. /\ DOMAIN z.nodes = DOMAIN t.nodes /\ \A i \in DOMAIN t.nodes : z.nodes[i] = t.nodes[i]
      /\ z.vectors = << >> /\ z.lists = << >> /\ z.rowids = t.rowids
      /\ z.state = t.state /\ z.head = t.head /\ z.buffer = t.buffer
  BY <1>1, <1>4 DEF Copied, SameFunction
<1>6. GoodRefs(t, hints, mv) \subseteq GoodRefs(z, hints, now)
  BY NoHintsNoPages
<1>7. GraphWhole(z)
  <2>0. /\ \A r \in DOMAIN t.rowids :
             /\ t.rowids[r] \in DOMAIN t.nodes
             /\ ~t.nodes[t.rowids[r]].dead /\ t.nodes[t.rowids[r]].row = r
        /\ \A i \in DOMAIN t.nodes : ~t.nodes[i].dead =>
             t.nodes[i].row \in DOMAIN t.rowids /\ t.rowids[t.nodes[i].row] = i
    BY <1>1 DEF GraphWhole
  <2>2. \A i \in DOMAIN t.nodes :
          z.nodes[i].vec = t.nodes[i].vec /\ SameLinks(z.nodes[i].nbrs, t.nodes[i].nbrs)
    BY <1>5 DEF SameLinks
  <2>3. \A i \in DOMAIN t.nodes : ~z.nodes[i].dead =>
          z.nodes[i].row \in DOMAIN z.rowids /\ z.rowids[z.nodes[i].row] = i
    BY <1>5, <2>0
  <2>4. \A r \in DOMAIN z.rowids :
          /\ z.rowids[r] \in DOMAIN t.nodes
          /\ ~z.nodes[z.rowids[r]].dead /\ z.nodes[z.rowids[r]].row = r
    BY <1>5, <2>0
  <2> QED BY <1>1, <1>5, <2>2, <2>3, <2>4, WholeWithSameLinks, Zenon
<1>8. \A i \in DOMAIN z.nodes :
        /\ i \in Nat /\ i < next
        /\ z.nodes[i] \in NodeType /\ z.nodes[i].nbrs \in Seq(GoodRefs(z, hints, now))
  <2> TAKE i \in DOMAIN z.nodes
  <2>1. i \in DOMAIN t.nodes /\ z.nodes[i] = t.nodes[i]
    BY <1>5
  <2>2. t.nodes[i].nbrs \in Seq(GoodRefs(z, hints, now))
    BY <1>1, <1>6, <2>1, SeqMonotonic
  <2> QED BY <1>1, <2>1, <2>2
<1>9. \A i \in DOMAIN z.pages.nodes : i \in Nat /\ i < next /\ z.pages.nodes[i] \in Nat
  BY <1>1, <1>4
<1>10. GraphBase(z, next, hints, now)
  BY <1>5, <1>7, <1>8, <1>9 DEF GraphBase
<1>11. GraphView(z) = GraphView(t)
  <2>1. \A r \in DOMAIN t.rowids : t.rowids[r] \in DOMAIN t.nodes
    BY <1>1 DEF GraphWhole
  <2> QED BY <1>5, <2>1 DEF GraphView, VecOfNode
<1> QED BY <1>4, <1>5, <1>6, <1>10, <1>11 DEF z

-----------------------------------------------------------------------------
(***************************************************************************)
(* do_build on the graph layout.                                           *)
(***************************************************************************)
(* The rows to build from, numbered in order of rowid.                     *)
Numbered(rows) ==
  [i \in 1 .. Cardinality(DOMAIN rows) |->
     [id |-> i - 1, page |-> 0, code |-> rows[Nth(DOMAIN rows, i - 1)]]]

LEMMA NumberedFacts ==
  ASSUME NEW rows, Buffer(rows)
  PROVE  LET n == Cardinality(DOMAIN rows)
         IN  /\ IsFiniteSet(DOMAIN rows) /\ DOMAIN rows \subseteq Nat /\ n \in Nat
             /\ \A i \in 0 .. n - 1 : Nth(DOMAIN rows, i) \in DOMAIN rows
                                      /\ Place(DOMAIN rows, Nth(DOMAIN rows, i)) = i
             /\ \A r \in DOMAIN rows : Place(DOMAIN rows, r) \in 0 .. n - 1
                                       /\ Nth(DOMAIN rows, Place(DOMAIN rows, r)) = r
             /\ Numbered(rows) \in Seq(RefType) /\ DOMAIN Numbered(rows) = 1 .. n
             /\ Distinct(Numbered(rows))
<1> DEFINE D == DOMAIN rows
           n == Cardinality(D)
<1>1. D \subseteq RowIds /\ D \subseteq Nat /\ \A r \in D : rows[r] \in Vecs
  BY FileAssumption DEF Buffer
<1>2. IsFiniteSet(D)
  BY <1>1, FileAssumption, FS_Subset
<1>3. /\ n \in Nat /\ \A k \in D : Place(D, k) \in 0 .. n - 1
      /\ \A k, l \in D : Place(D, k) = Place(D, l) => k = l
      /\ \A i \in 0 .. n - 1 : Nth(D, i) \in D /\ Place(D, Nth(D, i)) = i
  <2> HIDE DEF D
  <2> QED BY <1>1, <1>2, PlaceFacts
<1>4. \A r \in D : Nth(D, Place(D, r)) = r
  BY <1>3
<1> DEFINE rec(i) == [id |-> i - 1, page |-> 0, code |-> rows[Nth(D, i - 1)]]
<1>5. \A i \in 1 .. n : rec(i) \in RefType /\ rec(i).id = i - 1
  <2> TAKE i \in 1 .. n
  <2>1. i - 1 \in 0 .. n - 1 /\ i - 1 \in Nat
    BY <1>3
  <2>2. rows[Nth(D, i - 1)] \in Nat
    BY <1>1, <1>3, <2>1, CodeIsNat
  <2> QED BY <2>1, <2>2 DEF RefType
<1>6. Numbered(rows) = [i \in 1 .. n |-> rec(i)]
  BY DEF Numbered
<1> HIDE DEF rec, n, D
<1>7. Numbered(rows) \in Seq(RefType)
  BY <1>3, <1>5, <1>6, IsASeq
<1>8. DOMAIN Numbered(rows) = 1 .. n
  BY <1>6
<1>9. Distinct(Numbered(rows))
  <2> SUFFICES ASSUME NEW a \in 1 .. n, NEW b \in 1 .. n,
                      Numbered(rows)[a].id = Numbered(rows)[b].id
               PROVE  a = b
    BY <1>8 DEF Distinct
  <2>1. a - 1 = b - 1
    BY <1>5, <1>6
  <2> QED BY <1>3, <2>1
<1> QED BY <1>1, <1>2, <1>3, <1>4, <1>7, <1>8, <1>9 DEF n, D

(* A list of nodes of the build, taken from all but some, with codes.      *)
LEMMA CodedFacts ==
  ASSUME NEW rows, Buffer(rows), NEW I \in SUBSET DOMAIN Numbered(rows), NEW T, NEW u \in Seq(T),
         PickedFrom(u, Sub(Numbered(rows), I)), NEW z, NEW hints, NEW mv
  PROVE  LET n == Cardinality(DOMAIN rows)
         IN  /\ Coded(u) \in Seq(GoodRefs(z, hints, mv))
             /\ Len(Coded(u)) = Len(u) /\ Distinct(Coded(u))
             /\ \A a \in DOMAIN Coded(u) :
                  /\ Coded(u)[a].id \in 0 .. n - 1 /\ Coded(u)[a].id + 1 \in I
                  /\ Coded(u)[a].code = CodeOf[rows[Nth(DOMAIN rows, Coded(u)[a].id)]]
<1> DEFINE n == Cardinality(DOMAIN rows)
           all == Numbered(rows)
           sub == Sub(all, I)
           G == GoodRefs(z, hints, mv)
           c == Coded(u)
<1>1. /\ all \in Seq(RefType) /\ DOMAIN all = 1 .. n /\ Distinct(all) /\ n \in Nat
      /\ \A i \in 0 .. n - 1 : Nth(DOMAIN rows, i) \in DOMAIN rows
  BY NumberedFacts
<1>2. \A k \in 1 .. n : /\ all[k].id = k - 1 /\ all[k].page = 0
                        /\ all[k].code = rows[Nth(DOMAIN rows, k - 1)] /\ all[k].code \in Vecs
  <2> TAKE k \in 1 .. n
  <2>1. k - 1 \in 0 .. n - 1
    BY <1>1
  <2>2. rows[Nth(DOMAIN rows, k - 1)] \in Vecs
    BY <1>1, <2>1 DEF Buffer
  <2> QED BY <2>2 DEF Numbered
<1> HIDE DEF all
<1>3. PICK f \in [DOMAIN sub -> I] :
        /\ \A k \in DOMAIN sub : sub[k] = all[f[k]]
        /\ \A k, l \in DOMAIN sub : f[k] = f[l] => k = l
  <2>1. I \in SUBSET DOMAIN all
    BY DEF all
  <2> QED BY <1>1, <2>1, SubFacts
<1>4. PICK g \in [DOMAIN u -> DOMAIN sub] :
        /\ \A k \in DOMAIN u : u[k].id = sub[g[k]].id /\ u[k].page = sub[g[k]].page
                               /\ u[k].code = sub[g[k]].code
        /\ \A k, l \in DOMAIN u : g[k] = g[l] => k = l
  BY DEF PickedFrom, all
<1> HIDE DEF sub
<1>5. I \subseteq 1 .. n
  BY <1>1 DEF all
<1>6. ASSUME NEW k \in DOMAIN u
      PROVE  /\ f[g[k]] \in I /\ f[g[k]] \in 1 .. n
             /\ u[k].id = f[g[k]] - 1 /\ u[k].page = 0
             /\ u[k].code = rows[Nth(DOMAIN rows, u[k].id)] /\ u[k].code \in Vecs
  <2>1. g[k] \in DOMAIN sub /\ f[g[k]] \in I /\ sub[g[k]] = all[f[g[k]]]
    BY <1>3, <1>4
  <2>2. f[g[k]] \in 1 .. n
    BY <1>5, <2>1
  <2> QED BY <1>2, <1>4, <2>1, <2>2
<1>7. DOMAIN u = 1 .. Len(u) /\ Len(u) \in Nat
  BY LenProperties
<1> DEFINE rec(k) == Ref(u[k].id, u[k].page, u[k].code)
<1>8. \A k \in 1 .. Len(u) : /\ rec(k) \in G /\ rec(k).id = u[k].id
                             /\ rec(k).code = CodeOf[u[k].code]
  <2> TAKE k \in 1 .. Len(u)
  <2>1. u[k].id \in Nat /\ u[k].page = 0 /\ CodeOf[u[k].code] \in Nat
    BY <1>1, <1>6, <1>7, CodeIsNat
  <2> QED BY <2>1 DEF Ref, GoodRefs, RefType, HintOK
<1>9. c = [k \in 1 .. Len(u) |-> rec(k)]
  BY <1>7 DEF Coded
<1> HIDE DEF rec, G, c
<1>10. c \in Seq(G)
  BY <1>7, <1>8, <1>9, IsASeq
<1>11. DOMAIN c = 1 .. Len(u) /\ Len(c) = Len(u)
  <2>1. DOMAIN c = 1 .. Len(u)
    BY <1>9
  <2>2. Len(c) \in Nat /\ DOMAIN c = 1 .. Len(c)
    BY <1>10, LenProperties
  <2> QED BY <1>7, <2>1, <2>2
<1>12. \A k \in 1 .. Len(u) : c[k].id = u[k].id /\ c[k].code = CodeOf[u[k].code]
  BY <1>8, <1>9
<1>13. Distinct(c)
  <2> SUFFICES ASSUME NEW a \in 1 .. Len(u), NEW b \in 1 .. Len(u), c[a].id = c[b].id PROVE a = b
    BY <1>11 DEF Distinct
  <2>1. a \in DOMAIN u /\ b \in DOMAIN u
    BY <1>7
  <2>2. f[g[a]] - 1 = f[g[b]] - 1 /\ f[g[a]] \in 1 .. n /\ f[g[b]] \in 1 .. n
    BY <1>6, <1>12, <2>1
  <2>3. f[g[a]] = f[g[b]]
    BY <1>1, <2>2
  <2>4. g[a] \in DOMAIN sub /\ g[b] \in DOMAIN sub
    BY <1>4, <2>1
  <2> QED BY <1>3, <1>4, <2>1, <2>3, <2>4
<1>14. \A a \in DOMAIN c :
         /\ c[a].id \in 0 .. n - 1 /\ c[a].id + 1 \in I
         /\ c[a].code = CodeOf[rows[Nth(DOMAIN rows, c[a].id)]]
  <2> TAKE a \in DOMAIN c
  <2>1. a \in DOMAIN u /\ c[a].id = u[a].id /\ c[a].code = CodeOf[u[a].code]
    BY <1>7, <1>11, <1>12
  <2>2. c[a].id = f[g[a]] - 1 /\ f[g[a]] \in 1 .. n /\ f[g[a]] \in I
    BY <1>6, <2>1
  <2>3. c[a].id \in 0 .. n - 1 /\ c[a].id + 1 = f[g[a]]
    BY <1>1, <2>2
  <2> QED BY <1>6, <2>1, <2>2, <2>3
<1> QED BY <1>10, <1>11, <1>13, <1>14 DEF G, c

LEMMA PickedItself ==
  ASSUME NEW u PROVE PickedFrom(u, u)
<1> DEFINE f == [k \in DOMAIN u |-> k]
<1>1. f \in [DOMAIN u -> DOMAIN u] /\ \A k \in DOMAIN u : f[k] = k
  OBVIOUS
<1> HIDE DEF f
<1> QED BY <1>1 DEF PickedFrom

LEMMA PickedTwice ==
  ASSUME NEW u, NEW v, NEW w, PickedFrom(u, v), PickedFrom(v, w) PROVE PickedFrom(u, w)
<1>1. PICK f \in [DOMAIN u -> DOMAIN v] :
        /\ \A n \in DOMAIN u : u[n].id = v[f[n]].id /\ u[n].page = v[f[n]].page /\ u[n].code = v[f[n]].code
        /\ \A m, n \in DOMAIN u : f[m] = f[n] => m = n
  BY DEF PickedFrom
<1>2. PICK g \in [DOMAIN v -> DOMAIN w] :
        /\ \A n \in DOMAIN v : v[n].id = w[g[n]].id /\ v[n].page = w[g[n]].page /\ v[n].code = w[g[n]].code
        /\ \A m, n \in DOMAIN v : g[m] = g[n] => m = n
  BY DEF PickedFrom
<1> DEFINE h == [n \in DOMAIN u |-> g[f[n]]]
<1>3. \A n \in DOMAIN u : f[n] \in DOMAIN v /\ h[n] = g[f[n]] /\ h[n] \in DOMAIN w
  BY <1>1, <1>2
<1>4. h \in [DOMAIN u -> DOMAIN w]
  BY <1>3
<1> HIDE DEF h
<1>5. \A n \in DOMAIN u : u[n].id = w[h[n]].id /\ u[n].page = w[h[n]].page /\ u[n].code = w[h[n]].code
  BY <1>1, <1>2, <1>3
<1>6. \A m, n \in DOMAIN u : h[m] = h[n] => m = n
  BY <1>1, <1>2, <1>3
<1> QED BY <1>4, <1>5, <1>6 DEF PickedFrom

(* The list a build gives a node: others than itself.                      *)
BuiltNbrs(rows, i) ==
  LET all == Numbered(rows)
  IN Coded(SelectNbrs(Around(all[i].code, Sub(all, DOMAIN all \ {i}))))

LEMMA BuiltNbrsFacts ==
  ASSUME NEW rows, Buffer(rows), NEW i \in 1 .. Cardinality(DOMAIN rows), NEW z, NEW hints, NEW mv
  PROVE  LET c == BuiltNbrs(rows, i)
         IN  /\ c \in Seq(GoodRefs(z, hints, mv)) /\ Len(c) <= M0 /\ Distinct(c)
             /\ \A a \in DOMAIN c :
                  /\ c[a].id \in 0 .. Cardinality(DOMAIN rows) - 1 /\ c[a].id # i - 1
                  /\ c[a].code = CodeOf[rows[Nth(DOMAIN rows, c[a].id)]]
<1> DEFINE n == Cardinality(DOMAIN rows)
           all == Numbered(rows)
           I == DOMAIN all \ {i}
           x == all[i].code
           sub == Sub(all, I)
           near == Around(x, sub)
           u == SelectNbrs(near)
           c == BuiltNbrs(rows, i)
<1>1. all \in Seq(RefType) /\ DOMAIN all = 1 .. n /\ n \in Nat
  BY NumberedFacts
<1>2. x \in Nat
  <2>1. all[i] \in RefType
    <3> HIDE DEF all
    <3> QED BY <1>1, LenProperties, ElementOfSeq
  <2> HIDE DEF all
  <2> QED BY <2>1 DEF RefType
<1>3. sub \in Seq(RefType)
  <2>1. I \in SUBSET DOMAIN all
    OBVIOUS
  <2> HIDE DEF I, all
  <2> QED BY <1>1, <2>1, SubFacts
<1>4. c = Coded(u)
  BY DEF BuiltNbrs
<1>5. I \in SUBSET DOMAIN Numbered(rows)
  OBVIOUS
<1> HIDE DEF x, sub
<1>6. near \in Seq(Cands) /\ PickedFrom(near, sub)
  BY <1>2, <1>3, AroundFacts
<1> HIDE DEF near
<1>7. u \in Seq(Cands) /\ Len(u) <= M0 /\ PickedFrom(u, near)
  BY <1>6, SelectFacts
<1> HIDE DEF u
<1>8. PickedFrom(u, Sub(Numbered(rows), I))
  BY <1>6, <1>7, PickedTwice DEF sub
<1> HIDE DEF I
<1>9. /\ Coded(u) \in Seq(GoodRefs(z, hints, mv))
      /\ Len(Coded(u)) = Len(u) /\ Distinct(Coded(u))
      /\ \A a \in DOMAIN Coded(u) :
           /\ Coded(u)[a].id \in 0 .. n - 1 /\ Coded(u)[a].id + 1 \in I
           /\ Coded(u)[a].code = CodeOf[rows[Nth(DOMAIN rows, Coded(u)[a].id)]]
  BY <1>5, <1>7, <1>8, CodedFacts
<1>10. \A a \in DOMAIN Coded(u) : Coded(u)[a].id # i - 1
  <2>1. \A a \in DOMAIN Coded(u) : Coded(u)[a].id \in 0 .. n - 1 /\ Coded(u)[a].id + 1 # i
    BY <1>9 DEF I
  <2>2. i \in Nat
    OBVIOUS
  <2>3. \A k \in 0 .. n - 1 : k + 1 # i => k # i - 1
    BY <2>2
  <2> QED BY <2>1, <2>3
<1>11. Len(Coded(u)) <= M0
  BY <1>7, <1>9
<1> QED BY <1>4, <1>9, <1>10, <1>11 DEF c

LEMMA BuildGraphFacts ==
  ASSUME NEW t, Shape(t), NoRows(t), NEW rows, Buffer(rows), NEW entries,
         NEW hints \in BOOLEAN, NEW mv \in BOOLEAN
  PROVE  LET z == BuildGraph(t, rows, entries)
             n == Cardinality(DOMAIN rows)
         IN  /\ Shape(z) /\ z.state = t.state /\ n \in Nat
             /\ GraphBase(z, n, hints, mv) /\ z.head \in Seq(GoodRefs(z, hints, mv))
             /\ DOMAIN z.nodes = 0 .. n - 1 /\ z.buffer = << >>
             /\ GraphView(z) = [r \in DOMAIN rows |-> rows[r]]
<1> DEFINE ids == DOMAIN rows
           n == Cardinality(ids)
           all == Numbered(rows)
           new(i) == [row |-> Nth(ids, i), dead |-> FALSE, vec |-> rows[Nth(ids, i)],
                      nbrs |-> BuiltNbrs(rows, i + 1)]
           node == [i \in 0 .. n - 1 |-> new(i)]
           none == << >>
           bare == [t EXCEPT !.buffer = none, !.top = 0]
           laid == Lay(bare, "nodes", node)
           R == [r \in ids |-> Place(ids, r)]
           I == {i \in DOMAIN all : i - 1 \in entries}
           head == Coded(Sub(all, I))
           z == BuildGraph(t, rows, entries)
           G == GoodRefs(z, hints, mv)
<1>1. /\ IsFiniteSet(ids) /\ ids \subseteq Nat /\ n \in Nat
      /\ \A i \in 0 .. n - 1 : Nth(ids, i) \in ids /\ Place(ids, Nth(ids, i)) = i
      /\ \A r \in ids : Place(ids, r) \in 0 .. n - 1 /\ Nth(ids, Place(ids, r)) = r
      /\ all \in Seq(RefType) /\ DOMAIN all = 1 .. n /\ Distinct(all)
  BY NumberedFacts
<1>2. z = [laid EXCEPT !.rowids = R, !.head = head]
  BY DEF BuildGraph, BuiltNbrs, Numbered
<1>3. DOMAIN none = {}
  OBVIOUS
<1>4. /\ t.vectors = none /\ t.lists = none /\ t.nodes = none
      /\ t.pages = [nodes |-> none, vectors |-> none, lists |-> none]
  BY DEF NoRows
<1> HIDE DEF none, all, z, R, head, node
<1>5. bare = [buffer |-> none, nodes |-> none, rowids |-> t.rowids,
              vectors |-> none, lists |-> none, head |-> t.head, state |-> t.state,
              pages |-> [nodes |-> none, vectors |-> none, lists |-> none], top |-> 0]
  <2>1. bare = [buffer |-> none, nodes |-> t.nodes, rowids |-> t.rowids,
                vectors |-> t.vectors, lists |-> t.lists, head |-> t.head, state |-> t.state,
                pages |-> t.pages, top |-> 0]
    <3>1. bare = [t EXCEPT !.buffer = none, !.top = 0]
      OBVIOUS
    <3> HIDE DEF bare
    <3> QED BY <3>1 DEF Shape
  <2> HIDE DEF bare
  <2> QED BY <1>4, <2>1
<1> HIDE DEF bare
<1>6. Shape(bare) /\ bare.nodes = none /\ bare.top = 0 /\ bare.pages.nodes = none
  <2>1. /\ bare.buffer = none /\ bare.nodes = none /\ bare.rowids = t.rowids
        /\ bare.vectors = none /\ bare.lists = none /\ bare.head = t.head /\ bare.state = t.state
        /\ bare.pages = [nodes |-> none, vectors |-> none, lists |-> none] /\ bare.top = 0
    BY <1>5
  <2>2. bare.pages.nodes = none /\ bare.pages.vectors = none /\ bare.pages.lists = none
    BY <2>1
  <2>3. Buffer(none)
    BY <1>3 DEF Buffer
  <2> QED BY <1>5, <2>1, <2>2, <2>3 DEF Shape
<1> DEFINE N == Over(node, none)
           P == Over(PagesFor(0, node), none)
           T == 0 + Cardinality(DOMAIN node)
<1>7. DOMAIN node = 0 .. n - 1
  BY DEF node
<1>8. IsFiniteSet(DOMAIN node) /\ DOMAIN node \subseteq Nat /\ T \in Nat
  <2>1. IsFiniteSet(DOMAIN node)
    BY <1>1, <1>7, IntervalSize
  <2> QED BY <1>7, <2>1, FS_CardinalityType
<1>9. laid = [buffer |-> none, nodes |-> N, rowids |-> t.rowids,
              vectors |-> none, lists |-> none, head |-> t.head, state |-> t.state,
              pages |-> [nodes |-> P, vectors |-> none, lists |-> none], top |-> T]
  <2>1. laid = [buffer |-> bare.buffer, nodes |-> Over(node, bare.nodes), rowids |-> bare.rowids,
                vectors |-> bare.vectors, lists |-> bare.lists, head |-> bare.head,
                state |-> bare.state,
                pages |-> [nodes |-> Over(PagesFor(bare.top, node), bare.pages.nodes),
                           vectors |-> bare.pages.vectors, lists |-> bare.pages.lists],
                top |-> bare.top + Cardinality(DOMAIN node)]
    BY <1>6, LayNodes
  <2>2. /\ bare.buffer = none /\ bare.nodes = none /\ bare.rowids = t.rowids
        /\ bare.vectors = none /\ bare.lists = none /\ bare.head = t.head /\ bare.state = t.state
        /\ bare.pages = [nodes |-> none, vectors |-> none, lists |-> none] /\ bare.top = 0
    BY <1>5
  <2>3. bare.pages.nodes = none /\ bare.pages.vectors = none /\ bare.pages.lists = none
    BY <2>2
  <2>4. Over(PagesFor(bare.top, node), bare.pages.nodes) = P
        /\ bare.top + Cardinality(DOMAIN node) = T
    BY <2>2, <2>3
  <2> HIDE DEF laid, P, T
  <2>5. Over(node, bare.nodes) = N
    BY <2>2
  <2> HIDE DEF N
  <2> QED BY <2>1, <2>2, <2>3, <2>4, <2>5
<1>10. DOMAIN N = 0 .. n - 1 /\ \A i \in 0 .. n - 1 : N[i] = new(i)
  <2>1. DOMAIN N = DOMAIN node /\ \A i \in DOMAIN node : N[i] = node[i]
    BY <1>3, OverEmpty
  <2> HIDE DEF N, new
  <2> QED BY <1>7, <2>1 DEF node
<1>11. DOMAIN P = 0 .. n - 1 /\ \A i \in 0 .. n - 1 : P[i] \in Nat
  <2>1. 0 \in Nat
    OBVIOUS
  <2>2. DOMAIN P = DOMAIN node /\ \A k \in DOMAIN node : P[k] \in Nat
    BY <1>3, <1>8, <2>1, PagesAnew
  <2> HIDE DEF P
  <2> QED BY <1>7, <2>2
<1> HIDE DEF laid, N, P, T
<1>12. z = [buffer |-> none, nodes |-> N, rowids |-> R,
            vectors |-> none, lists |-> none, head |-> head, state |-> t.state,
            pages |-> [nodes |-> P, vectors |-> none, lists |-> none], top |-> T]
  BY <1>2, <1>9
<1>13. /\ z.buffer = none /\ z.nodes = N /\ z.rowids = R
       /\ z.vectors = none /\ z.lists = none /\ z.head = head /\ z.state = t.state
       /\ z.pages = [nodes |-> P, vectors |-> none, lists |-> none] /\ z.top = T
  BY <1>12
<1>14. z.pages.nodes = P /\ z.pages.vectors = none /\ z.pages.lists = none
  BY <1>13
<1>15. Shape(z)
  <2>1. Buffer(none)
    BY <1>3 DEF Buffer
  <2> QED BY <1>8, <1>12, <1>13, <1>14, <2>1 DEF Shape
<1>16. head \in Seq(G)
  <2>1. I \in SUBSET DOMAIN Numbered(rows)
    BY DEF all
  <2> HIDE DEF I, G
  <2>2. Sub(all, I) \in Seq(RefType)
    BY <1>1, <2>1, SubFacts DEF all
  <2>3. PickedFrom(Sub(all, I), Sub(Numbered(rows), I))
    BY PickedItself DEF all
  <2>4. Coded(Sub(all, I)) \in Seq(GoodRefs(z, hints, mv))
    BY <2>1, <2>2, <2>3, CodedFacts
  <2> QED BY <2>4 DEF head, G
<1>17. ASSUME NEW i \in 0 .. n - 1
       PROVE  LET nbrs == N[i].nbrs
              IN  /\ nbrs \in Seq(G) /\ Len(nbrs) <= M0 /\ Distinct(nbrs)
                  /\ \A a \in DOMAIN nbrs :
                       /\ nbrs[a].id \in 0 .. n - 1 /\ nbrs[a].id # i
                       /\ nbrs[a].code = CodeOf[rows[Nth(ids, nbrs[a].id)]]
                  /\ N[i] \in NodeType /\ N[i].row = Nth(ids, i) /\ ~N[i].dead
                  /\ N[i].vec = rows[Nth(ids, i)]
  <2> DEFINE c == BuiltNbrs(rows, i + 1)
  <2>1. i + 1 \in 1 .. n /\ i + 1 - 1 = i
    BY <1>1
  <2>2. /\ c \in Seq(GoodRefs(z, hints, mv)) /\ Len(c) <= M0 /\ Distinct(c)
        /\ \A a \in DOMAIN c :
             /\ c[a].id \in 0 .. n - 1 /\ c[a].id # i + 1 - 1
             /\ c[a].code = CodeOf[rows[Nth(ids, c[a].id)]]
    <3> DEFINE k == i + 1
    <3>1. k \in 1 .. Cardinality(DOMAIN rows)
      BY <2>1
    <3> HIDE DEF k, c
    <3> QED BY <3>1, BuiltNbrsFacts DEF k, c
  <2> HIDE DEF c
  <2>3. c \in Seq(RefType)
    <3>1. GoodRefs(z, hints, mv) \subseteq RefType
      BY DEF GoodRefs
    <3> HIDE DEF G
    <3> QED BY <2>2, <3>1, SeqMonotonic
  <2>4. N[i] = [row |-> Nth(ids, i), dead |-> FALSE, vec |-> rows[Nth(ids, i)], nbrs |-> c]
    BY <1>10 DEF c
  <2>5. Nth(ids, i) \in RowIds /\ rows[Nth(ids, i)] \in Vecs
    BY <1>1 DEF Buffer
  <2>6. /\ N[i] \in NodeType /\ N[i].row = Nth(ids, i) /\ ~N[i].dead
        /\ N[i].vec = rows[Nth(ids, i)] /\ N[i].nbrs = c
    BY <2>3, <2>4, <2>5 DEF NodeType
  <2> QED BY <2>1, <2>2, <2>6
<1> HIDE DEF new
<1>18. DOMAIN R = ids /\ \A r \in ids : R[r] = Place(ids, r)
  BY DEF R
<1>19. GraphWhole(z)
  <2>1. \A i \in 0 .. n - 1 : \A a \in DOMAIN N[i].nbrs : RefRight(z, N[i].nbrs[a])
    <3> TAKE i \in 0 .. n - 1
    <3> TAKE a \in DOMAIN N[i].nbrs
    <3>1. N[i].nbrs[a].id \in 0 .. n - 1
          /\ N[i].nbrs[a].code = CodeOf[rows[Nth(ids, N[i].nbrs[a].id)]]
      BY <1>17
    <3>2. N[N[i].nbrs[a].id].vec = rows[Nth(ids, N[i].nbrs[a].id)]
      BY <1>17, <3>1
    <3> QED BY <1>10, <1>13, <3>1, <3>2 DEF RefRight
  <2>2. \A i \in 0 .. n - 1 :
          /\ Len(N[i].nbrs) <= M0
          /\ \A a, b \in DOMAIN N[i].nbrs : N[i].nbrs[a].id = N[i].nbrs[b].id => a = b
          /\ \A a \in DOMAIN N[i].nbrs : N[i].nbrs[a].id # i
    BY <1>17 DEF Distinct
  <2>3. \A i \in 0 .. n - 1 : N[i].row \in DOMAIN R /\ R[N[i].row] = i
    BY <1>1, <1>17, <1>18
  <2>4. \A r \in DOMAIN R : R[r] \in 0 .. n - 1 /\ ~N[R[r]].dead /\ N[R[r]].row = r
    BY <1>1, <1>17, <1>18
  <2> QED BY <1>10, <1>13, <2>1, <2>2, <2>3, <2>4 DEF GraphWhole
<1>20. GraphBase(z, n, hints, mv)
  <2>1. \A i \in DOMAIN z.nodes : /\ i \in Nat /\ i < n
                                  /\ z.nodes[i] \in NodeType /\ z.nodes[i].nbrs \in Seq(G)
    <3> TAKE i \in DOMAIN z.nodes
    <3>1. i \in 0 .. n - 1 /\ z.nodes[i] = N[i]
      BY <1>10, <1>13
    <3> HIDE DEF G
    <3> QED BY <1>1, <1>17, <3>1
  <2>2. \A i \in DOMAIN z.pages.nodes : i \in Nat /\ i < n /\ z.pages.nodes[i] \in Nat
    BY <1>1, <1>11, <1>14
  <2>3. z.vectors = << >> /\ z.lists = << >>
    BY <1>13 DEF none
  <2> QED BY <1>19, <2>1, <2>2, <2>3 DEF GraphBase
<1>21. GraphView(z) = [r \in ids |-> rows[r]]
  <2>1. \A r \in ids : N[R[r]].vec = rows[r]
    BY <1>1, <1>17, <1>18
  <2> HIDE DEF ids
  <2> QED BY <1>13, <1>18, <2>1 DEF GraphView, VecOfNode
<1> QED BY <1>1, <1>10, <1>13, <1>15, <1>16, <1>20, <1>21 DEF z, none

-----------------------------------------------------------------------------
(***************************************************************************)
(* Keys of chunks, and rows added to the tables of an IVF index.           *)
(***************************************************************************)
LEMMA KeyFacts ==
  ASSUME NEW L \in Nat, NEW j \in Nat, j < Stride
  PROVE  ListKey(L, j) \in Nat /\ ListOfKey(ListKey(L, j)) = L /\ ListKey(L, j) % Stride = j
BY SMT DEF ListKey, ListOfKey, Stride

LEMMA KeyParts ==
  ASSUME NEW k \in Nat
  PROVE  /\ ListOfKey(k) \in Nat /\ k % Stride \in Nat /\ k % Stride < Stride
         /\ ListKey(ListOfKey(k), k % Stride) = k
BY SMT DEF ListKey, ListOfKey, Stride

LEMMA InsertList ==
  ASSUME NEW t, Shape(t), NEW key, NEW row
  PROVE  \E P : InsertRow(t, "lists", key, row) =
           [buffer |-> t.buffer, nodes |-> t.nodes, rowids |-> t.rowids,
            vectors |-> t.vectors, lists |-> Put(t.lists, key, row), head |-> t.head,
            state |-> t.state,
            pages |-> [nodes |-> t.pages.nodes, vectors |-> t.pages.vectors, lists |-> P],
            top |-> t.top + 1]
<1> DEFINE keys   == DOMAIN t.lists
           at     == Place(keys, key)
           window == IF \A k \in keys : k < key THEN {}
                     ELSE {k \in keys : Place(keys, k) \in at - 1 .. at + 1}
           free   == {t.pages.lists[k] : k \in window} \cup {t.top + 1}
           page   == [k \in window \cup {key} |-> Nth(free, Place(window \cup {key}, k))]
           P == Over(page, t.pages.lists)
           C == Put(t.lists, key, row)
           T == t.top + 1
           z == InsertRow(t, "lists", key, row)
<1>1. z = [t EXCEPT !.lists = C, !.pages = [t.pages EXCEPT !.lists = P], !.top = T]
  BY DEF InsertRow
<1> HIDE DEF P, C, T, z
<1>2. [t.pages EXCEPT !.lists = P] =
        [nodes |-> t.pages.nodes, vectors |-> t.pages.vectors, lists |-> P]
  BY DEF Shape
<1>3. z = [buffer |-> t.buffer, nodes |-> t.nodes, rowids |-> t.rowids,
           vectors |-> t.vectors, lists |-> C, head |-> t.head, state |-> t.state,
           pages |-> [nodes |-> t.pages.nodes, vectors |-> t.pages.vectors, lists |-> P], top |-> T]
  BY <1>1, <1>2 DEF Shape
<1> QED BY <1>3 DEF z, C, T

LEMMA AppendVector ==
  ASSUME NEW t, Shape(t), NEW key \in Nat, NEW row, \A k \in DOMAIN t.vectors : k < key
  PROVE  InsertRow(t, "vectors", key, row) =
           [buffer |-> t.buffer, nodes |-> t.nodes, rowids |-> t.rowids,
            vectors |-> Put(t.vectors, key, row), lists |-> t.lists, head |-> t.head,
            state |-> t.state,
            pages |-> [nodes |-> t.pages.nodes,
                       vectors |-> Put(t.pages.vectors, key, t.top + 1), lists |-> t.pages.lists],
            top |-> t.top + 1]
<1>1. t.top + 1 \in Nat
  BY DEF Shape
<1> DEFINE free == {t.pages.vectors[k] : k \in {}} \cup {t.top + 1}
           page == [k \in {} \cup {key} |-> Nth(free, Place({} \cup {key}, k))]
           z == InsertRow(t, "vectors", key, row)
<1>2. free = {t.top + 1} /\ {} \cup {key} = {key}
  OBVIOUS
<1>3. page = [k \in {key} |-> t.top + 1]
  <2>1. \A k \in {key} : Nth(free, Place({key}, k)) = t.top + 1
    BY <1>1, <1>2, OnlyPlace
  <2> QED BY <1>2, <2>1
<1>4. z = [t EXCEPT !.vectors = Put(@, key, row), !.pages.vectors = Over(page, @), !.top = @ + 1]
  BY DEF InsertRow
<1> HIDE DEF page, z
<1>5. Over(page, t.pages.vectors) = Put(t.pages.vectors, key, t.top + 1)
  BY <1>3 DEF Over, Put
<1>6. z = [t EXCEPT !.vectors = Put(t.vectors, key, row),
                    !.pages = [t.pages EXCEPT !.vectors = Put(t.pages.vectors, key, t.top + 1)],
                    !.top = t.top + 1]
  BY <1>4, <1>5
<1>7. [t.pages EXCEPT !.vectors = Put(t.pages.vectors, key, t.top + 1)] =
        [nodes |-> t.pages.nodes,
         vectors |-> Put(t.pages.vectors, key, t.top + 1), lists |-> t.pages.lists]
  BY DEF Shape
<1> QED BY <1>6, <1>7 DEF Shape, z

(* Entries and their slots, one by one.                                    *)
Ent(t, x) == t.lists[x[1]].ents[x[2]]

LEMMA EntriesAre ==
  ASSUME NEW t
  PROVE  \A x : x \in Entries(t) <=>
           \E k \in DOMAIN t.lists : \E e \in DOMAIN t.lists[k].ents : x = << k, e >>
BY DEF Entries

(* A directory counts every chunk: what an insertion may number next.      *)
LEMMA NextChunk ==
  ASSUME NEW t, NEW next \in Nat, NEW head, IvfHead(t, next, head), next < MaxSlots,
         \A k \in DOMAIN t.lists : k \in Nat, NEW v \in Vecs
  PROVE  LET L == ListFor(head, v)
             key == ListKey(L, head[L].n)
         IN  /\ L \in DOMAIN head /\ L \in Nat /\ head[L].n \in Nat
             /\ key \in Nat /\ key \notin DOMAIN t.lists
             /\ ListOfKey(key) = L /\ key % Stride = head[L].n
<1> DEFINE L == ListFor(head, v)
           key == ListKey(L, head[L].n)
<1>1. PICK nl \in 1 .. NLists : Directory(head, nl, next)
  BY DEF IvfHead
<1>2. NLists \in Nat /\ nl \in Nat
  BY IvfAssumption
<1>3. DOMAIN head = 0 .. nl - 1 /\ Cardinality(DOMAIN head) = nl
  BY <1>1, <1>2, IntervalSize DEF Directory
<1>4. L \in 0 .. nl - 1
  <2>1. ListOf[nl] \in [Vecs -> 0 .. nl - 1]
    BY IvfAssumption
  <2> QED BY <1>3, <2>1 DEF ListFor
<1> HIDE DEF L
<1>5. head[L].n \in Nat /\ head[L].n < Stride
  <2>1. head[L].n \in Nat /\ head[L].n <= next + MaxSlots
    BY <1>1, <1>4 DEF Directory
  <2>2. MaxSlots \in Nat /\ 2 * MaxSlots <= Stride /\ Stride \in Nat
    BY FileAssumption, IvfAssumption, SMT DEF Stride
  <2> QED BY <2>1, <2>2
<1>6. key \in Nat /\ ListOfKey(key) = L /\ key % Stride = head[L].n
  BY <1>2, <1>4, <1>5, KeyFacts
<1>7. key \notin DOMAIN t.lists
  <2> SUFFICES ASSUME key \in DOMAIN t.lists PROVE FALSE
    OBVIOUS
  <2>1. key % Stride < head[ListOfKey(key)].n
    BY DEF IvfHead
  <2> QED BY <1>5, <1>6, <2>1
<1> QED BY <1>2, <1>3, <1>4, <1>5, <1>6, <1>7 DEF L

LEMMA HeadLater ==
  ASSUME NEW t, NEW next \in Nat, NEW later \in Nat, next <= later, NEW head, IvfHead(t, next, head)
  PROVE  IvfHead(t, later, head)
<1>1. PICK nl \in 1 .. NLists : Directory(head, nl, next)
  BY DEF IvfHead
<1>2. MaxSlots \in Nat
  BY FileAssumption
<1>3. Directory(head, nl, later)
  BY <1>1, <1>2 DEF Directory
<1> QED BY <1>3 DEF IvfHead

LEMMA CountChunkFacts ==
  ASSUME NEW t, NEW next \in Nat, NEW head, IvfHead(t, next, head), NEW L \in DOMAIN head,
         \A k \in DOMAIN t.lists : k \in Nat
  PROVE  /\ IvfHead(t, next + 1, CountChunk(head, L))
         /\ DOMAIN CountChunk(head, L) = DOMAIN head
         /\ CountChunk(head, L)[L].n = head[L].n + 1
         /\ \A l \in DOMAIN head : l # L => CountChunk(head, L)[l].n = head[l].n
<1> DEFINE h == CountChunk(head, L)
<1>1. PICK nl \in 1 .. NLists : Directory(head, nl, next)
  BY DEF IvfHead
<1>2. MaxSlots \in Nat
  BY FileAssumption
<1>3. /\ DOMAIN h = DOMAIN head /\ \A l \in DOMAIN head : l # L => h[l] = head[l]
      /\ h[L] = [head[L] EXCEPT !.n = @ + 1]
  BY DEF CountChunk
<1> HIDE DEF h
<1>4. /\ DOMAIN head = 0 .. nl - 1
      /\ \A l \in DOMAIN head :
           /\ head[l] = [n |-> head[l].n, first |-> head[l].first, last |-> head[l].last]
           /\ head[l].n \in Nat /\ head[l].n <= next + MaxSlots
  BY <1>1 DEF Directory
<1>5. h[L] = [n |-> head[L].n + 1, first |-> head[L].first, last |-> head[L].last]
  BY <1>3, <1>4
<1>6. h[L].n = head[L].n + 1 /\ h[L].first = head[L].first /\ h[L].last = head[L].last
  BY <1>5
<1>7. \A l \in DOMAIN head :
        /\ h[l] = [n |-> h[l].n, first |-> h[l].first, last |-> h[l].last]
        /\ h[l].n \in Nat /\ h[l].n <= next + 1 + MaxSlots /\ head[l].n <= h[l].n
  <2> TAKE l \in DOMAIN head
  <2>1. CASE l = L
    BY <1>2, <1>4, <1>5, <1>6, <2>1
  <2>2. CASE l # L
    BY <1>2, <1>3, <1>4, <2>2
  <2> QED BY <2>1, <2>2
<1>8. Directory(h, nl, next + 1)
  BY <1>3, <1>4, <1>7 DEF Directory
<1>9. \A k \in DOMAIN t.lists : ListOfKey(k) \in DOMAIN h /\ k % Stride < h[ListOfKey(k)].n
  <2> TAKE k \in DOMAIN t.lists
  <2>1. ListOfKey(k) \in DOMAIN head /\ k % Stride < head[ListOfKey(k)].n
    BY DEF IvfHead
  <2>2. head[ListOfKey(k)].n <= h[ListOfKey(k)].n /\ head[ListOfKey(k)].n \in Nat
        /\ h[ListOfKey(k)].n \in Nat
    BY <1>4, <1>7, <2>1
  <2>3. k % Stride \in Nat
    BY KeyParts
  <2>4. k % Stride < h[ListOfKey(k)].n
    BY <2>1, <2>2, <2>3
  <2> QED BY <1>3, <2>1, <2>4
<1>10. IvfHead(t, next + 1, h)
  BY <1>8, <1>9 DEF IvfHead
<1> QED BY <1>3, <1>6, <1>10 DEF h

LEMMA InsertEntryFacts ==
  ASSUME NEW t, Shape(t), NEW next \in Nat, next < MaxSlots, NEW hints \in BOOLEAN, NEW mv \in BOOLEAN,
         IvfBase(t, next, hints, mv), NEW m, m.next = next, IvfHead(t, next, m.head),
         NEW r \in RowIds, r \notin DOMAIN t.rowids, NEW v \in Vecs
  PROVE  LET z == InsertEntry(t, m, r, v)
             L == ListFor(m.head, v)
         IN  /\ Shape(z) /\ z.state = t.state /\ z.buffer = t.buffer
             /\ L \in DOMAIN m.head /\ z.head = CountChunk(m.head, L)
             /\ IvfBase(z, next + 1, hints, mv) /\ IvfHead(z, next + 1, z.head)
             /\ IvfView(z) = Put(IvfView(t), r, v)
<1> DEFINE L == ListFor(m.head, v)
           key == ListKey(L, m.head[L].n)
           chunk == [first |-> next, page |-> 0, ents |-> << Entry(r, v) >>]
           one == InsertRow(t, "lists", key, chunk)
           two == InsertRow(one, "vectors", next, v)
           at == [list |-> L, slot |-> next]
           head == CountChunk(m.head, L)
           z == InsertEntry(t, m, r, v)
           V == Put(t.vectors, next, v)
           C == Put(t.lists, key, chunk)
           R == Put(t.rowids, r, at)
<1>1. /\ t.nodes = << >>
      /\ \A s \in DOMAIN t.vectors : s \in Nat /\ s < next /\ t.vectors[s] \in Vecs
      /\ \A s \in DOMAIN t.pages.vectors : t.pages.vectors[s] \in Nat
      /\ IvfWhole(t)
  BY DEF IvfBase
<1>2. ASSUME NEW k \in DOMAIN t.lists
      PROVE  LET c == t.lists[k]
             IN  /\ k \in Nat
                 /\ c = [first |-> c.first, page |-> c.page, ents |-> c.ents]
                 /\ c.first \in Nat /\ c.ents \in Seq(EntryType)
                 /\ \A e \in DOMAIN c.ents :
                      /\ HintOK(t, "vectors", c.first + e - 1, c.ents[e].page, hints, mv)
                      /\ c.ents[e].dead => c.ents[e].page = 0
  BY DEF IvfBase
<1>3. /\ L \in DOMAIN m.head /\ L \in Nat /\ m.head[L].n \in Nat
      /\ key \in Nat /\ key \notin DOMAIN t.lists
      /\ ListOfKey(key) = L /\ key % Stride = m.head[L].n
  <2>1. \A k \in DOMAIN t.lists : k \in Nat
    BY <1>2
  <2> QED BY <2>1, NextChunk
<1>4. z = [two EXCEPT !.rowids = Put(two.rowids, r, at), !.head = head]
  BY DEF InsertEntry
<1>5. next \notin DOMAIN t.vectors
  BY <1>1
<1> HIDE DEF L, key, chunk, z, at, head
<1>6. PICK P : one = [buffer |-> t.buffer, nodes |-> t.nodes, rowids |-> t.rowids,
                      vectors |-> t.vectors, lists |-> C, head |-> t.head, state |-> t.state,
                      pages |-> [nodes |-> t.pages.nodes, vectors |-> t.pages.vectors, lists |-> P],
                      top |-> t.top + 1]
  BY InsertList
<1> HIDE DEF one, C
<1>7. /\ one.buffer = t.buffer /\ one.nodes = t.nodes /\ one.rowids = t.rowids
      /\ one.vectors = t.vectors /\ one.lists = C /\ one.head = t.head /\ one.state = t.state
      /\ one.pages = [nodes |-> t.pages.nodes, vectors |-> t.pages.vectors, lists |-> P]
      /\ one.top = t.top + 1
  BY <1>6
<1>8. one.pages.nodes = t.pages.nodes /\ one.pages.vectors = t.pages.vectors /\ one.pages.lists = P
  BY <1>7
<1>9. Shape(one)
  BY <1>6, <1>7, <1>8 DEF Shape
<1> DEFINE T == one.top + 1
           W == Put(t.pages.vectors, next, T)
<1>10. two = [buffer |-> t.buffer, nodes |-> t.nodes, rowids |-> t.rowids,
              vectors |-> V, lists |-> C, head |-> t.head, state |-> t.state,
              pages |-> [nodes |-> t.pages.nodes, vectors |-> W, lists |-> P],
              top |-> T]
  <2>1. \A k \in DOMAIN one.vectors : k < next
    BY <1>1, <1>7
  <2>2. two = [buffer |-> one.buffer, nodes |-> one.nodes, rowids |-> one.rowids,
               vectors |-> Put(one.vectors, next, v), lists |-> one.lists, head |-> one.head,
               state |-> one.state,
               pages |-> [nodes |-> one.pages.nodes,
                          vectors |-> Put(one.pages.vectors, next, one.top + 1),
                          lists |-> one.pages.lists],
               top |-> one.top + 1]
    BY <1>9, <2>1, AppendVector
  <2>3. Put(one.vectors, next, v) = V /\ Put(one.pages.vectors, next, one.top + 1) = W
    BY <1>7, <1>8
  <2> HIDE DEF two, V, W, T
  <2>4. two = [buffer |-> one.buffer, nodes |-> one.nodes, rowids |-> one.rowids,
               vectors |-> V, lists |-> one.lists, head |-> one.head,
               state |-> one.state,
               pages |-> [nodes |-> one.pages.nodes, vectors |-> W,
                          lists |-> one.pages.lists],
               top |-> T]
    BY <2>2, <2>3 DEF T
  <2> QED BY <2>4, <1>7, <1>8, <2>2, <2>3
<1> HIDE DEF two, V, W, R, T
<1>11. z = [buffer |-> t.buffer, nodes |-> t.nodes, rowids |-> R,
            vectors |-> V, lists |-> C, head |-> head, state |-> t.state,
            pages |-> [nodes |-> t.pages.nodes, vectors |-> W, lists |-> P],
            top |-> T]
  <2>1. Put(two.rowids, r, at) = R
    BY <1>10 DEF R
  <2>2. z = [two EXCEPT !.rowids = R, !.head = head]
    BY <1>4, <2>1
  <2> QED BY <1>10, <2>2
<1>12. /\ z.buffer = t.buffer /\ z.nodes = t.nodes /\ z.rowids = R
       /\ z.vectors = V /\ z.lists = C /\ z.head = head /\ z.state = t.state
       /\ z.pages = [nodes |-> t.pages.nodes, vectors |-> W, lists |-> P] /\ z.top = T
  BY <1>11
<1>13. z.pages.nodes = t.pages.nodes /\ z.pages.vectors = W /\ z.pages.lists = P
  BY <1>12
<1>14. T \in Nat
  BY <1>7 DEF Shape, T
<1>15. Shape(z)
  BY <1>11, <1>12, <1>13, <1>14 DEF Shape
<1>16. DOMAIN V = DOMAIN t.vectors \cup {next} /\ V[next] = v
       /\ \A s \in DOMAIN t.vectors : V[s] = t.vectors[s]
  BY <1>5 DEF V, Put
<1>17. DOMAIN C = DOMAIN t.lists \cup {key} /\ C[key] = chunk
       /\ \A k \in DOMAIN t.lists : C[k] = t.lists[k]
  BY <1>3 DEF C, Put
<1>18. DOMAIN R = DOMAIN t.rowids \cup {r} /\ R[r] = at
       /\ \A u \in DOMAIN t.rowids : R[u] = t.rowids[u]
  BY DEF R, Put
<1>19. /\ chunk.first = next /\ DOMAIN chunk.ents = {1} /\ chunk.ents[1] = Entry(r, v)
       /\ chunk = [first |-> chunk.first, page |-> chunk.page, ents |-> chunk.ents]
       /\ chunk.ents \in Seq(EntryType)
       /\ Entry(r, v).row = r /\ ~Entry(r, v).dead /\ Entry(r, v).page = 0
       /\ Entry(r, v).code = CodeOf[v]
  <2>1. Entry(r, v) \in EntryType
    BY CodeIsNat DEF Entry, EntryType
  <2>2. /\ Entry(r, v).row = r /\ ~Entry(r, v).dead /\ Entry(r, v).page = 0
        /\ Entry(r, v).code = CodeOf[v]
    BY DEF Entry
  <2> QED BY <2>1, <2>2 DEF chunk
<1>20. \A s \in DOMAIN t.vectors : \A p :
         HintOK(t, "vectors", s, p, hints, mv) => HintOK(z, "vectors", s, p, hints, mv)
  <2> SUFFICES ASSUME NEW s \in DOMAIN t.vectors
               PROVE  PageOf(z, "vectors", s) = PageOf(t, "vectors", s)
    BY DEF HintOK
  <2>1. s # next
    BY <1>5
  <2>2. (s \in DOMAIN W <=> s \in DOMAIN t.pages.vectors)
        /\ (s \in DOMAIN W => W[s] = t.pages.vectors[s])
    BY <2>1 DEF W, Put
  <2> QED BY <1>13, <2>2 DEF PageOf
<1>21. \A x \in Entries(t) : /\ SlotOf(t, x) \in DOMAIN t.vectors
                             /\ SlotOf(t, x) \in Nat /\ SlotOf(t, x) < next
                             /\ x \in Entries(z) /\ SlotOf(z, x) = SlotOf(t, x)
                             /\ Ent(z, x) = Ent(t, x) /\ x[1] \in DOMAIN t.lists
  <2> TAKE x \in Entries(t)
  <2>1. PICK k \in DOMAIN t.lists : \E e \in DOMAIN t.lists[k].ents : x = << k, e >>
    BY EntriesAre
  <2>2. PICK e \in DOMAIN t.lists[k].ents : x = << k, e >>
    BY <2>1
  <2>3. SlotOf(t, x) \in DOMAIN t.vectors
    BY <1>1 DEF IvfWhole
  <2>4. z.lists[k] = t.lists[k] /\ k \in DOMAIN z.lists
    BY <1>12, <1>17
  <2>5. x \in Entries(z)
    BY <2>2, <2>4, EntriesAre
  <2>6. SlotOf(z, x) = SlotOf(t, x) /\ Ent(z, x) = Ent(t, x)
    BY <2>2, <2>4 DEF SlotOf, Ent
  <2> QED BY <1>1, <2>2, <2>3, <2>5, <2>6
<1>22. << key, 1 >> \in Entries(z) /\ SlotOf(z, << key, 1 >>) = next
       /\ Ent(z, << key, 1 >>) = Entry(r, v)
  <2>1. z.lists[key] = chunk /\ key \in DOMAIN z.lists
    BY <1>12, <1>17
  <2>2. << key, 1 >> \in Entries(z)
    BY <1>19, <2>1, EntriesAre
  <2>3. next + 1 - 1 = next
    OBVIOUS
  <2> QED BY <1>19, <2>1, <2>2, <2>3 DEF SlotOf, Ent
<1>23. \A x \in Entries(z) : x \in Entries(t) \/ x = << key, 1 >>
  <2> TAKE x \in Entries(z)
  <2>1. PICK k \in DOMAIN z.lists : \E e \in DOMAIN z.lists[k].ents : x = << k, e >>
    BY EntriesAre
  <2>2. CASE k = key
    <3>1. z.lists[k].ents = chunk.ents
      BY <1>12, <1>17, <2>2
    <3> QED BY <1>19, <2>1, <2>2, <3>1
  <2>3. CASE k # key
    <3>1. k \in DOMAIN t.lists /\ z.lists[k] = t.lists[k]
      BY <1>12, <1>17, <2>3
    <3> QED BY <2>1, <3>1, EntriesAre
  <2> QED BY <2>2, <2>3
<1>24. \A x \in Entries(t) :
         /\ Ent(t, x).code = CodeOf[t.vectors[SlotOf(t, x)]]
         /\ ~Ent(t, x).dead => /\ Ent(t, x).row \in DOMAIN t.rowids
                               /\ t.rowids[Ent(t, x).row] =
                                    [list |-> ListOfKey(x[1]), slot |-> SlotOf(t, x)]
  <2> TAKE x \in Entries(t)
  <2> QED BY <1>1 DEF IvfWhole, Ent
<1>25. \A x, y \in Entries(t) : SlotOf(t, x) = SlotOf(t, y) => x = y
  BY <1>1 DEF IvfWhole
<1>26. \A u \in DOMAIN t.rowids : \E x \in Entries(t) : Ent(t, x).row = u /\ ~Ent(t, x).dead
  BY <1>1 DEF IvfWhole, Ent
<1>27. IvfWhole(z)
  <2>1. \A x, y \in Entries(z) : SlotOf(z, x) = SlotOf(z, y) => x = y
    <3> TAKE x, y \in Entries(z)
    <3> HAVE SlotOf(z, x) = SlotOf(z, y)
    <3>1. CASE x \in Entries(t) /\ y \in Entries(t)
      BY <1>21, <1>25, <3>1
    <3>0. \A w \in Entries(t) : SlotOf(z, w) # next
      BY <1>21
    <3>2. CASE x = << key, 1 >> /\ y \in Entries(t)
      BY <1>22, <3>0, <3>2
    <3>3. CASE x \in Entries(t) /\ y = << key, 1 >>
      BY <1>22, <3>0, <3>3
    <3> QED BY <1>23, <3>1, <3>2, <3>3
  <2>2. ASSUME NEW x \in Entries(z)
        PROVE  /\ SlotOf(z, x) \in DOMAIN z.vectors
               /\ Ent(z, x).code = CodeOf[z.vectors[SlotOf(z, x)]]
               /\ ~Ent(z, x).dead => /\ Ent(z, x).row \in DOMAIN z.rowids
                                     /\ z.rowids[Ent(z, x).row] =
                                          [list |-> ListOfKey(x[1]), slot |-> SlotOf(z, x)]
    <3>1. CASE x \in Entries(t)
      BY <1>12, <1>16, <1>18, <1>21, <1>24, <3>1
    <3>2. CASE x = << key, 1 >>
      <4>1. z.vectors[next] = v /\ next \in DOMAIN z.vectors
        BY <1>12, <1>16
      <4>2. x[1] = key /\ SlotOf(z, x) = next /\ Ent(z, x) = Entry(r, v)
        BY <1>22, <3>2
      <4>3. z.rowids[r] = [list |-> L, slot |-> next] /\ r \in DOMAIN z.rowids
        BY <1>12, <1>18 DEF at
      <4> QED BY <1>3, <1>19, <4>1, <4>2, <4>3
    <3> QED BY <1>23, <3>1, <3>2
  <2>3. ASSUME NEW u \in DOMAIN z.rowids PROVE \E x \in Entries(z) : Ent(z, x).row = u /\ ~Ent(z, x).dead
    <3>1. CASE u = r
      BY <1>19, <1>22, <3>1
    <3>2. CASE u \in DOMAIN t.rowids
      BY <1>21, <1>26, <3>2
    <3> QED BY <1>12, <1>18, <3>1, <3>2
  <2> QED BY <2>1, <2>2, <2>3 DEF IvfWhole, Ent
<1>28. \A s \in DOMAIN z.vectors : s \in Nat /\ s < next + 1 /\ z.vectors[s] \in Vecs
  <2> TAKE s \in DOMAIN z.vectors
  <2>1. CASE s = next
    BY <1>12, <1>16, <2>1
  <2>2. CASE s # next
    BY <1>1, <1>12, <1>16, <2>2
  <2> QED BY <2>1, <2>2
<1>29. ASSUME NEW k \in DOMAIN z.lists
       PROVE  LET c == z.lists[k]
              IN  /\ k \in Nat
                  /\ c = [first |-> c.first, page |-> c.page, ents |-> c.ents]
                  /\ c.first \in Nat /\ c.ents \in Seq(EntryType)
                  /\ \A e \in DOMAIN c.ents :
                       /\ HintOK(z, "vectors", c.first + e - 1, c.ents[e].page, hints, mv)
                       /\ c.ents[e].dead => c.ents[e].page = 0
  <2>1. CASE k = key
    <3>1. z.lists[k] = chunk
      BY <1>12, <1>17, <2>1
    <3>2. \A e \in DOMAIN chunk.ents :
            /\ HintOK(z, "vectors", chunk.first + e - 1, chunk.ents[e].page, hints, mv)
            /\ chunk.ents[e].dead => chunk.ents[e].page = 0
      BY <1>19 DEF HintOK
    <3> QED BY <1>3, <1>19, <2>1, <3>1, <3>2
  <2>2. CASE k # key
    <3> DEFINE c == t.lists[k]
    <3>1. k \in DOMAIN t.lists /\ z.lists[k] = c
      BY <1>12, <1>17, <2>2
    <3>2. /\ k \in Nat
          /\ c = [first |-> c.first, page |-> c.page, ents |-> c.ents]
          /\ c.first \in Nat /\ c.ents \in Seq(EntryType)
          /\ \A e \in DOMAIN c.ents :
               /\ HintOK(t, "vectors", c.first + e - 1, c.ents[e].page, hints, mv)
               /\ c.ents[e].dead => c.ents[e].page = 0
      BY <1>2, <3>1
    <3>3. \A e \in DOMAIN c.ents : c.first + e - 1 \in DOMAIN t.vectors
      <4> TAKE e \in DOMAIN c.ents
      <4>1. << k, e >> \in Entries(t)
        BY <3>1, EntriesAre
      <4>2. SlotOf(t, << k, e >>) = c.first + e - 1
        BY DEF SlotOf
      <4> QED BY <1>21, <4>1, <4>2
    <3> HIDE DEF c
    <3> QED BY <1>20, <3>1, <3>2, <3>3
  <2> QED BY <2>1, <2>2
<1>30. \A s \in DOMAIN z.pages.vectors : z.pages.vectors[s] \in Nat
  BY <1>1, <1>13, <1>14 DEF W, Put
<1>31. IvfBase(z, next + 1, hints, mv)
  <2>1. z.nodes = << >>
    BY <1>1, <1>12
  <2> QED BY <1>27, <1>28, <1>29, <1>30, <2>1 DEF IvfBase
<1>32. IvfHead(z, next + 1, head)
  <2>1. /\ IvfHead(t, next + 1, head) /\ DOMAIN head = DOMAIN m.head
        /\ head[L].n = m.head[L].n + 1
    <3>1. \A k \in DOMAIN t.lists : k \in Nat
      BY <1>2
    <3> QED BY <1>3, <3>1, CountChunkFacts DEF head
  <2>2. \A k \in DOMAIN z.lists : ListOfKey(k) \in DOMAIN head /\ k % Stride < head[ListOfKey(k)].n
    <3> TAKE k \in DOMAIN z.lists
    <3>1. CASE k = key
      BY <1>3, <2>1, <3>1
    <3>2. CASE k # key
      <4>1. k \in DOMAIN t.lists
        BY <1>12, <1>17, <3>2
      <4> QED BY <2>1, <4>1 DEF IvfHead
    <3> QED BY <3>1, <3>2
  <2> QED BY <2>1, <2>2 DEF IvfHead
<1>33. IvfView(z) = Put(IvfView(t), r, v)
  <2>1. V[R[r].slot] = v
    BY <1>16, <1>18 DEF at
  <2>2. \A u \in DOMAIN t.rowids : V[R[u].slot] = t.vectors[t.rowids[u].slot]
    <3> TAKE u \in DOMAIN t.rowids
    <3>1. PICK x \in Entries(t) : Ent(t, x).row = u /\ ~Ent(t, x).dead
      BY <1>26
    <3>2. /\ t.rowids[Ent(t, x).row] = [list |-> ListOfKey(x[1]), slot |-> SlotOf(t, x)]
          /\ SlotOf(t, x) \in DOMAIN t.vectors
      BY <1>21, <1>24, <3>1
    <3>3. t.rowids[u] = [list |-> ListOfKey(x[1]), slot |-> SlotOf(t, x)]
      BY <3>1, <3>2
    <3>4. t.rowids[u].slot \in DOMAIN t.vectors
      BY <3>2, <3>3
    <3> QED BY <1>16, <1>18, <3>4
  <2> QED BY <1>12, <1>18, <2>1, <2>2 DEF IvfView, VecOfSlot, Put
<1> QED BY <1>3, <1>12, <1>15, <1>31, <1>32, <1>33 DEF z, L, head

-----------------------------------------------------------------------------
(***************************************************************************)
(* Files with the same entries at the same slots.                          *)
(***************************************************************************)
SameEntries(z, t) ==
  /\ DOMAIN z.lists = DOMAIN t.lists
  /\ \A k \in DOMAIN t.lists :
       z.lists[k].first = t.lists[k].first /\ DOMAIN z.lists[k].ents = DOMAIN t.lists[k].ents

LEMMA SameEntriesFacts ==
  ASSUME NEW t, NEW z, SameEntries(z, t)
  PROVE  Entries(z) = Entries(t) /\ \A x \in Entries(t) : SlotOf(z, x) = SlotOf(t, x)
<1>1. \A x : x \in Entries(z) <=> x \in Entries(t)
  <2> TAKE x
  <2>1. x \in Entries(z) <=> \E k \in DOMAIN z.lists : \E e \in DOMAIN z.lists[k].ents : x = << k, e >>
    BY EntriesAre
  <2>2. x \in Entries(t) <=> \E k \in DOMAIN t.lists : \E e \in DOMAIN t.lists[k].ents : x = << k, e >>
    BY EntriesAre
  <2> QED BY <2>1, <2>2 DEF SameEntries
<1>2. ASSUME NEW x \in Entries(t) PROVE SlotOf(z, x) = SlotOf(t, x)
  <2>1. PICK k \in DOMAIN t.lists : \E e \in DOMAIN t.lists[k].ents : x = << k, e >>
    BY EntriesAre
  <2>2. PICK e \in DOMAIN t.lists[k].ents : x = << k, e >>
    BY <2>1
  <2>3. x[1] = k
    BY <2>2
  <2> QED BY <2>3 DEF SlotOf, SameEntries
<1> QED BY <1>1, <1>2

LEMMA WholeWithSameEntries ==
  ASSUME NEW t, NEW z, IvfWhole(t), SameEntries(z, t), SameFunction(z.vectors, t.vectors),
         \A x \in Entries(t) : Ent(z, x).code = Ent(t, x).code,
         \A x \in Entries(t) : ~Ent(z, x).dead =>
           /\ Ent(z, x).row \in DOMAIN z.rowids
           /\ z.rowids[Ent(z, x).row] = [list |-> ListOfKey(x[1]), slot |-> SlotOf(t, x)],
         \A r \in DOMAIN z.rowids : \E x \in Entries(t) : Ent(z, x).row = r /\ ~Ent(z, x).dead
  PROVE  IvfWhole(z)
<1>1. Entries(z) = Entries(t) /\ \A x \in Entries(t) : SlotOf(z, x) = SlotOf(t, x)
  BY SameEntriesFacts
<1>2. \A x, y \in Entries(t) : SlotOf(t, x) = SlotOf(t, y) => x = y
  BY DEF IvfWhole
<1>3. \A x \in Entries(t) : SlotOf(t, x) \in DOMAIN t.vectors
                            /\ Ent(t, x).code = CodeOf[t.vectors[SlotOf(t, x)]]
  BY DEF IvfWhole, Ent
<1>4. \A x, y \in Entries(z) : SlotOf(z, x) = SlotOf(z, y) => x = y
  BY <1>1, <1>2
<1>5. ASSUME NEW x \in Entries(z)
      PROVE  /\ SlotOf(z, x) \in DOMAIN z.vectors
             /\ Ent(z, x).code = CodeOf[z.vectors[SlotOf(z, x)]]
             /\ ~Ent(z, x).dead => /\ Ent(z, x).row \in DOMAIN z.rowids
                                   /\ z.rowids[Ent(z, x).row] =
                                        [list |-> ListOfKey(x[1]), slot |-> SlotOf(z, x)]
  <2>1. x \in Entries(t) /\ SlotOf(z, x) = SlotOf(t, x)
    BY <1>1
  <2>2. SlotOf(t, x) \in DOMAIN z.vectors /\ z.vectors[SlotOf(t, x)] = t.vectors[SlotOf(t, x)]
    BY <1>3, <2>1 DEF SameFunction
  <2> QED BY <1>3, <2>1, <2>2
<1>6. \A r \in DOMAIN z.rowids : \E x \in Entries(z) : Ent(z, x).row = r /\ ~Ent(z, x).dead
  BY <1>1
<1> QED BY <1>4, <1>5, <1>6 DEF IvfWhole, Ent

(* What the invariant says of one entry.                                   *)
LEMMA EntryFacts ==
  ASSUME NEW t, NEW next, NEW hints, NEW mv, IvfBase(t, next, hints, mv), NEW x \in Entries(t)
  PROVE  /\ x = << x[1], x[2] >> /\ x[1] \in DOMAIN t.lists /\ x[1] \in Nat
         /\ x[2] \in DOMAIN t.lists[x[1]].ents /\ x[2] \in Nat
         /\ Ent(t, x) \in EntryType
         /\ SlotOf(t, x) \in DOMAIN t.vectors /\ SlotOf(t, x) \in Nat /\ SlotOf(t, x) < next
         /\ HintOK(t, "vectors", SlotOf(t, x), Ent(t, x).page, hints, mv)
         /\ Ent(t, x).dead => Ent(t, x).page = 0
         /\ Ent(t, x).code = CodeOf[t.vectors[SlotOf(t, x)]]
         /\ ~Ent(t, x).dead => /\ Ent(t, x).row \in DOMAIN t.rowids
                               /\ t.rowids[Ent(t, x).row] =
                                    [list |-> ListOfKey(x[1]), slot |-> SlotOf(t, x)]
<1>1. PICK k \in DOMAIN t.lists : \E e \in DOMAIN t.lists[k].ents : x = << k, e >>
  BY EntriesAre
<1>2. PICK e \in DOMAIN t.lists[k].ents : x = << k, e >>
  BY <1>1
<1>3. x[1] = k /\ x[2] = e
  BY <1>2
<1>4. /\ k \in Nat /\ t.lists[k].ents \in Seq(EntryType)
      /\ HintOK(t, "vectors", t.lists[k].first + e - 1, t.lists[k].ents[e].page, hints, mv)
      /\ t.lists[k].ents[e].dead => t.lists[k].ents[e].page = 0
  BY DEF IvfBase
<1>5. e \in Nat /\ t.lists[k].ents[e] \in EntryType
  <2> DEFINE s == t.lists[k].ents
  <2>1. s \in Seq(EntryType) /\ e \in DOMAIN s
    BY <1>4
  <2> HIDE DEF s
  <2>2. DOMAIN s = 1 .. Len(s) /\ Len(s) \in Nat /\ s[e] \in EntryType
    BY <2>1, LenProperties, ElementOfSeq
  <2> QED BY <2>1, <2>2 DEF s
<1>6. SlotOf(t, x) = t.lists[k].first + e - 1 /\ Ent(t, x) = t.lists[k].ents[e]
  BY <1>3 DEF SlotOf, Ent
<1>7. /\ SlotOf(t, x) \in DOMAIN t.vectors
      /\ Ent(t, x).code = CodeOf[t.vectors[SlotOf(t, x)]]
      /\ ~Ent(t, x).dead => /\ Ent(t, x).row \in DOMAIN t.rowids
                            /\ t.rowids[Ent(t, x).row] =
                                 [list |-> ListOfKey(x[1]), slot |-> SlotOf(t, x)]
  BY DEF IvfBase, IvfWhole, Ent
<1>8. SlotOf(t, x) \in Nat /\ SlotOf(t, x) < next
  BY <1>7 DEF IvfBase
<1> QED BY <1>2, <1>3, <1>4, <1>5, <1>6, <1>7, <1>8

-----------------------------------------------------------------------------
(***************************************************************************)
(* delete_ivf flags the one live entry of the row.                         *)
(***************************************************************************)
LEMMA DeleteEntryFacts ==
  ASSUME NEW t, Shape(t), NEW next \in Nat, NEW hints \in BOOLEAN, NEW mv \in BOOLEAN,
         IvfBase(t, next, hints, mv), NEW r \in DOMAIN t.rowids
  PROVE  LET z == DeleteEntry(t, r)
         IN  /\ Shape(z) /\ z.state = t.state /\ z.buffer = t.buffer /\ z.head = t.head
             /\ DOMAIN z.lists = DOMAIN t.lists /\ IvfBase(z, next, hints, mv)
             /\ IvfView(z) = Less(IvfView(t), r)
<1> DEFINE z == DeleteEntry(t, r)
           at == t.rowids[r]
           hit == {k \in KeysOf(t, at.list) :
                     at.slot \in t.lists[k].first .. t.lists[k].first + Len(t.lists[k].ents) - 1}
           Flag(e) == IF e.row = r THEN [e EXCEPT !.dead = TRUE, !.page = 0] ELSE e
           Flagged(c) == [c EXCEPT !.ents[at.slot - c.first + 1] = Flag(@)]
           C == [k \in DOMAIN t.lists |-> IF k \in hit THEN Flagged(t.lists[k]) ELSE t.lists[k]]
           R == Restrict(t.rowids, DOMAIN t.rowids \ {r})
<1>1. z = [t EXCEPT !.rowids = R, !.lists = C]
  BY DEF DeleteEntry
<1>2. PICK x \in Entries(t) : Ent(t, x).row = r /\ ~Ent(t, x).dead
  BY DEF IvfBase, IvfWhole, Ent
<1> DEFINE k0 == x[1]
           e0 == x[2]
           c0 == t.lists[k0]
<1>3. /\ x = << k0, e0 >> /\ k0 \in DOMAIN t.lists /\ e0 \in DOMAIN c0.ents /\ e0 \in Nat
      /\ Ent(t, x) \in EntryType /\ Ent(t, x) = c0.ents[e0]
      /\ at = [list |-> ListOfKey(k0), slot |-> SlotOf(t, x)]
      /\ SlotOf(t, x) = c0.first + e0 - 1
  BY <1>2, EntryFacts DEF Ent, SlotOf
<1>4. \A y, w \in Entries(t) : SlotOf(t, y) = SlotOf(t, w) => y = w
  BY DEF IvfBase, IvfWhole
<1>5. ASSUME NEW k \in DOMAIN t.lists
      PROVE  /\ k \in Nat
             /\ t.lists[k] = [first |-> t.lists[k].first, page |-> t.lists[k].page, ents |-> t.lists[k].ents]
             /\ t.lists[k].first \in Nat /\ t.lists[k].ents \in Seq(EntryType)
             /\ DOMAIN t.lists[k].ents = 1 .. Len(t.lists[k].ents) /\ Len(t.lists[k].ents) \in Nat
             /\ \A e \in DOMAIN t.lists[k].ents :
                  /\ HintOK(t, "vectors", t.lists[k].first + e - 1, t.lists[k].ents[e].page, hints, mv)
                  /\ t.lists[k].ents[e].dead => t.lists[k].ents[e].page = 0
  BY LenProperties DEF IvfBase
<1>6. at.list = ListOfKey(k0) /\ at.slot = c0.first + e0 - 1
  BY <1>3
<1> HIDE DEF at
<1>7. k0 \in hit
  <2>1. k0 \in KeysOf(t, at.list)
    BY <1>3, <1>6 DEF KeysOf
  <2>2. c0.first \in Nat /\ Len(c0.ents) \in Nat /\ e0 \in 1 .. Len(c0.ents)
    BY <1>3, <1>5
  <2> HIDE DEF k0, e0
  <2>3. at.slot \in c0.first .. c0.first + Len(c0.ents) - 1
    BY <1>6, <2>2
  <2> QED BY <2>1, <2>3
<1>8. \A k \in hit : k = k0
  <2> TAKE k \in hit
  <2> DEFINE e == at.slot - t.lists[k].first + 1
  <2>1. k \in DOMAIN t.lists
    BY DEF KeysOf
  <2>2. t.lists[k].first \in Nat /\ Len(t.lists[k].ents) \in Nat
        /\ DOMAIN t.lists[k].ents = 1 .. Len(t.lists[k].ents)
    BY <1>5, <2>1
  <2>0. at.slot \in t.lists[k].first .. t.lists[k].first + Len(t.lists[k].ents) - 1
    OBVIOUS
  <2> HIDE DEF hit
  <2>3. e \in DOMAIN t.lists[k].ents /\ t.lists[k].first + e - 1 = at.slot
    <3> DEFINE f == t.lists[k].first
               n == Len(t.lists[k].ents)
               s == at.slot
    <3>1. f \in Nat /\ n \in Nat /\ s \in f .. f + n - 1
      BY <2>0, <2>2
    <3> HIDE DEF f, n, s
    <3>2. s - f + 1 \in 1 .. n /\ f + (s - f + 1) - 1 = s
      BY <3>1
    <3> QED BY <2>2, <3>2 DEF f, n, s
  <2> HIDE DEF e
  <2>4. << k, e >> \in Entries(t)
    BY <2>1, <2>3, EntriesAre
  <2>5. SlotOf(t, << k, e >>) = at.slot
    BY <2>3 DEF SlotOf
  <2>6. << k, e >> = x
    BY <1>3, <1>4, <1>6, <2>4, <2>5
  <2> QED BY <2>6
<1> DEFINE flag == [c0.ents[e0] EXCEPT !.dead = TRUE, !.page = 0]
           ents == [c0.ents EXCEPT ![e0] = flag]
<1>9. C[k0] = [first |-> c0.first, page |-> c0.page, ents |-> ents]
  <2>1. C[k0] = Flagged(c0)
    BY <1>3, <1>7
  <2>2. at.slot - c0.first + 1 = e0
    <3> DEFINE f == c0.first
    <3>1. f \in Nat /\ e0 \in Nat /\ at.slot = f + e0 - 1
      BY <1>3, <1>5, <1>6
    <3> HIDE DEF f, e0
    <3> QED BY <3>1 DEF f
  <2>3. Flag(c0.ents[e0]) = flag
    BY <1>2, <1>3
  <2>4. c0 = [first |-> c0.first, page |-> c0.page, ents |-> c0.ents]
    BY <1>3, <1>5
  <2>5. Flagged(c0) = [c0 EXCEPT !.ents = [c0.ents EXCEPT ![e0] = Flag(c0.ents[e0])]]
    BY <2>2, <2>4
  <2> HIDE DEF C, c0, flag, Flag, Flagged
  <2>6. Flagged(c0) = [c0 EXCEPT !.ents = ents]
    BY <2>3, <2>5
  <2> QED BY <2>1, <2>4, <2>6
<1>10. DOMAIN C = DOMAIN t.lists /\ \A k \in DOMAIN t.lists : k # k0 => C[k] = t.lists[k]
  BY <1>8
<1> HIDE DEF C, hit, R, z
<1>11. z = [buffer |-> t.buffer, nodes |-> t.nodes, rowids |-> R,
            vectors |-> t.vectors, lists |-> C, head |-> t.head, state |-> t.state,
            pages |-> t.pages, top |-> t.top]
  BY <1>1 DEF Shape
<1>12. /\ z.buffer = t.buffer /\ z.nodes = t.nodes /\ z.rowids = R /\ z.vectors = t.vectors
       /\ z.lists = C /\ z.head = t.head /\ z.state = t.state /\ z.pages = t.pages /\ z.top = t.top
  BY <1>11
<1>13. Shape(z)
  BY <1>11, <1>12 DEF Shape
<1>14. /\ flag = [row |-> r, dead |-> TRUE, page |-> 0, code |-> c0.ents[e0].code]
       /\ flag \in EntryType /\ flag.dead /\ flag.page = 0 /\ flag.code = c0.ents[e0].code
  <2> DEFINE o == c0.ents[e0]
  <2>1. o \in EntryType /\ o.row = r
    BY <1>2, <1>3
  <2>2. flag = [o EXCEPT !.dead = TRUE, !.page = 0]
    OBVIOUS
  <2> HIDE DEF o, flag
  <2>3. flag = [row |-> o.row, dead |-> TRUE, page |-> 0, code |-> o.code]
    BY <2>1, <2>2 DEF EntryType
  <2>4. flag.dead = TRUE /\ flag.page = 0 /\ flag.code = o.code
    BY <2>3
  <2>5. flag \in EntryType
    BY <2>1, <2>3 DEF EntryType
  <2> QED BY <2>1, <2>3, <2>4, <2>5 DEF o
<1> HIDE DEF flag
<1>15. /\ ents \in Seq(EntryType) /\ DOMAIN ents = DOMAIN c0.ents /\ ents[e0] = flag
       /\ \A e \in DOMAIN c0.ents : e # e0 => ents[e] = c0.ents[e]
  <2> DEFINE s == c0.ents
  <2>1. s \in Seq(EntryType) /\ e0 \in DOMAIN s /\ e0 \in 1 .. Len(s)
    BY <1>3, <1>5
  <2> HIDE DEF s, e0
  <2>2. [s EXCEPT ![e0] = flag] \in Seq(EntryType)
    BY <1>14, <2>1, ExceptSeq
  <2> QED BY <2>1, <2>2 DEF s
<1> HIDE DEF ents
<1>16. /\ z.lists[k0].first = c0.first /\ z.lists[k0].page = c0.page /\ z.lists[k0].ents = ents
       /\ z.lists[k0] = [first |-> z.lists[k0].first, page |-> z.lists[k0].page, ents |-> z.lists[k0].ents]
  BY <1>9, <1>12
<1>17. SameEntries(z, t)
  <2>1. DOMAIN z.lists = DOMAIN t.lists
    BY <1>10, <1>12
  <2>2. ASSUME NEW k \in DOMAIN t.lists
        PROVE  z.lists[k].first = t.lists[k].first /\ DOMAIN z.lists[k].ents = DOMAIN t.lists[k].ents
    <3>1. CASE k = k0
      BY <1>15, <1>16, <3>1
    <3>2. CASE k # k0
      BY <1>10, <1>12, <3>2
    <3> QED BY <3>1, <3>2
  <2> QED BY <2>1, <2>2 DEF SameEntries
<1>18. Ent(z, x) = flag
  BY <1>15, <1>16 DEF Ent
<1>19. ASSUME NEW y \in Entries(t), y # x PROVE Ent(z, y) = Ent(t, y)
  <2>1. y = << y[1], y[2] >> /\ y[1] \in DOMAIN t.lists /\ y[2] \in DOMAIN t.lists[y[1]].ents
    BY EntryFacts
  <2>2. CASE y[1] # k0
    BY <1>10, <1>12, <2>1, <2>2 DEF Ent
  <2>3. CASE y[1] = k0
    <3>1. y[2] # e0
      BY <1>3, <1>19, <2>1, <2>3
    <3>2. z.lists[y[1]].ents = ents /\ t.lists[y[1]] = c0
      BY <1>16, <2>3
    <3> QED BY <1>15, <2>1, <3>1, <3>2 DEF Ent
  <2> QED BY <2>2, <2>3
<1>20. DOMAIN R = DOMAIN t.rowids \ {r} /\ \A u \in DOMAIN R : R[u] = t.rowids[u]
  BY DEF R, Restrict
<1>21. IvfWhole(z)
  <2>0. IvfWhole(t) /\ SameFunction(z.vectors, t.vectors)
    BY <1>12 DEF IvfBase, SameFunction
  <2>1. \A y \in Entries(t) : Ent(z, y).code = Ent(t, y).code
    <3> TAKE y \in Entries(t)
    <3>1. CASE y = x
      BY <1>3, <1>14, <1>18, <3>1
    <3>2. CASE y # x
      BY <1>19, <3>2
    <3> QED BY <3>1, <3>2
  <2>2. \A y \in Entries(t) : ~Ent(z, y).dead =>
           /\ Ent(z, y).row \in DOMAIN z.rowids
           /\ z.rowids[Ent(z, y).row] = [list |-> ListOfKey(y[1]), slot |-> SlotOf(t, y)]
    <3> TAKE y \in Entries(t)
    <3> HAVE ~Ent(z, y).dead
    <3>1. y # x
      BY <1>14, <1>18
    <3>2. Ent(z, y) = Ent(t, y)
      BY <1>19, <3>1
    <3>3. /\ Ent(t, y).row \in DOMAIN t.rowids
          /\ t.rowids[Ent(t, y).row] = [list |-> ListOfKey(y[1]), slot |-> SlotOf(t, y)]
      BY <3>2, EntryFacts
    <3>4. Ent(t, y).row # r
      <4> SUFFICES ASSUME Ent(t, y).row = r PROVE FALSE
        OBVIOUS
      <4>1. at.slot = SlotOf(t, y)
        BY <3>3 DEF at
      <4>2. SlotOf(t, x) = SlotOf(t, y)
        BY <1>3, <1>6, <4>1
      <4> QED BY <1>4, <3>1, <4>2
    <3> QED BY <1>12, <1>20, <3>2, <3>3, <3>4
  <2>3. \A u \in DOMAIN z.rowids : \E y \in Entries(t) : Ent(z, y).row = u /\ ~Ent(z, y).dead
    <3> TAKE u \in DOMAIN z.rowids
    <3>1. u \in DOMAIN t.rowids /\ u # r
      BY <1>12, <1>20
    <3>2. PICK y \in Entries(t) : Ent(t, y).row = u /\ ~Ent(t, y).dead
      BY <2>0, <3>1 DEF IvfWhole, Ent
    <3>3. y # x
      BY <1>2, <3>1, <3>2
    <3> QED BY <1>19, <3>2, <3>3
  <2> QED BY <1>17, <2>0, <2>1, <2>2, <2>3, WholeWithSameEntries
<1>22. \A s, p : HintOK(t, "vectors", s, p, hints, mv) => HintOK(z, "vectors", s, p, hints, mv)
  BY <1>12 DEF HintOK, PageOf
<1>23. ASSUME NEW k \in DOMAIN z.lists
       PROVE  LET c == z.lists[k]
              IN  /\ k \in Nat
                  /\ c = [first |-> c.first, page |-> c.page, ents |-> c.ents]
                  /\ c.first \in Nat /\ c.ents \in Seq(EntryType)
                  /\ \A e \in DOMAIN c.ents :
                       /\ HintOK(z, "vectors", c.first + e - 1, c.ents[e].page, hints, mv)
                       /\ c.ents[e].dead => c.ents[e].page = 0
  <2>0. k \in DOMAIN t.lists
    BY <1>10, <1>12
  <2>1. CASE k # k0
    <3>1. z.lists[k] = t.lists[k]
      BY <1>10, <1>12, <2>0, <2>1
    <3> QED BY <1>5, <1>22, <2>0, <3>1
  <2>2. CASE k = k0
    <3>1. /\ k \in Nat /\ c0.first \in Nat
          /\ \A e \in DOMAIN c0.ents :
               /\ HintOK(t, "vectors", c0.first + e - 1, c0.ents[e].page, hints, mv)
               /\ c0.ents[e].dead => c0.ents[e].page = 0
      BY <1>5, <2>0, <2>2
    <3>2. ASSUME NEW e \in DOMAIN ents
          PROVE  /\ HintOK(z, "vectors", c0.first + e - 1, ents[e].page, hints, mv)
                 /\ ents[e].dead => ents[e].page = 0
      <4>1. CASE e = e0
        <5>1. ents[e].page = 0
          BY <1>14, <1>15, <4>1
        <5> QED BY <5>1 DEF HintOK
      <4>2. CASE e # e0
        BY <1>15, <1>22, <3>1, <4>2
      <4> QED BY <4>1, <4>2
    <3> QED BY <1>15, <1>16, <2>2, <3>1, <3>2
  <2> QED BY <2>1, <2>2
<1>24. IvfBase(z, next, hints, mv)
  <2>1. /\ z.nodes = << >>
        /\ \A s \in DOMAIN z.vectors : s \in Nat /\ s < next /\ z.vectors[s] \in Vecs
        /\ \A s \in DOMAIN z.pages.vectors : z.pages.vectors[s] \in Nat
    BY <1>12 DEF IvfBase
  <2> QED BY <1>21, <1>23, <2>1 DEF IvfBase
<1>25. IvfView(z) = Less(IvfView(t), r)
  BY <1>12, <1>20 DEF IvfView, VecOfSlot, Less
<1> QED BY <1>10, <1>12, <1>13, <1>24, <1>25 DEF z

-----------------------------------------------------------------------------
(***************************************************************************)
(* finalize_ivf writes right hints, and no dead entry has one.             *)
(***************************************************************************)
ChunkBelow(c, n) ==
  /\ c.first \in Nat /\ c.ents \in Seq(EntryType)
  /\ c = [first |-> c.first, page |-> c.page, ents |-> c.ents]
  /\ \A e \in DOMAIN c.ents : c.first + e - 1 < n
  /\ \A e \in DOMAIN c.ents : c.ents[e].dead => c.ents[e].page = 0

(* d is chunk c with other pages.                                          *)
IsPaged(d, c, t) ==
  /\ d = [first |-> d.first, page |-> d.page, ents |-> d.ents]
  /\ d.first = c.first /\ d.ents \in Seq(EntryType) /\ DOMAIN d.ents = DOMAIN c.ents
  /\ \A e \in DOMAIN c.ents :
       /\ d.ents[e].row = c.ents[e].row /\ d.ents[e].dead = c.ents[e].dead
       /\ d.ents[e].code = c.ents[e].code
       /\ d.ents[e].page \in {0, PageOf(t, "vectors", c.first + e - 1)}
       /\ d.ents[e].dead => d.ents[e].page = 0

LEMMA PagedChunkFacts ==
  ASSUME NEW t, \A s \in DOMAIN t.pages.vectors : t.pages.vectors[s] \in Nat,
         NEW n \in Nat, NEW c, ChunkBelow(c, n)
  PROVE  IsPaged(PagedChunk(t, n, c), c, t)
<1> DEFINE Page(slot) == IF slot < n THEN PageOf(t, "vectors", slot) ELSE 0
           fvp == Page(c.first)
           p(e) == IF fvp # 0 /\ Page(c.first + e - 1) >= fvp THEN Page(c.first + e - 1) ELSE 0
           Paged(e) == IF c.ents[e].dead THEN c.ents[e] ELSE [c.ents[e] EXCEPT !.page = p(e)]
           ents == [e \in DOMAIN c.ents |-> Paged(e)]
           d == PagedChunk(t, n, c)
<1>0. /\ c.first \in Nat /\ c.ents \in Seq(EntryType)
      /\ c = [first |-> c.first, page |-> c.page, ents |-> c.ents]
      /\ \A e \in DOMAIN c.ents : c.first + e - 1 < n
      /\ \A e \in DOMAIN c.ents : c.ents[e].dead => c.ents[e].page = 0
  BY DEF ChunkBelow
<1>1. d = [c EXCEPT !.page = fvp, !.ents = ents]
  BY DEF PagedChunk
<1>2. DOMAIN c.ents = 1 .. Len(c.ents) /\ Len(c.ents) \in Nat
      /\ \A e \in DOMAIN c.ents : c.ents[e] \in EntryType
  BY <1>0, LenProperties, ElementOfSeq
<1>3. \A s : PageOf(t, "vectors", s) \in Nat
  BY DEF PageOf
<1>4. \A e \in DOMAIN c.ents : p(e) \in {0, PageOf(t, "vectors", c.first + e - 1)} /\ p(e) \in Nat
  <2> TAKE e \in DOMAIN c.ents
  <2>1. Page(c.first + e - 1) = PageOf(t, "vectors", c.first + e - 1)
    BY <1>0
  <2> HIDE DEF Page
  <2>2. p(e) = Page(c.first + e - 1) \/ p(e) = 0
    OBVIOUS
  <2> QED BY <1>3, <2>1, <2>2
<1> HIDE DEF p, fvp
<1>5. ASSUME NEW e \in DOMAIN c.ents
      PROVE  /\ Paged(e) \in EntryType
             /\ Paged(e).row = c.ents[e].row /\ Paged(e).dead = c.ents[e].dead
             /\ Paged(e).code = c.ents[e].code
             /\ Paged(e).page \in {0, PageOf(t, "vectors", c.first + e - 1)}
             /\ Paged(e).dead => Paged(e).page = 0
  <2> DEFINE o == c.ents[e]
  <2>1. o \in EntryType /\ (o.dead => o.page = 0)
    BY <1>0, <1>2
  <2>2. Paged(e) = IF o.dead THEN o ELSE [o EXCEPT !.page = p(e)]
    OBVIOUS
  <2> HIDE DEF Paged, o
  <2>3. CASE o.dead
    BY <2>1, <2>2, <2>3 DEF o
  <2>4. CASE ~o.dead
    <3>1. Paged(e) = [row |-> o.row, dead |-> o.dead, page |-> p(e), code |-> o.code]
      BY <2>1, <2>2, <2>4 DEF EntryType
    <3>2. /\ Paged(e).row = o.row /\ Paged(e).dead = o.dead /\ Paged(e).page = p(e)
          /\ Paged(e).code = o.code
      BY <3>1
    <3>3. Paged(e) \in EntryType
      BY <1>4, <2>1, <3>1 DEF EntryType
    <3> QED BY <1>4, <2>4, <3>2, <3>3 DEF o
  <2> QED BY <2>3, <2>4
<1> HIDE DEF Paged
<1>6. ents = [e \in 1 .. Len(c.ents) |-> Paged(e)]
  BY <1>2
<1>7. \A e \in 1 .. Len(c.ents) : Paged(e) \in EntryType
  BY <1>2, <1>5
<1>8. ents \in Seq(EntryType)
  <2> HIDE DEF ents
  <2> QED BY <1>2, <1>6, <1>7, IsASeq
<1>9. DOMAIN ents = DOMAIN c.ents /\ \A e \in DOMAIN c.ents : ents[e] = Paged(e)
  OBVIOUS
<1> HIDE DEF ents, d
<1>10. d = [first |-> c.first, page |-> fvp, ents |-> ents]
  BY <1>0, <1>1
<1>11. d.first = c.first /\ d.page = fvp /\ d.ents = ents
  BY <1>10
<1>12. /\ d.ents \in Seq(EntryType) /\ DOMAIN d.ents = DOMAIN c.ents
       /\ \A e \in DOMAIN c.ents : d.ents[e] = Paged(e)
  BY <1>8, <1>9, <1>11
<1> QED BY <1>5, <1>10, <1>11, <1>12 DEF d, IsPaged

LEMMA RangedFacts ==
  ASSUME NEW t, NEW head, NEW L,
         head[L] = [n |-> head[L].n, first |-> head[L].first, last |-> head[L].last]
  PROVE  LET h == Ranged(t, head, L)
         IN h = [n |-> h.n, first |-> h.first, last |-> h.last] /\ h.n = head[L].n
<1> DEFINE h == Ranged(t, head, L)
           o == head[L]
           keys == KeysOf(t, L)
           F == IF ListKey(L, 0) \in keys THEN t.pages.lists[ListKey(L, 0)] ELSE o.first
           G == t.pages.lists[CHOOSE k \in keys : \A l \in keys : l <= k]
<1>1. h = o \/ h = [o EXCEPT !.first = 0, !.last = 0] \/ h = [o EXCEPT !.first = F, !.last = G]
  BY DEF Ranged
<1> HIDE DEF h, F, G
<1>2. o = [n |-> o.n, first |-> o.first, last |-> o.last]
  OBVIOUS
<1> HIDE DEF o
<1>3. \/ h = [n |-> o.n, first |-> o.first, last |-> o.last]
      \/ h = [n |-> o.n, first |-> 0, last |-> 0]
      \/ h = [n |-> o.n, first |-> F, last |-> G]
  BY <1>1, <1>2
<1>4. \A f, l : h = [n |-> o.n, first |-> f, last |-> l] =>
                h = [n |-> h.n, first |-> h.first, last |-> h.last] /\ h.n = o.n
  OBVIOUS
<1> QED BY <1>3, <1>4 DEF h, o

LEMMA FinalizeIvfFacts ==
  ASSUME NEW t, Shape(t), NEW next \in Nat, NEW old, NEW was, IvfBase(t, next, old, was),
         NEW m, m.next = next, IvfHead(t, next, m.head),
         NEW hints \in BOOLEAN, hints, NEW mv \in BOOLEAN
  PROVE  LET z == FinalizeIvf(t, m)
         IN  /\ Shape(z) /\ z.state = t.state /\ z.buffer = t.buffer
             /\ IvfBase(z, next, hints, mv) /\ IvfHead(z, next, z.head)
             /\ IvfView(z) = IvfView(t)
<1> DEFINE z == FinalizeIvf(t, m)
           C == [k \in DOMAIN t.lists |-> PagedChunk(t, next, t.lists[k])]
           head == [L \in DOMAIN m.head |-> Ranged(t, m.head, L)]
<1>1. \A k \in DOMAIN t.lists : ListOfKey(k) \in DOMAIN m.head
  BY DEF IvfHead
<1>2. z = [buffer |-> t.buffer, nodes |-> t.nodes, rowids |-> t.rowids,
           vectors |-> t.vectors, lists |-> C, head |-> head, state |-> t.state,
           pages |-> t.pages, top |-> t.top]
  <2> DEFINE K == [k \in DOMAIN t.lists |->
                     IF ListOfKey(k) \in DOMAIN m.head
                     THEN PagedChunk(t, m.next, t.lists[k]) ELSE t.lists[k]]
  <2>1. z = [t EXCEPT !.head = head, !.lists = K]
    BY DEF FinalizeIvf
  <2>2. K = C
    BY <1>1
  <2> HIDE DEF K, C, z, head
  <2> QED BY <2>1, <2>2 DEF Shape
<1> HIDE DEF z
<1>3. /\ z.buffer = t.buffer /\ z.nodes = t.nodes /\ z.rowids = t.rowids /\ z.vectors = t.vectors
      /\ z.lists = C /\ z.head = head /\ z.state = t.state /\ z.pages = t.pages /\ z.top = t.top
  <2> HIDE DEF C, head
  <2> QED BY <1>2
<1>4. Shape(z)
  <2> HIDE DEF C, head
  <2> QED BY <1>2, <1>3 DEF Shape
<1>5. /\ t.nodes = << >>
      /\ \A s \in DOMAIN t.vectors : s \in Nat /\ s < next /\ t.vectors[s] \in Vecs
      /\ \A s \in DOMAIN t.pages.vectors : t.pages.vectors[s] \in Nat
      /\ IvfWhole(t)
  BY DEF IvfBase
<1>6. ASSUME NEW k \in DOMAIN t.lists
      PROVE  /\ k \in Nat /\ z.lists[k] = PagedChunk(t, next, t.lists[k])
             /\ z.lists[k] = [first |-> z.lists[k].first, page |-> z.lists[k].page, ents |-> z.lists[k].ents]
             /\ z.lists[k].first = t.lists[k].first /\ t.lists[k].first \in Nat
             /\ z.lists[k].ents \in Seq(EntryType)
             /\ DOMAIN z.lists[k].ents = DOMAIN t.lists[k].ents
             /\ \A e \in DOMAIN t.lists[k].ents :
                  /\ z.lists[k].ents[e].row = t.lists[k].ents[e].row
                  /\ z.lists[k].ents[e].dead = t.lists[k].ents[e].dead
                  /\ z.lists[k].ents[e].code = t.lists[k].ents[e].code
                  /\ z.lists[k].ents[e].page \in {0, PageOf(t, "vectors", t.lists[k].first + e - 1)}
                  /\ z.lists[k].ents[e].dead => z.lists[k].ents[e].page = 0
  <2> DEFINE c == t.lists[k]
             d == PagedChunk(t, next, c)
  <2>1. z.lists[k] = d
    BY <1>3
  <2>2. /\ k \in Nat /\ c = [first |-> c.first, page |-> c.page, ents |-> c.ents]
        /\ c.first \in Nat /\ c.ents \in Seq(EntryType)
        /\ \A e \in DOMAIN c.ents : c.ents[e].dead => c.ents[e].page = 0
    BY DEF IvfBase
  <2>3. \A e \in DOMAIN c.ents : c.first + e - 1 < next
    <3> TAKE e \in DOMAIN c.ents
    <3>1. << k, e >> \in Entries(t)
      BY EntriesAre
    <3>2. SlotOf(t, << k, e >>) < next
      BY <3>1, EntryFacts
    <3> QED BY <3>2 DEF SlotOf
  <2> HIDE DEF c
  <2>0. IsPaged(d, c, t)
    <3>1. ChunkBelow(c, next)
      BY <2>2, <2>3 DEF ChunkBelow
    <3> QED BY <1>5, <3>1, PagedChunkFacts
  <2> HIDE DEF d
  <2>4. /\ d = [first |-> d.first, page |-> d.page, ents |-> d.ents]
        /\ d.first = c.first /\ d.ents \in Seq(EntryType) /\ DOMAIN d.ents = DOMAIN c.ents
        /\ \A e \in DOMAIN c.ents :
             /\ d.ents[e].row = c.ents[e].row /\ d.ents[e].dead = c.ents[e].dead
             /\ d.ents[e].code = c.ents[e].code
             /\ d.ents[e].page \in {0, PageOf(t, "vectors", c.first + e - 1)}
             /\ d.ents[e].dead => d.ents[e].page = 0
    BY <2>0 DEF IsPaged
  <2>5. z.lists[k] = d /\ d = PagedChunk(t, next, t.lists[k])
    BY <2>1 DEF c, d
  <2> QED BY <2>2, <2>4, <2>5 DEF c
<1>7. DOMAIN z.lists = DOMAIN t.lists
  BY <1>3
<1> HIDE DEF C
<1>8. SameEntries(z, t)
  BY <1>6, <1>7 DEF SameEntries
<1>9. ASSUME NEW x \in Entries(t)
      PROVE  /\ Ent(z, x).row = Ent(t, x).row /\ Ent(z, x).dead = Ent(t, x).dead
             /\ Ent(z, x).code = Ent(t, x).code
  <2>1. x[1] \in DOMAIN t.lists /\ x[2] \in DOMAIN t.lists[x[1]].ents
    BY EntryFacts
  <2> QED BY <1>6, <2>1 DEF Ent
<1>10. IvfWhole(z)
  <2>1. SameFunction(z.vectors, t.vectors)
    BY <1>3 DEF SameFunction
  <2>2. \A x \in Entries(t) : Ent(z, x).code = Ent(t, x).code
    BY <1>9
  <2>3. \A x \in Entries(t) : ~Ent(z, x).dead =>
           /\ Ent(z, x).row \in DOMAIN z.rowids
           /\ z.rowids[Ent(z, x).row] = [list |-> ListOfKey(x[1]), slot |-> SlotOf(t, x)]
    <3> TAKE x \in Entries(t)
    <3>1. ~Ent(t, x).dead =>
           /\ Ent(t, x).row \in DOMAIN t.rowids
           /\ t.rowids[Ent(t, x).row] = [list |-> ListOfKey(x[1]), slot |-> SlotOf(t, x)]
      BY <1>5 DEF IvfWhole, Ent
    <3> QED BY <1>3, <1>9, <3>1
  <2>4. \A u \in DOMAIN z.rowids : \E x \in Entries(t) : Ent(z, x).row = u /\ ~Ent(z, x).dead
    <3> TAKE u \in DOMAIN z.rowids
    <3>1. PICK x \in Entries(t) : Ent(t, x).row = u /\ ~Ent(t, x).dead
      BY <1>3, <1>5 DEF IvfWhole, Ent
    <3> QED BY <1>9, <3>1
  <2> QED BY <1>5, <1>8, <2>1, <2>2, <2>3, <2>4, WholeWithSameEntries
<1>11. ASSUME NEW k \in DOMAIN z.lists
       PROVE  LET c == z.lists[k]
              IN  /\ k \in Nat
                  /\ c = [first |-> c.first, page |-> c.page, ents |-> c.ents]
                  /\ c.first \in Nat /\ c.ents \in Seq(EntryType)
                  /\ \A e \in DOMAIN c.ents :
                       /\ HintOK(z, "vectors", c.first + e - 1, c.ents[e].page, hints, mv)
                       /\ c.ents[e].dead => c.ents[e].page = 0
  <2>1. \A s : PageOf(z, "vectors", s) = PageOf(t, "vectors", s)
    BY <1>3 DEF PageOf
  <2>2. k \in DOMAIN t.lists
    BY <1>7
  <2>3. \A e \in DOMAIN z.lists[k].ents :
          /\ HintOK(z, "vectors", z.lists[k].first + e - 1, z.lists[k].ents[e].page, hints, mv)
          /\ z.lists[k].ents[e].dead => z.lists[k].ents[e].page = 0
    <3> TAKE e \in DOMAIN z.lists[k].ents
    <3>1. /\ z.lists[k].ents[e].page \in {0, PageOf(t, "vectors", z.lists[k].first + e - 1)}
          /\ z.lists[k].ents[e].dead => z.lists[k].ents[e].page = 0
      BY <1>6, <2>2
    <3> QED BY <2>1, <3>1 DEF HintOK
  <2> QED BY <1>6, <2>2, <2>3
<1>12. IvfBase(z, next, hints, mv)
  BY <1>3, <1>5, <1>10, <1>11 DEF IvfBase
<1>13. IvfHead(z, next, head)
  <2>1. PICK nl \in 1 .. NLists : Directory(m.head, nl, next)
    BY DEF IvfHead
  <2>2. DOMAIN head = DOMAIN m.head /\ \A L \in DOMAIN m.head : head[L] = Ranged(t, m.head, L)
    OBVIOUS
  <2> HIDE DEF head
  <2>3. \A L \in DOMAIN m.head :
          /\ head[L] = [n |-> head[L].n, first |-> head[L].first, last |-> head[L].last]
          /\ head[L].n = m.head[L].n
    <3> TAKE L \in DOMAIN m.head
    <3>1. m.head[L] = [n |-> m.head[L].n, first |-> m.head[L].first, last |-> m.head[L].last]
      BY <2>1 DEF Directory
    <3> QED BY <2>2, <3>1, RangedFacts
  <2>4. Directory(head, nl, next)
    BY <2>1, <2>2, <2>3 DEF Directory
  <2>5. \A k \in DOMAIN z.lists : ListOfKey(k) \in DOMAIN head /\ k % Stride < head[ListOfKey(k)].n
    BY <1>7, <2>2, <2>3 DEF IvfHead
  <2> QED BY <2>4, <2>5 DEF IvfHead
<1>14. IvfView(z) = IvfView(t)
  BY <1>3 DEF IvfView, VecOfSlot
<1> QED BY <1>3, <1>4, <1>12, <1>13, <1>14 DEF z

-----------------------------------------------------------------------------
(***************************************************************************)
(* VACUUM of an IVF index.                                                 *)
(***************************************************************************)
LEMMA KeysAreFinite ==
  ASSUME NEW t, NEW next, NEW head, IvfHead(t, next, head), \A k \in DOMAIN t.lists : k \in Nat
  PROVE  IsFiniteSet(DOMAIN t.lists) /\ DOMAIN t.lists \subseteq Nat
<1>1. PICK nl \in 1 .. NLists : Directory(head, nl, next)
  BY DEF IvfHead
<1>2. nl \in Nat /\ DOMAIN head = 0 .. nl - 1
  BY <1>1, IvfAssumption DEF Directory
<1>3. nl * Stride \in Nat
  BY <1>2, SMT DEF Stride
<1>4. \A k \in DOMAIN t.lists : k \in Nat /\ k < nl * Stride
  <2> TAKE k \in DOMAIN t.lists
  <2>1. k \in Nat /\ ListOfKey(k) \in 0 .. nl - 1
    BY <1>2 DEF IvfHead
  <2> QED BY <1>2, <2>1, SMT DEF ListOfKey, Stride
<1> QED BY <1>3, <1>4, BoundedIsFinite

LEMMA VacuumIvfFacts ==
  ASSUME NEW t, Shape(t), NEW next \in Nat, NEW hints \in BOOLEAN, NEW mv \in BOOLEAN,
         IvfBase(t, next, hints, mv), NEW head, IvfHead(t, next, head),
         NEW now \in BOOLEAN, hints => now
  PROVE  LET z == VacuumFile(t)
         IN  /\ Shape(z) /\ z.state = t.state /\ z.buffer = t.buffer /\ z.head = t.head
             /\ DOMAIN z.lists = DOMAIN t.lists /\ IvfBase(z, next, hints, now)
             /\ IvfView(z) = IvfView(t)
<1> DEFINE z == VacuumFile(t)
<1>1. /\ t.nodes = << >> /\ DOMAIN t.nodes = {}
      /\ \A s \in DOMAIN t.vectors : s \in Nat /\ s < next /\ t.vectors[s] \in Vecs
      /\ IvfWhole(t)
  BY DEF IvfBase
<1>2. ASSUME NEW k \in DOMAIN t.lists
      PROVE  LET c == t.lists[k]
             IN  /\ k \in Nat
                 /\ c = [first |-> c.first, page |-> c.page, ents |-> c.ents]
                 /\ c.first \in Nat /\ c.ents \in Seq(EntryType)
                 /\ \A e \in DOMAIN c.ents :
                      /\ HintOK(t, "vectors", c.first + e - 1, c.ents[e].page, hints, mv)
                      /\ c.ents[e].dead => c.ents[e].page = 0
  BY DEF IvfBase
<1>3. IsFiniteSet(DOMAIN t.lists) /\ DOMAIN t.lists \subseteq Nat
  BY <1>2, KeysAreFinite
<1>4. IsFiniteSet(DOMAIN t.vectors) /\ DOMAIN t.vectors \subseteq Nat
  BY <1>1, BoundedIsFinite
<1>5. IsFiniteSet({})
  BY FS_EmptySet
<1>6. /\ Shape(z) /\ Copied(z, t)
      /\ DOMAIN z.pages.vectors = DOMAIN t.vectors
      /\ \A k \in DOMAIN t.vectors : z.pages.vectors[k] \in Nat
  BY <1>1, <1>3, <1>4, <1>5, VacuumFacts
<1> HIDE DEF z
<1>7. /\ z.nodes = << >> /\ z.rowids = t.rowids
      /\ z.state = t.state /\ z.head = t.head /\ z.buffer = t.buffer
      /\ SameFunction(z.vectors, t.vectors)
      /\ DOMAIN z.lists = DOMAIN t.lists /\ \A k \in DOMAIN t.lists : z.lists[k] = t.lists[k]
  BY <1>1, <1>6 DEF Copied, SameFunction
<1>8. SameEntries(z, t)
  BY <1>7 DEF SameEntries
<1>9. \A x \in Entries(t) : Ent(z, x) = Ent(t, x)
  <2> TAKE x \in Entries(t)
  <2>1. x[1] \in DOMAIN t.lists
    BY EntryFacts
  <2> QED BY <1>7, <2>1 DEF Ent
<1>10. IvfWhole(z)
  <2>1. \A x \in Entries(t) : Ent(z, x).code = Ent(t, x).code
    BY <1>9
  <2>2. \A x \in Entries(t) : ~Ent(z, x).dead =>
           /\ Ent(z, x).row \in DOMAIN z.rowids
           /\ z.rowids[Ent(z, x).row] = [list |-> ListOfKey(x[1]), slot |-> SlotOf(t, x)]
    <3> TAKE x \in Entries(t)
    <3>1. ~Ent(t, x).dead =>
           /\ Ent(t, x).row \in DOMAIN t.rowids
           /\ t.rowids[Ent(t, x).row] = [list |-> ListOfKey(x[1]), slot |-> SlotOf(t, x)]
      BY <1>1 DEF IvfWhole, Ent
    <3> QED BY <1>7, <1>9, <3>1
  <2>3. \A u \in DOMAIN z.rowids : \E x \in Entries(t) : Ent(z, x).row = u /\ ~Ent(z, x).dead
    <3> TAKE u \in DOMAIN z.rowids
    <3>1. PICK x \in Entries(t) : Ent(t, x).row = u /\ ~Ent(t, x).dead
      BY <1>1, <1>7 DEF IvfWhole, Ent
    <3> QED BY <1>9, <3>1
  <2> QED BY <1>1, <1>7, <1>8, <2>1, <2>2, <2>3, WholeWithSameEntries
<1>11. \A tab, id, page : HintOK(t, tab, id, page, hints, mv) => HintOK(z, tab, id, page, hints, now)
  BY NoHintsNoPages
<1>12. ASSUME NEW k \in DOMAIN z.lists
       PROVE  LET c == z.lists[k]
              IN  /\ k \in Nat
                  /\ c = [first |-> c.first, page |-> c.page, ents |-> c.ents]
                  /\ c.first \in Nat /\ c.ents \in Seq(EntryType)
                  /\ \A e \in DOMAIN c.ents :
                       /\ HintOK(z, "vectors", c.first + e - 1, c.ents[e].page, hints, now)
                       /\ c.ents[e].dead => c.ents[e].page = 0
  <2>1. k \in DOMAIN t.lists /\ z.lists[k] = t.lists[k]
    BY <1>7
  <2> QED BY <1>2, <1>11, <2>1
<1>13. IvfBase(z, next, hints, now)
  <2>1. \A s \in DOMAIN z.vectors : s \in Nat /\ s < next /\ z.vectors[s] \in Vecs
    BY <1>1, <1>7 DEF SameFunction
  <2>2. \A s \in DOMAIN z.pages.vectors : z.pages.vectors[s] \in Nat
    BY <1>6
  <2> QED BY <1>7, <1>10, <1>12, <2>1, <2>2 DEF IvfBase
<1>14. IvfView(z) = IvfView(t)
  <2>1. \A r \in DOMAIN t.rowids : t.rowids[r].slot \in DOMAIN t.vectors
    <3> TAKE r \in DOMAIN t.rowids
    <3>1. PICK x \in Entries(t) : Ent(t, x).row = r /\ ~Ent(t, x).dead
      BY <1>1 DEF IvfWhole, Ent
    <3>2. /\ t.rowids[Ent(t, x).row] = [list |-> ListOfKey(x[1]), slot |-> SlotOf(t, x)]
          /\ SlotOf(t, x) \in DOMAIN t.vectors
      BY <3>1, EntryFacts
    <3>3. t.rowids[r] = [list |-> ListOfKey(x[1]), slot |-> SlotOf(t, x)]
      BY <3>1, <3>2
    <3> QED BY <3>2, <3>3
  <2> QED BY <1>7, <2>1 DEF IvfView, VecOfSlot, SameFunction
<1> QED BY <1>6, <1>7, <1>13, <1>14 DEF z

-----------------------------------------------------------------------------
(***************************************************************************)
(* build_ivf: the slots are the rows in order of list, cut into chunks.    *)
(***************************************************************************)
LEMMA Product ==
  ASSUME NEW a \in Nat, NEW b \in Nat, NEW c \in Nat
  PROVE  a * c \in Nat /\ (a < b => a * c + c <= b * c)
BY SMT

LEMMA Division ==
  ASSUME NEW a \in Nat, NEW c \in Nat \ {0}
  PROVE  a \div c \in Nat /\ (a \div c) * c <= a /\ a < (a \div c) * c + c
BY SMT

(* Something cut into pieces of c: how many pieces there are.              *)
LEMMA Pieces ==
  ASSUME NEW x \in Nat, NEW c \in Nat \ {0}
  PROVE  LET q == (x + c - 1) \div c
         IN  /\ q \in Nat /\ q <= x
             /\ \A j \in Nat : j < q => j * c \in Nat /\ j * c < x
             /\ \A y \in Nat : y < x => y \div c < q
<1> DEFINE q == (x + c - 1) \div c
<1>1. x + c - 1 \in Nat
  OBVIOUS
<1>2. q \in Nat /\ q * c <= x + c - 1 /\ x + c - 1 < q * c + c
  BY <1>1, Division
<1> HIDE DEF q
<1>3. q <= x
  <2> SUFFICES ASSUME x < q PROVE FALSE
    BY <1>2
  <2>1. x * c + c <= q * c /\ x * c \in Nat
    BY <1>2, Product
  <2>2. q * c \in Nat
    BY <1>2, Product
  <2>3. x <= x * c
    BY SMT
  <2> QED BY <1>2, <2>1, <2>2, <2>3
<1>4. ASSUME NEW j \in Nat, j < q PROVE j * c \in Nat /\ j * c < x
  <2>1. j * c \in Nat /\ j * c + c <= q * c /\ q * c \in Nat
    BY <1>2, <1>4, Product
  <2> QED BY <1>2, <2>1
<1>5. ASSUME NEW y \in Nat, y < x PROVE y \div c < q
  <2> DEFINE d == y \div c
  <2>1. d \in Nat /\ d * c <= y
    BY Division
  <2> HIDE DEF d
  <2>2. q * c \in Nat /\ d * c \in Nat /\ (q < d => q * c + c <= d * c)
    BY <1>2, <2>1, Product
  <2>3. q * c >= x
    BY <1>2, <2>2
  <2>4. d # q
    BY <1>5, <2>1, <2>2, <2>3
  <2>5. d < q
    BY <1>2, <1>5, <2>1, <2>2, <2>3, <2>4
  <2> QED BY <2>5 DEF d
<1> QED BY <1>2, <1>3, <1>4, <1>5 DEF q

NumLists(rows) == IF NLists > Cardinality(DOMAIN rows) THEN Cardinality(DOMAIN rows) ELSE NLists
InList(rows, r) == ListOf[NumLists(rows)][rows[r]]
BeforeRow(rows, u, r) ==
  InList(rows, u) < InList(rows, r) \/ (InList(rows, u) = InList(rows, r) /\ u < r)
SlotIn(rows, r) == Cardinality({u \in DOMAIN rows : BeforeRow(rows, u, r)})
RowAt(rows, s) == CHOOSE r \in DOMAIN rows : SlotIn(rows, r) = s
StartOf(rows, L) == Cardinality({r \in DOMAIN rows : InList(rows, r) < L})
ChunksOf(rows, L) == (StartOf(rows, L + 1) - StartOf(rows, L) + Cap - 1) \div Cap
SizeOf(rows, L, first) ==
  IF StartOf(rows, L + 1) - first > Cap THEN Cap ELSE StartOf(rows, L + 1) - first
EntryAt(rows, s) == Entry(RowAt(rows, s), rows[RowAt(rows, s)])
ChunkFrom(rows, L, first) ==
  [first |-> first, page |-> 0,
   ents |-> [e \in 1 .. SizeOf(rows, L, first) |-> EntryAt(rows, first + e - 1)]]
KeysFor(rows) ==
  UNION {{ListKey(L, j) : j \in 0 .. ChunksOf(rows, L) - 1} : L \in 0 .. NumLists(rows) - 1}
FirstOf(rows, L, j) == StartOf(rows, L) + j * Cap
ListsFor(rows) ==
  [k \in KeysFor(rows) |->
     ChunkFrom(rows, ListOfKey(k), FirstOf(rows, ListOfKey(k), k % Stride))]
VectorsFor(rows) == [s \in 0 .. Cardinality(DOMAIN rows) - 1 |-> rows[RowAt(rows, s)]]

LEMMA BuildIvfIs ==
  ASSUME NEW t, NEW rows
  PROVE  BuildIvf(t, rows) =
           [Lay(Lay([t EXCEPT !.top = Cardinality(DOMAIN rows)], "lists", ListsFor(rows)),
                "vectors", VectorsFor(rows)) EXCEPT
              !.rowids = [r \in DOMAIN rows |-> [list |-> InList(rows, r), slot |-> SlotIn(rows, r)]],
              !.head = [L \in 0 .. NumLists(rows) - 1 |->
                          [n |-> ChunksOf(rows, L), first |-> 0, last |-> 0]]]
BY DEF BuildIvf, ListsFor, VectorsFor, InList, SlotIn, NumLists, ChunksOf, ChunkFrom, EntryAt,
       KeysFor, FirstOf, RowAt, SizeOf, StartOf, BeforeRow

LEMMA RowsInLists ==
  ASSUME NEW rows, Buffer(rows), DOMAIN rows # {}
  PROVE  LET n == Cardinality(DOMAIN rows)
         IN  /\ IsFiniteSet(DOMAIN rows) /\ DOMAIN rows \subseteq Nat
             /\ n \in Nat /\ n <= Stride
             /\ NumLists(rows) \in 1 .. NLists
             /\ \A r \in DOMAIN rows : InList(rows, r) \in 0 .. NumLists(rows) - 1
<1> DEFINE n == Cardinality(DOMAIN rows)
<1>1. DOMAIN rows \subseteq RowIds /\ DOMAIN rows \subseteq Nat
      /\ IsFiniteSet(RowIds) /\ \A r \in DOMAIN rows : rows[r] \in Vecs
  BY FileAssumption DEF Buffer
<1>2. IsFiniteSet(DOMAIN rows) /\ n <= Cardinality(RowIds) /\ n \in Nat /\ Cardinality(RowIds) \in Nat
  BY <1>1, FS_Subset, FS_CardinalityType
<1>3. n # 0
  BY <1>2, FS_EmptySet
<1>4. NLists \in Nat \ {0} /\ Cardinality(RowIds) <= Stride
  BY IvfAssumption
<1>5. Stride \in Nat
  BY SMT DEF Stride
<1> HIDE DEF n
<1>6. NumLists(rows) \in 1 .. NLists
  BY <1>2, <1>3, <1>4 DEF NumLists, n
<1>7. ListOf[NumLists(rows)] \in [Vecs -> 0 .. NumLists(rows) - 1]
  BY <1>6, IvfAssumption
<1>8. \A r \in DOMAIN rows : InList(rows, r) \in 0 .. NumLists(rows) - 1
  <2> DEFINE nl == NumLists(rows)
             F == ListOf[nl]
  <2>1. F \in [Vecs -> 0 .. nl - 1]
    BY <1>7
  <2> HIDE DEF F, nl
  <2>2. \A r \in DOMAIN rows : F[rows[r]] \in 0 .. nl - 1
    BY <1>1, <2>1
  <2> QED BY <2>2 DEF F, nl, InList
<1> QED BY <1>1, <1>2, <1>4, <1>5, <1>6, <1>8 DEF n

LEMMA SlotsAreAll ==
  ASSUME NEW rows, Buffer(rows), DOMAIN rows # {}
  PROVE  LET n == Cardinality(DOMAIN rows)
         IN  /\ \A r \in DOMAIN rows : SlotIn(rows, r) \in 0 .. n - 1 /\ RowAt(rows, SlotIn(rows, r)) = r
             /\ \A s \in 0 .. n - 1 : RowAt(rows, s) \in DOMAIN rows /\ SlotIn(rows, RowAt(rows, s)) = s
<1> DEFINE D == DOMAIN rows
           n == Cardinality(D)
           R == {p \in D \X D : BeforeRow(rows, p[1], p[2])}
<1>1. IsFiniteSet(D) /\ D \subseteq Nat /\ n \in Nat /\ \A r \in D : InList(rows, r) \in Nat
  BY RowsInLists
<1>2. \A a, b \in D : << a, b >> \in R <=> BeforeRow(rows, a, b)
  OBVIOUS
<1> HIDE DEF R, D, n
<1>3. OrdersStrictly(R, D)
  <2> SUFFICES ASSUME NEW a \in D, NEW b \in D, NEW c \in D
               PROVE  /\ << a, a >> \notin R
                      /\ a # b => << a, b >> \in R \/ << b, a >> \in R
                      /\ << a, b >> \in R /\ << b, c >> \in R => << a, c >> \in R
    BY DEF OrdersStrictly
  <2>1. /\ InList(rows, a) \in Nat /\ InList(rows, b) \in Nat /\ InList(rows, c) \in Nat
        /\ a \in Nat /\ b \in Nat /\ c \in Nat
    BY <1>1
  <2>2. /\ ~BeforeRow(rows, a, a)
        /\ a # b => BeforeRow(rows, a, b) \/ BeforeRow(rows, b, a)
        /\ BeforeRow(rows, a, b) /\ BeforeRow(rows, b, c) => BeforeRow(rows, a, c)
    BY <2>1 DEF BeforeRow
  <2> QED BY <1>2, <2>2
<1>4. Places(R, D) \in Bijection(D, 0 .. n - 1)
  BY <1>1, <1>3, PlacesAreAll DEF n
<1>5. \A a \in D : Places(R, D)[a] = SlotIn(rows, a)
  <2> TAKE a \in D
  <2>1. Before(R, D, a) = {j \in D : BeforeRow(rows, j, a)}
    BY <1>2 DEF Before
  <2> QED BY <2>1 DEF Places, SlotIn, D
<1>6. /\ Places(R, D) \in [D -> 0 .. n - 1]
      /\ \A a, b \in D : Places(R, D)[a] = Places(R, D)[b] => a = b
      /\ \A s \in 0 .. n - 1 : \E a \in D : Places(R, D)[a] = s
  BY <1>4 DEF Bijection, Injection, IsInjective, Surjection
<1>7. \A s \in 0 .. n - 1 : RowAt(rows, s) \in D /\ SlotIn(rows, RowAt(rows, s)) = s
  <2> TAKE s \in 0 .. n - 1
  <2>1. \E a \in D : SlotIn(rows, a) = s
    BY <1>5, <1>6
  <2> QED BY <2>1 DEF RowAt, D
<1>8. \A r \in D : SlotIn(rows, r) \in 0 .. n - 1
  BY <1>5, <1>6
<1>9. \A r \in D : RowAt(rows, SlotIn(rows, r)) = r
  <2> TAKE r \in D
  <2> DEFINE o == RowAt(rows, SlotIn(rows, r))
  <2>1. o \in D /\ SlotIn(rows, o) = SlotIn(rows, r)
    BY <1>7, <1>8
  <2> HIDE DEF o
  <2>2. o = r
    BY <1>5, <1>6, <2>1
  <2> QED BY <2>2 DEF o
<1> QED BY <1>7, <1>8, <1>9 DEF D, n

(* The slots of a list are those from its start to the start of the next.  *)
LEMMA StartFacts ==
  ASSUME NEW rows, Buffer(rows), DOMAIN rows # {}
  PROVE  /\ \A L \in Nat : StartOf(rows, L) \in 0 .. Cardinality(DOMAIN rows)
         /\ \A L, M \in Nat : L <= M => StartOf(rows, L) <= StartOf(rows, M)
         /\ \A r \in DOMAIN rows :
              /\ InList(rows, r) \in Nat
              /\ StartOf(rows, InList(rows, r)) <= SlotIn(rows, r)
              /\ SlotIn(rows, r) < StartOf(rows, InList(rows, r) + 1)
         /\ \A r \in DOMAIN rows : \A L \in Nat :
              StartOf(rows, L) <= SlotIn(rows, r) /\ SlotIn(rows, r) < StartOf(rows, L + 1)
                => InList(rows, r) = L
<1> DEFINE D == DOMAIN rows
           n == Cardinality(D)
           B(L) == {r \in D : InList(rows, r) < L}
           U(r) == {u \in D : BeforeRow(rows, u, r)}
<1>1. IsFiniteSet(D) /\ D \subseteq Nat /\ n \in Nat /\ \A r \in D : InList(rows, r) \in Nat
  BY RowsInLists
<1>2. \A L : StartOf(rows, L) = Cardinality(B(L))
  BY DEF StartOf
<1>3. \A r : SlotIn(rows, r) = Cardinality(U(r))
  BY DEF SlotIn
<1>4. \A L : B(L) \in SUBSET D
  OBVIOUS
<1>5. \A r : U(r) \in SUBSET D
  OBVIOUS
<1>6. \A L, M \in Nat : L <= M => B(L) \in SUBSET B(M)
  <2> TAKE L, M \in Nat
  <2> HAVE L <= M
  <2>1. \A r \in D : InList(rows, r) < L => InList(rows, r) < M
    BY <1>1
  <2> QED BY <2>1
<1>7. \A r \in D : B(InList(rows, r)) \in SUBSET U(r)
  BY DEF BeforeRow
<1>8. \A r \in D : r \notin U(r) /\ U(r) \cup {r} \in SUBSET B(InList(rows, r) + 1)
  <2> TAKE r \in D
  <2>1. r \notin U(r)
    BY <1>1 DEF BeforeRow
  <2>2. \A u \in D : BeforeRow(rows, u, r) \/ u = r => InList(rows, u) < InList(rows, r) + 1
    BY <1>1 DEF BeforeRow
  <2> QED BY <2>1, <2>2
<1> HIDE DEF B, U, D, n
<1>9. \A L : IsFiniteSet(B(L)) /\ Cardinality(B(L)) \in Nat /\ Cardinality(B(L)) <= n
  BY <1>1, <1>4, FS_Subset, FS_CardinalityType DEF n
<1>10. \A r : IsFiniteSet(U(r)) /\ Cardinality(U(r)) \in Nat
  BY <1>1, <1>5, FS_Subset, FS_CardinalityType
<1>11. \A L \in Nat : StartOf(rows, L) \in 0 .. n
  BY <1>1, <1>2, <1>9
<1>12. \A L, M \in Nat : L <= M => StartOf(rows, L) <= StartOf(rows, M)
  <2> TAKE L, M \in Nat
  <2> HAVE L <= M
  <2>1. B(L) \in SUBSET B(M) /\ IsFiniteSet(B(M))
    BY <1>6, <1>9
  <2>2. Cardinality(B(L)) <= Cardinality(B(M))
    BY <2>1, FS_Subset
  <2> QED BY <1>2, <2>2
<1>13. ASSUME NEW r \in D
       PROVE  /\ InList(rows, r) \in Nat
              /\ StartOf(rows, InList(rows, r)) <= SlotIn(rows, r)
              /\ SlotIn(rows, r) < StartOf(rows, InList(rows, r) + 1)
  <2> DEFINE L == InList(rows, r)
  <2>1. L \in Nat
    BY <1>1
  <2>2. B(L) \in SUBSET U(r)
    BY <1>7
  <2>3. r \notin U(r) /\ U(r) \cup {r} \in SUBSET B(L + 1)
    BY <1>8
  <2> HIDE DEF L
  <2>4. Cardinality(B(L)) <= Cardinality(U(r))
    BY <1>10, <2>2, FS_Subset
  <2>5. Cardinality(U(r) \cup {r}) = Cardinality(U(r)) + 1
    BY <1>10, <2>3, FS_AddElement
  <2>6. Cardinality(U(r) \cup {r}) <= Cardinality(B(L + 1))
    BY <1>9, <2>3, FS_Subset
  <2>7. Cardinality(U(r)) \in Nat /\ Cardinality(B(L + 1)) \in Nat
    BY <1>9, <1>10
  <2>8. Cardinality(U(r)) < Cardinality(B(L + 1))
    BY <2>5, <2>6, <2>7
  <2> QED BY <1>2, <1>3, <2>1, <2>4, <2>8 DEF L
<1>14. \A r \in D : SlotIn(rows, r) \in Nat
  BY <1>3, <1>10
<1>15. ASSUME NEW r \in D, NEW L \in Nat,
              StartOf(rows, L) <= SlotIn(rows, r), SlotIn(rows, r) < StartOf(rows, L + 1)
       PROVE  InList(rows, r) = L
  <2> DEFINE I == InList(rows, r)
  <2>1. I \in Nat /\ StartOf(rows, I) <= SlotIn(rows, r) /\ SlotIn(rows, r) < StartOf(rows, I + 1)
    BY <1>13
  <2> HIDE DEF I
  <2>2. /\ StartOf(rows, L) \in Nat /\ StartOf(rows, L + 1) \in Nat /\ SlotIn(rows, r) \in Nat
        /\ StartOf(rows, I) \in Nat /\ StartOf(rows, I + 1) \in Nat
    BY <1>11, <1>14, <2>1
  <2>3. ~(I < L)
    <3> SUFFICES ASSUME I < L PROVE FALSE
      OBVIOUS
    <3>1. I + 1 \in Nat /\ I + 1 <= L
      BY <2>1
    <3>2. StartOf(rows, I + 1) <= StartOf(rows, L)
      BY <1>12, <3>1
    <3> QED BY <1>15, <2>1, <2>2, <3>2
  <2>4. ~(L < I)
    <3> SUFFICES ASSUME L < I PROVE FALSE
      OBVIOUS
    <3>1. L + 1 \in Nat /\ L + 1 <= I
      BY <2>1
    <3>2. StartOf(rows, L + 1) <= StartOf(rows, I)
      BY <1>12, <2>1, <3>1
    <3> QED BY <1>15, <2>1, <2>2, <3>2
  <2> QED BY <2>1, <2>3, <2>4 DEF I
<1> QED BY <1>11, <1>12, <1>13, <1>15 DEF D, n

LEMMA ChunksOfFacts ==
  ASSUME NEW rows, Buffer(rows), DOMAIN rows # {}, NEW L \in Nat
  PROVE  LET x == StartOf(rows, L + 1) - StartOf(rows, L)
         IN  /\ StartOf(rows, L) \in Nat /\ StartOf(rows, L + 1) \in Nat /\ x \in Nat
             /\ ChunksOf(rows, L) \in Nat /\ ChunksOf(rows, L) <= Cardinality(DOMAIN rows)
             /\ \A j \in Nat : j < ChunksOf(rows, L) => j * Cap \in Nat /\ j * Cap < x
             /\ \A y \in Nat : y < x => y \div Cap \in Nat /\ y \div Cap < ChunksOf(rows, L)
<1> DEFINE a == StartOf(rows, L)
           b == StartOf(rows, L + 1)
           x == b - a
           q == (x + Cap - 1) \div Cap
           n == Cardinality(DOMAIN rows)
<1>1. n \in Nat
  BY RowsInLists
<1>2. a \in 0 .. n /\ b \in 0 .. n /\ a <= b
  BY StartFacts
<1>3. Cap \in Nat \ {0}
  BY IvfAssumption
<1>4. ChunksOf(rows, L) = q
  BY DEF ChunksOf
<1> HIDE DEF a, b, n
<1>5. x \in Nat /\ x <= n
  BY <1>1, <1>2
<1> HIDE DEF x
<1>6. /\ q \in Nat /\ q <= x
      /\ \A j \in Nat : j < q => j * Cap \in Nat /\ j * Cap < x
      /\ \A y \in Nat : y < x => y \div Cap < q
  BY <1>3, <1>5, Pieces
<1>7. \A y \in Nat : y \div Cap \in Nat
  BY <1>3, Division
<1> HIDE DEF q
<1>8. q <= n
  BY <1>1, <1>5, <1>6
<1>9. a \in Nat /\ b \in Nat
  BY <1>1, <1>2
<1> QED BY <1>4, <1>5, <1>6, <1>7, <1>8, <1>9 DEF a, b, x, n

(* The entries of a chunk are slots of its list.                           *)
LEMMA ChunkSlots ==
  ASSUME NEW rows, Buffer(rows), DOMAIN rows # {}, NEW L \in Nat,
         NEW j \in Nat, j < ChunksOf(rows, L)
  PROVE  LET first == FirstOf(rows, L, j)
             size  == SizeOf(rows, L, first)
         IN  /\ first \in Nat /\ size \in Nat /\ size <= Cap
             /\ \A e \in 1 .. size :
                  /\ first + e - 1 \in 0 .. Cardinality(DOMAIN rows) - 1
                  /\ RowAt(rows, first + e - 1) \in DOMAIN rows
                  /\ SlotIn(rows, RowAt(rows, first + e - 1)) = first + e - 1
                  /\ InList(rows, RowAt(rows, first + e - 1)) = L
<1> DEFINE a == StartOf(rows, L)
           b == StartOf(rows, L + 1)
           n == Cardinality(DOMAIN rows)
           p == j * Cap
           first == FirstOf(rows, L, j)
           size == SizeOf(rows, L, first)
<1>1. a \in Nat /\ b \in Nat /\ p \in Nat /\ p < b - a
  BY ChunksOfFacts
<1>2. b \in 0 .. n /\ n \in Nat
  BY StartFacts, RowsInLists
<1>3. Cap \in Nat \ {0}
  BY IvfAssumption
<1>4. first = a + p /\ size = IF b - first > Cap THEN Cap ELSE b - first
  BY DEF FirstOf, SizeOf
<1> HIDE DEF a, b, n, p, first, size
<1>5. first \in Nat /\ size \in Nat /\ size <= Cap /\ a <= first /\ first + size <= b
  BY <1>1, <1>3, <1>4
<1>6. ASSUME NEW e \in 1 .. size
      PROVE  /\ first + e - 1 \in 0 .. n - 1
             /\ RowAt(rows, first + e - 1) \in DOMAIN rows
             /\ SlotIn(rows, RowAt(rows, first + e - 1)) = first + e - 1
             /\ InList(rows, RowAt(rows, first + e - 1)) = L
  <2> DEFINE s == first + e - 1
  <2>1. s \in 0 .. n - 1 /\ a <= s /\ s < b
    BY <1>1, <1>2, <1>5
  <2> HIDE DEF s
  <2>2. RowAt(rows, s) \in DOMAIN rows /\ SlotIn(rows, RowAt(rows, s)) = s
    BY <2>1, SlotsAreAll DEF n
  <2>3. InList(rows, RowAt(rows, s)) = L
    BY <2>1, <2>2, StartFacts DEF a, b
  <2> QED BY <2>1, <2>2, <2>3 DEF s
<1> QED BY <1>5, <1>6 DEF first, size, n

(* Every row has its entry.                                                *)
LEMMA SlotHasEntry ==
  ASSUME NEW rows, Buffer(rows), DOMAIN rows # {}, NEW r \in DOMAIN rows
  PROVE  LET L == InList(rows, r)
         IN \E j \in Nat : /\ j < ChunksOf(rows, L)
                           /\ \E e \in 1 .. SizeOf(rows, L, FirstOf(rows, L, j)) :
                                FirstOf(rows, L, j) + e - 1 = SlotIn(rows, r)
<1> DEFINE L == InList(rows, r)
           a == StartOf(rows, L)
           b == StartOf(rows, L + 1)
           s == SlotIn(rows, r)
<1>1. L \in Nat /\ a <= s /\ s < b
  BY StartFacts
<1>2. s \in Nat
  <2>1. s \in 0 .. Cardinality(DOMAIN rows) - 1 /\ Cardinality(DOMAIN rows) \in Nat
    BY SlotsAreAll, RowsInLists
  <2> QED BY <2>1
<1> HIDE DEF L
<1>3. a \in Nat /\ b \in Nat
  BY <1>1, ChunksOfFacts
<1> HIDE DEF s
<1> DEFINE y == s - a
           j == y \div Cap
           p == j * Cap
           e == y - p + 1
<1>4. \A w \in Nat : w < b - a => w \div Cap \in Nat /\ w \div Cap < ChunksOf(rows, L)
  BY <1>1, ChunksOfFacts
<1> HIDE DEF a, b
<1>5. y \in Nat /\ y < b - a
  BY <1>1, <1>2, <1>3
<1> HIDE DEF y
<1>6. j \in Nat /\ j < ChunksOf(rows, L)
  BY <1>4, <1>5
<1>7. Cap \in Nat \ {0}
  BY IvfAssumption
<1>8. p <= y /\ y < p + Cap
  BY <1>5, <1>7, Division
<1> HIDE DEF j
<1>9. p \in Nat
  BY <1>6, <1>7, Product
<1>10. FirstOf(rows, L, j) = a + p
  BY DEF FirstOf, a
<1>11. SizeOf(rows, L, a + p) = IF b - (a + p) > Cap THEN Cap ELSE b - (a + p)
  BY DEF SizeOf, b
<1> HIDE DEF p
<1>12. e \in 1 .. SizeOf(rows, L, a + p)
  BY <1>3, <1>5, <1>7, <1>8, <1>9, <1>11
<1>13. a + p + e - 1 = s
  <2>1. y = s - a
    BY DEF y
  <2> QED BY <1>1, <1>2, <1>3, <1>9, <2>1
<1> HIDE DEF e
<1> QED BY <1>6, <1>10, <1>12, <1>13 DEF L, s

LEMMA OneEntryForSlot ==
  ASSUME NEW rows, Buffer(rows), DOMAIN rows # {}, NEW L \in Nat, NEW i \in Nat, NEW j \in Nat,
         NEW d \in Nat, NEW e \in Nat, 1 <= d, d <= Cap, 1 <= e, e <= Cap,
         FirstOf(rows, L, i) + d - 1 = FirstOf(rows, L, j) + e - 1
  PROVE  i = j /\ d = e
<1> DEFINE a == StartOf(rows, L)
<1>1. a \in Nat
  BY ChunksOfFacts
<1>2. Cap \in Nat
  BY IvfAssumption
<1>3. FirstOf(rows, L, i) = a + i * Cap /\ FirstOf(rows, L, j) = a + j * Cap
  BY DEF FirstOf
<1> HIDE DEF a
<1>4. /\ i * Cap \in Nat /\ j * Cap \in Nat
      /\ i < j => i * Cap + Cap <= j * Cap
      /\ j < i => j * Cap + Cap <= i * Cap
  BY <1>2, Product
<1> DEFINE p == i * Cap
           q == j * Cap
<1> HIDE DEF p, q
<1>5. /\ p \in Nat /\ q \in Nat /\ a + p + d - 1 = a + q + e - 1
      /\ i < j => p + Cap <= q
      /\ j < i => q + Cap <= p
  BY <1>3, <1>4 DEF p, q
<1>6. ~(i < j) /\ ~(j < i)
  BY <1>1, <1>2, <1>5
<1>7. i = j
  BY <1>6
<1>8. p = q
  BY <1>7 DEF p, q
<1> QED BY <1>1, <1>5, <1>7, <1>8

LEMMA KeysForFacts ==
  ASSUME NEW rows, Buffer(rows), DOMAIN rows # {}
  PROVE  /\ \A k \in KeysFor(rows) :
              /\ k \in Nat /\ ListOfKey(k) \in 0 .. NumLists(rows) - 1 /\ ListOfKey(k) \in Nat
              /\ k % Stride \in Nat /\ k % Stride < ChunksOf(rows, ListOfKey(k))
              /\ ListKey(ListOfKey(k), k % Stride) = k
         /\ \A L \in 0 .. NumLists(rows) - 1 : \A j \in Nat : j < ChunksOf(rows, L) =>
              /\ ListKey(L, j) \in KeysFor(rows)
              /\ ListOfKey(ListKey(L, j)) = L /\ ListKey(L, j) % Stride = j
<1> DEFINE nl == NumLists(rows)
           n == Cardinality(DOMAIN rows)
<1>1. nl \in 1 .. NLists /\ NLists \in Nat /\ n \in Nat /\ n <= Stride /\ Stride \in Nat
  BY RowsInLists, IvfAssumption, SMT DEF Stride
<1>2. \A L \in 0 .. nl - 1 : L \in Nat /\ ChunksOf(rows, L) \in Nat /\ ChunksOf(rows, L) <= n
  BY <1>1, ChunksOfFacts
<1>3. \A k : k \in KeysFor(rows) <=>
               \E L \in 0 .. nl - 1 : \E j \in 0 .. ChunksOf(rows, L) - 1 : k = ListKey(L, j)
  BY DEF KeysFor
<1> HIDE DEF nl, n
<1>4. ASSUME NEW L \in 0 .. nl - 1, NEW j \in Nat, j < ChunksOf(rows, L)
      PROVE  /\ ListKey(L, j) \in KeysFor(rows) /\ ListKey(L, j) \in Nat
             /\ ListOfKey(ListKey(L, j)) = L /\ ListKey(L, j) % Stride = j
  <2>1. L \in Nat /\ j < Stride /\ j \in 0 .. ChunksOf(rows, L) - 1
    BY <1>1, <1>2, <1>4
  <2>2. ListKey(L, j) \in Nat /\ ListOfKey(ListKey(L, j)) = L /\ ListKey(L, j) % Stride = j
    BY <2>1, KeyFacts
  <2>3. ListKey(L, j) \in KeysFor(rows)
    BY <1>3, <2>1
  <2> QED BY <2>2, <2>3
<1>5. ASSUME NEW k \in KeysFor(rows)
      PROVE  /\ k \in Nat /\ ListOfKey(k) \in 0 .. nl - 1 /\ ListOfKey(k) \in Nat
             /\ k % Stride \in Nat /\ k % Stride < ChunksOf(rows, ListOfKey(k))
             /\ ListKey(ListOfKey(k), k % Stride) = k
  <2>1. PICK L \in 0 .. nl - 1 : \E j \in 0 .. ChunksOf(rows, L) - 1 : k = ListKey(L, j)
    BY <1>3
  <2>2. PICK j \in 0 .. ChunksOf(rows, L) - 1 : k = ListKey(L, j)
    BY <2>1
  <2>3. L \in Nat /\ j \in Nat /\ j < ChunksOf(rows, L)
    BY <1>2
  <2>4. k \in Nat /\ ListOfKey(k) = L /\ k % Stride = j
    BY <1>4, <2>2, <2>3
  <2> QED BY <2>2, <2>3, <2>4
<1> QED BY <1>4, <1>5 DEF nl

LEMMA BuildIvfFacts ==
  ASSUME NEW t, Shape(t), NoRows(t), NEW rows, Buffer(rows), DOMAIN rows # {},
         NEW hints \in BOOLEAN, NEW mv \in BOOLEAN
  PROVE  LET z == BuildIvf(t, rows)
             n == Cardinality(DOMAIN rows)
         IN  /\ Shape(z) /\ z.state = t.state /\ n \in Nat
             /\ IvfBase(z, n, hints, mv) /\ IvfHead(z, n, z.head)
             /\ DOMAIN z.rowids = DOMAIN rows /\ z.buffer = t.buffer
             /\ IvfView(z) = [r \in DOMAIN rows |-> rows[r]]
<1> DEFINE n == Cardinality(DOMAIN rows)
           nl == NumLists(rows)
           none == << >>
           t0 == [t EXCEPT !.top = n]
           lists == ListsFor(rows)
           vecs == VectorsFor(rows)
           R == [r \in DOMAIN rows |-> [list |-> InList(rows, r), slot |-> SlotIn(rows, r)]]
           H == [L \in 0 .. nl - 1 |-> [n |-> ChunksOf(rows, L), first |-> 0, last |-> 0]]
           one == Lay(t0, "lists", lists)
           two == Lay(one, "vectors", vecs)
           z == BuildIvf(t, rows)
           C == Over(lists, none)
           V == Over(vecs, none)
<1>1. z = [two EXCEPT !.rowids = R, !.head = H]
  BY BuildIvfIs
<1>2. /\ IsFiniteSet(DOMAIN rows) /\ DOMAIN rows \subseteq Nat /\ n \in Nat /\ n <= Stride
      /\ nl \in 1 .. NLists /\ \A r \in DOMAIN rows : InList(rows, r) \in 0 .. nl - 1
  BY RowsInLists
<1>3. /\ t.nodes = none /\ t.vectors = none /\ t.lists = none
      /\ t.pages = [nodes |-> none, vectors |-> none, lists |-> none]
      /\ DOMAIN none = {}
  BY DEF NoRows
<1> HIDE DEF none, z, R, H, nl
<1>4. /\ t0 = [buffer |-> t.buffer, nodes |-> t.nodes, rowids |-> t.rowids,
               vectors |-> t.vectors, lists |-> t.lists, head |-> t.head, state |-> t.state,
               pages |-> t.pages, top |-> n]
  <2>1. t0 = [t EXCEPT !.top = n]
    OBVIOUS
  <2> HIDE DEF t0, n
  <2> QED BY <2>1 DEF Shape
<1> HIDE DEF t0
<1>5. /\ t0.buffer = t.buffer /\ t0.nodes = none /\ t0.rowids = t.rowids
      /\ t0.vectors = none /\ t0.lists = none /\ t0.head = t.head /\ t0.state = t.state
      /\ t0.pages = t.pages /\ t0.top = n
  BY <1>3, <1>4
<1>6. t0.pages.nodes = none /\ t0.pages.vectors = none /\ t0.pages.lists = none
  BY <1>3, <1>5
<1> HIDE DEF n
<1>7. Shape(t0)
  BY <1>2, <1>4, <1>5 DEF Shape
<1> HIDE DEF lists, vecs
<1> DEFINE c == Cardinality(DOMAIN lists)
           P == Over(PagesFor(n, lists), none)
<1>8. one = [buffer |-> t.buffer, nodes |-> none, rowids |-> t.rowids,
             vectors |-> none, lists |-> C, head |-> t.head, state |-> t.state,
             pages |-> [nodes |-> none, vectors |-> none, lists |-> P], top |-> n + c]
  <2>1. one = [buffer |-> t0.buffer, nodes |-> t0.nodes, rowids |-> t0.rowids,
               vectors |-> t0.vectors, lists |-> Over(lists, t0.lists), head |-> t0.head,
               state |-> t0.state,
               pages |-> [nodes |-> t0.pages.nodes, vectors |-> t0.pages.vectors,
                          lists |-> Over(PagesFor(t0.top, lists), t0.pages.lists)],
               top |-> t0.top + Cardinality(DOMAIN lists)]
    BY <1>7, LayLists
  <2>2. Over(lists, t0.lists) = C /\ Over(PagesFor(t0.top, lists), t0.pages.lists) = P
    BY <1>5, <1>6
  <2> HIDE DEF one, C, P
  <2> QED BY <1>5, <1>6, <2>1, <2>2
<1>9. DOMAIN lists = KeysFor(rows) /\ IsFiniteSet(DOMAIN lists)
  <2>1. DOMAIN lists = KeysFor(rows)
    BY DEF lists, ListsFor
  <2>2. NLists \in Nat /\ nl * Stride \in Nat /\ nl \in Nat
    <3>1. NLists \in Nat
      BY IvfAssumption
    <3> QED BY <1>2, <3>1, SMT DEF Stride
  <2>3. \A k \in KeysFor(rows) : k \in Nat /\ k < nl * Stride
    <3> TAKE k \in KeysFor(rows)
    <3>1. k \in Nat /\ ListOfKey(k) \in 0 .. nl - 1
      BY KeysForFacts DEF nl
    <3> QED BY <2>2, <3>1, SMT DEF ListOfKey, Stride
  <2> QED BY <2>1, <2>2, <2>3, BoundedIsFinite
<1>10. c \in Nat
  BY <1>9, FS_CardinalityType
<1> HIDE DEF one, C, P, c
<1>11. /\ one.buffer = t.buffer /\ one.nodes = none /\ one.rowids = t.rowids
       /\ one.vectors = none /\ one.lists = C /\ one.head = t.head /\ one.state = t.state
       /\ one.pages = [nodes |-> none, vectors |-> none, lists |-> P] /\ one.top = n + c
  BY <1>8
<1>12. one.pages.nodes = none /\ one.pages.vectors = none /\ one.pages.lists = P
       /\ one.top \in Nat
  BY <1>2, <1>10, <1>11
<1>13. Shape(one)
  BY <1>8, <1>11, <1>12 DEF Shape
<1> DEFINE W == Over(PagesFor(one.top, vecs), none)
           T == one.top + Cardinality(DOMAIN vecs)
<1>14. two = [buffer |-> t.buffer, nodes |-> none, rowids |-> t.rowids,
              vectors |-> V, lists |-> C, head |-> t.head, state |-> t.state,
              pages |-> [nodes |-> none, vectors |-> W, lists |-> P], top |-> T]
  <2>1. two = [buffer |-> one.buffer, nodes |-> one.nodes, rowids |-> one.rowids,
               vectors |-> Over(vecs, one.vectors), lists |-> one.lists, head |-> one.head,
               state |-> one.state,
               pages |-> [nodes |-> one.pages.nodes,
                          vectors |-> Over(PagesFor(one.top, vecs), one.pages.vectors),
                          lists |-> one.pages.lists],
               top |-> one.top + Cardinality(DOMAIN vecs)]
    BY <1>13, LayVectors
  <2>2. Over(vecs, one.vectors) = V /\ Over(PagesFor(one.top, vecs), one.pages.vectors) = W
    BY <1>11, <1>12
  <2> HIDE DEF two, V, W, T
  <2>3. T = one.top + Cardinality(DOMAIN vecs)
    BY DEF T
  <2> QED BY <1>11, <1>12, <2>1, <2>2, <2>3
<1>15. DOMAIN vecs = 0 .. n - 1 /\ \A s \in 0 .. n - 1 : vecs[s] = rows[RowAt(rows, s)]
  BY DEF vecs, VectorsFor, n
<1>16. IsFiniteSet(DOMAIN vecs) /\ DOMAIN vecs \subseteq Nat
  BY <1>2, <1>15, IntervalSize
<1>17. T \in Nat /\ DOMAIN W = DOMAIN vecs /\ \A s \in DOMAIN vecs : W[s] \in Nat
  <2>1. T \in Nat
    BY <1>12, <1>16, FS_CardinalityType
  <2> QED BY <1>3, <1>12, <1>16, <2>1, PagesAnew
<1> HIDE DEF two, V, W, T
<1>18. z = [buffer |-> t.buffer, nodes |-> none, rowids |-> R,
            vectors |-> V, lists |-> C, head |-> H, state |-> t.state,
            pages |-> [nodes |-> none, vectors |-> W, lists |-> P], top |-> T]
  BY <1>1, <1>14
<1>19. /\ z.buffer = t.buffer /\ z.nodes = none /\ z.rowids = R /\ z.vectors = V /\ z.lists = C
       /\ z.head = H /\ z.state = t.state
       /\ z.pages = [nodes |-> none, vectors |-> W, lists |-> P] /\ z.top = T
  BY <1>18
<1>20. z.pages.nodes = none /\ z.pages.vectors = W /\ z.pages.lists = P
  BY <1>19
<1>21. Shape(z)
  BY <1>17, <1>18, <1>19, <1>20 DEF Shape
<1>22. DOMAIN V = 0 .. n - 1 /\ \A s \in 0 .. n - 1 : V[s] = rows[RowAt(rows, s)]
  <2>1. DOMAIN V = DOMAIN vecs /\ \A s \in DOMAIN vecs : V[s] = vecs[s]
    BY <1>3, OverEmpty DEF V
  <2> QED BY <1>15, <2>1
<1>23. DOMAIN C = KeysFor(rows) /\ \A k \in KeysFor(rows) :
         C[k] = ChunkFrom(rows, ListOfKey(k), FirstOf(rows, ListOfKey(k), k % Stride))
  <2>1. DOMAIN C = DOMAIN lists /\ \A k \in DOMAIN lists : C[k] = lists[k]
    BY <1>3, OverEmpty DEF C
  <2>2. \A k \in KeysFor(rows) :
          lists[k] = ChunkFrom(rows, ListOfKey(k), FirstOf(rows, ListOfKey(k), k % Stride))
    BY DEF lists, ListsFor
  <2> QED BY <1>9, <2>1, <2>2
<1>24. DOMAIN R = DOMAIN rows /\ \A r \in DOMAIN rows :
         R[r] = [list |-> InList(rows, r), slot |-> SlotIn(rows, r)]
  BY DEF R
<1> DEFINE L(k) == ListOfKey(k)
           F(k) == FirstOf(rows, L(k), k % Stride)
           S(k) == SizeOf(rows, L(k), F(k))
<1>25. ASSUME NEW k \in KeysFor(rows)
       PROVE  /\ k \in Nat /\ L(k) \in Nat /\ L(k) \in 0 .. nl - 1
              /\ k % Stride \in Nat /\ k % Stride < ChunksOf(rows, L(k))
              /\ ListKey(L(k), k % Stride) = k
              /\ F(k) \in Nat /\ S(k) \in Nat /\ S(k) <= Cap
              /\ \A e \in 1 .. S(k) :
                   /\ F(k) + e - 1 \in 0 .. n - 1
                   /\ RowAt(rows, F(k) + e - 1) \in DOMAIN rows
                   /\ SlotIn(rows, RowAt(rows, F(k) + e - 1)) = F(k) + e - 1
                   /\ InList(rows, RowAt(rows, F(k) + e - 1)) = L(k)
  <2>1. /\ k \in Nat /\ L(k) \in Nat /\ L(k) \in 0 .. nl - 1
        /\ k % Stride \in Nat /\ k % Stride < ChunksOf(rows, L(k))
        /\ ListKey(L(k), k % Stride) = k
    BY KeysForFacts DEF nl
  <2> DEFINE j == k % Stride
             l == L(k)
  <2>2. l \in Nat /\ j \in Nat /\ j < ChunksOf(rows, l)
    BY <2>1
  <2> HIDE DEF j, l
  <2>3. LET first == FirstOf(rows, l, j)
            size  == SizeOf(rows, l, first)
        IN /\ first \in Nat /\ size \in Nat /\ size <= Cap
           /\ \A e \in 1 .. size :
                /\ first + e - 1 \in 0 .. Cardinality(DOMAIN rows) - 1
                /\ RowAt(rows, first + e - 1) \in DOMAIN rows
                /\ SlotIn(rows, RowAt(rows, first + e - 1)) = first + e - 1
                /\ InList(rows, RowAt(rows, first + e - 1)) = l
    BY <2>2, ChunkSlots
  <2> QED BY <2>1, <2>3 DEF j, l, n
<1>26. \A r \in DOMAIN rows : r \in RowIds /\ rows[r] \in Vecs
  BY DEF Buffer
<1>27. ASSUME NEW s \in 0 .. n - 1, RowAt(rows, s) \in DOMAIN rows
       PROVE  /\ EntryAt(rows, s) \in EntryType
              /\ EntryAt(rows, s).row = RowAt(rows, s) /\ ~EntryAt(rows, s).dead
              /\ EntryAt(rows, s).page = 0 /\ EntryAt(rows, s).code = CodeOf[V[s]]
  <2> DEFINE r == RowAt(rows, s)
             v == rows[r]
  <2>1. r \in RowIds /\ v \in Vecs /\ V[s] = v
    BY <1>22, <1>26, <1>27
  <2>2. EntryAt(rows, s) = [row |-> r, dead |-> FALSE, page |-> 0, code |-> CodeOf[v]]
    BY DEF EntryAt, Entry
  <2> HIDE DEF r, v
  <2>3. CodeOf[v] \in Nat
    BY <2>1, CodeIsNat
  <2>4. /\ EntryAt(rows, s).row = r /\ EntryAt(rows, s).dead = FALSE
        /\ EntryAt(rows, s).page = 0 /\ EntryAt(rows, s).code = CodeOf[v]
    BY <2>2
  <2>5. EntryAt(rows, s) \in EntryType
    BY <2>1, <2>2, <2>3 DEF EntryType
  <2> QED BY <2>1, <2>4, <2>5 DEF r
<1>28. ASSUME NEW k \in KeysFor(rows)
       PROVE  /\ z.lists[k] = [first |-> z.lists[k].first, page |-> z.lists[k].page,
                               ents |-> z.lists[k].ents]
              /\ z.lists[k].first = F(k)
              /\ z.lists[k].ents \in Seq(EntryType) /\ DOMAIN z.lists[k].ents = 1 .. S(k)
              /\ \A e \in 1 .. S(k) : z.lists[k].ents[e] = EntryAt(rows, F(k) + e - 1)
  <2> DEFINE f == F(k)
             m == S(k)
             rec(e) == EntryAt(rows, f + e - 1)
             ents == [e \in 1 .. m |-> rec(e)]
  <2>1. C[k] = [first |-> f, page |-> 0, ents |-> ents]
    BY <1>23 DEF ChunkFrom
  <2>2. m \in Nat /\ \A e \in 1 .. m : f + e - 1 \in 0 .. n - 1 /\ RowAt(rows, f + e - 1) \in DOMAIN rows
    BY <1>25
  <2>3. \A e \in 1 .. m : rec(e) \in EntryType
    BY <1>27, <2>2
  <2> HIDE DEF f, m
  <2>4. DOMAIN ents = 1 .. m /\ \A e \in 1 .. m : ents[e] = EntryAt(rows, f + e - 1)
    OBVIOUS
  <2>5. ents \in Seq(EntryType)
    <3> HIDE DEF rec
    <3> QED BY <2>2, <2>3, IsASeq
  <2> HIDE DEF ents
  <2>6. z.lists[k] = [first |-> f, page |-> 0, ents |-> ents]
    BY <1>19, <2>1
  <2>7. z.lists[k].first = f /\ z.lists[k].page = 0 /\ z.lists[k].ents = ents
    BY <2>6
  <2> QED BY <2>4, <2>5, <2>6, <2>7 DEF f, m
<1> HIDE DEF F, S, L
<1>29. DOMAIN z.lists = KeysFor(rows)
  BY <1>19, <1>23
<1>30. ASSUME NEW x \in Entries(z)
       PROVE  /\ x = << x[1], x[2] >> /\ x[1] \in KeysFor(rows) /\ x[2] \in 1 .. S(x[1])
              /\ SlotOf(z, x) = F(x[1]) + x[2] - 1
              /\ Ent(z, x) = EntryAt(rows, SlotOf(z, x))
  <2>1. PICK k \in DOMAIN z.lists : \E e \in DOMAIN z.lists[k].ents : x = << k, e >>
    BY EntriesAre
  <2>2. PICK e \in DOMAIN z.lists[k].ents : x = << k, e >>
    BY <2>1
  <2>3. k \in KeysFor(rows) /\ e \in 1 .. S(k)
    BY <1>28, <1>29, <2>2
  <2>4. x[1] = k /\ x[2] = e
    BY <2>2
  <2>5. SlotOf(z, x) = F(k) + e - 1
    BY <1>28, <2>3, <2>4 DEF SlotOf
  <2>6. Ent(z, x) = EntryAt(rows, F(k) + e - 1)
    BY <1>28, <2>3, <2>4 DEF Ent
  <2> QED BY <2>2, <2>3, <2>4, <2>5, <2>6
<1>31. ASSUME NEW x \in Entries(z)
       PROVE  /\ SlotOf(z, x) \in 0 .. n - 1 /\ RowAt(rows, SlotOf(z, x)) \in DOMAIN rows
              /\ SlotIn(rows, RowAt(rows, SlotOf(z, x))) = SlotOf(z, x)
              /\ InList(rows, RowAt(rows, SlotOf(z, x))) = L(x[1])
  <2>1. x[1] \in KeysFor(rows) /\ x[2] \in 1 .. S(x[1]) /\ SlotOf(z, x) = F(x[1]) + x[2] - 1
    BY <1>30
  <2> QED BY <1>25, <2>1
<1>32. IvfWhole(z)
  <2>1. ASSUME NEW x \in Entries(z), NEW y \in Entries(z), SlotOf(z, x) = SlotOf(z, y) PROVE x = y
    <3> DEFINE k == x[1]
               l == y[1]
               d == x[2]
               e == y[2]
    <3>1. /\ x = << k, d >> /\ k \in KeysFor(rows) /\ d \in 1 .. S(k)
          /\ y = << l, e >> /\ l \in KeysFor(rows) /\ e \in 1 .. S(l)
          /\ F(k) + d - 1 = F(l) + e - 1
      BY <1>30, <2>1
    <3>2. L(k) = L(l)
      BY <1>31, <2>1
    <3> HIDE DEF k, l, d, e
    <3>3. /\ L(k) \in Nat /\ k % Stride \in Nat /\ l % Stride \in Nat
          /\ S(k) \in Nat /\ S(l) \in Nat /\ S(k) <= Cap /\ S(l) <= Cap
          /\ ListKey(L(k), k % Stride) = k /\ ListKey(L(l), l % Stride) = l
      BY <1>25, <3>1
    <3>4. Cap \in Nat
      BY IvfAssumption
    <3>5. d \in Nat /\ e \in Nat /\ 1 <= d /\ d <= Cap /\ 1 <= e /\ e <= Cap
      BY <3>1, <3>3, <3>4
    <3> DEFINE i == k % Stride
               j == l % Stride
               M == L(k)
    <3>6. FirstOf(rows, M, i) + d - 1 = FirstOf(rows, M, j) + e - 1
      BY <3>1, <3>2 DEF F
    <3>7. i \in Nat /\ j \in Nat /\ M \in Nat
      BY <3>3
    <3> HIDE DEF i, j, M
    <3>8. i = j /\ d = e
      BY <3>5, <3>6, <3>7, OneEntryForSlot
    <3>9. k = l
      BY <3>2, <3>3, <3>8 DEF i, j
    <3> QED BY <3>1, <3>8, <3>9
  <2>2. ASSUME NEW x \in Entries(z)
        PROVE  /\ SlotOf(z, x) \in DOMAIN z.vectors
               /\ Ent(z, x).code = CodeOf[z.vectors[SlotOf(z, x)]]
               /\ ~Ent(z, x).dead => /\ Ent(z, x).row \in DOMAIN z.rowids
                                     /\ z.rowids[Ent(z, x).row] =
                                          [list |-> ListOfKey(x[1]), slot |-> SlotOf(z, x)]
    <3> DEFINE s == SlotOf(z, x)
    <3>1. /\ s \in 0 .. n - 1 /\ RowAt(rows, s) \in DOMAIN rows
          /\ SlotIn(rows, RowAt(rows, s)) = s /\ InList(rows, RowAt(rows, s)) = ListOfKey(x[1])
      BY <1>31 DEF L
    <3>2. Ent(z, x) = EntryAt(rows, s)
      BY <1>30
    <3> HIDE DEF s
    <3>3. EntryAt(rows, s).row = RowAt(rows, s) /\ EntryAt(rows, s).code = CodeOf[V[s]]
      BY <1>27, <3>1
    <3>4. s \in DOMAIN z.vectors /\ z.vectors[s] = V[s]
      BY <1>19, <1>22, <3>1
    <3>5. /\ RowAt(rows, s) \in DOMAIN z.rowids
          /\ z.rowids[RowAt(rows, s)] = [list |-> ListOfKey(x[1]), slot |-> s]
      BY <1>19, <1>24, <3>1
    <3> QED BY <3>2, <3>3, <3>4, <3>5 DEF s
  <2>3. ASSUME NEW r \in DOMAIN z.rowids
        PROVE  \E x \in Entries(z) : Ent(z, x).row = r /\ ~Ent(z, x).dead
    <3>1. r \in DOMAIN rows
      BY <1>19, <1>24
    <3> DEFINE l == InList(rows, r)
    <3>2. PICK j \in Nat : /\ j < ChunksOf(rows, l)
                           /\ \E e \in 1 .. SizeOf(rows, l, FirstOf(rows, l, j)) :
                                FirstOf(rows, l, j) + e - 1 = SlotIn(rows, r)
      BY <3>1, SlotHasEntry
    <3>3. PICK e \in 1 .. SizeOf(rows, l, FirstOf(rows, l, j)) :
            FirstOf(rows, l, j) + e - 1 = SlotIn(rows, r)
      BY <3>2
    <3>4. l \in 0 .. nl - 1
      BY <1>2, <3>1
    <3> HIDE DEF l
    <3> DEFINE k == ListKey(l, j)
               x == << k, e >>
    <3>5. k \in KeysFor(rows) /\ ListOfKey(k) = l /\ k % Stride = j
      BY <3>2, <3>4, KeysForFacts DEF nl
    <3>6. F(k) = FirstOf(rows, l, j) /\ S(k) = SizeOf(rows, l, FirstOf(rows, l, j))
      BY <3>5 DEF F, S, L
    <3> HIDE DEF k
    <3>7. x \in Entries(z)
      <4>1. k \in DOMAIN z.lists /\ e \in DOMAIN z.lists[k].ents
        BY <1>28, <1>29, <3>3, <3>5, <3>6
      <4> QED BY <4>1, EntriesAre
    <3>8. SlotOf(z, x) = SlotIn(rows, r)
      <4>1. SlotOf(z, x) = F(x[1]) + x[2] - 1
        BY <1>30, <3>7
      <4>2. x[1] = k /\ x[2] = e
        OBVIOUS
      <4> QED BY <3>3, <3>6, <4>1, <4>2
    <3>9. RowAt(rows, SlotIn(rows, r)) = r /\ SlotIn(rows, r) \in 0 .. n - 1
      BY <3>1, SlotsAreAll DEF n
    <3>10. Ent(z, x) = EntryAt(rows, SlotIn(rows, r))
      BY <1>30, <3>7, <3>8
    <3>11. EntryAt(rows, SlotIn(rows, r)).row = r /\ ~EntryAt(rows, SlotIn(rows, r)).dead
      BY <1>27, <3>1, <3>9
    <3> QED BY <3>7, <3>10, <3>11
  <2> QED BY <2>1, <2>2, <2>3 DEF IvfWhole, Ent
<1>33. \A s \in DOMAIN z.vectors : s \in Nat /\ s < n /\ z.vectors[s] \in Vecs
  <2> TAKE s \in DOMAIN z.vectors
  <2>1. s \in 0 .. n - 1 /\ z.vectors[s] = rows[RowAt(rows, s)]
    BY <1>19, <1>22
  <2>2. RowAt(rows, s) \in DOMAIN rows
    BY <2>1, SlotsAreAll DEF n
  <2> QED BY <1>2, <1>26, <2>1, <2>2
<1>34. ASSUME NEW k \in DOMAIN z.lists
       PROVE  LET d == z.lists[k]
              IN  /\ k \in Nat
                  /\ d = [first |-> d.first, page |-> d.page, ents |-> d.ents]
                  /\ d.first \in Nat /\ d.ents \in Seq(EntryType)
                  /\ \A e \in DOMAIN d.ents :
                       /\ HintOK(z, "vectors", d.first + e - 1, d.ents[e].page, hints, mv)
                       /\ d.ents[e].dead => d.ents[e].page = 0
  <2>1. k \in KeysFor(rows)
    BY <1>29
  <2>2. \A e \in DOMAIN z.lists[k].ents : z.lists[k].ents[e].page = 0
    <3> TAKE e \in DOMAIN z.lists[k].ents
    <3>1. e \in 1 .. S(k) /\ z.lists[k].ents[e] = EntryAt(rows, F(k) + e - 1)
      BY <1>28, <2>1
    <3> QED BY <1>25, <1>27, <2>1, <3>1
  <2>3. \A e \in DOMAIN z.lists[k].ents :
          HintOK(z, "vectors", z.lists[k].first + e - 1, z.lists[k].ents[e].page, hints, mv)
    BY <2>2 DEF HintOK
  <2> QED BY <1>25, <1>28, <2>1, <2>2, <2>3
<1>35. IvfBase(z, n, hints, mv)
  <2>1. \A s \in DOMAIN z.pages.vectors : z.pages.vectors[s] \in Nat
    BY <1>17, <1>20
  <2>2. z.nodes = << >>
    BY <1>19 DEF none
  <2> QED BY <1>32, <1>33, <1>34, <2>1, <2>2 DEF IvfBase
<1>36. IvfHead(z, n, H)
  <2>1. DOMAIN H = 0 .. nl - 1 /\ \A l \in 0 .. nl - 1 :
          H[l] = [n |-> ChunksOf(rows, l), first |-> 0, last |-> 0]
    BY DEF H
  <2>2. MaxSlots \in Nat /\ nl \in Nat
    BY <1>2, FileAssumption, IvfAssumption
  <2>3. \A l \in 0 .. nl - 1 : ChunksOf(rows, l) \in Nat /\ ChunksOf(rows, l) <= n
    BY <2>2, ChunksOfFacts DEF n
  <2>4. \A l \in 0 .. nl - 1 :
          /\ H[l] = [n |-> H[l].n, first |-> H[l].first, last |-> H[l].last]
          /\ H[l].n = ChunksOf(rows, l)
    BY <2>1
  <2>5. Directory(H, nl, n)
    BY <1>2, <2>1, <2>2, <2>3, <2>4 DEF Directory
  <2>6. \A k \in DOMAIN z.lists : ListOfKey(k) \in DOMAIN H /\ k % Stride < H[ListOfKey(k)].n
    BY <1>25, <1>29, <2>1, <2>4 DEF L
  <2> QED BY <1>2, <2>5, <2>6 DEF IvfHead
<1>37. IvfView(z) = [r \in DOMAIN rows |-> rows[r]]
  <2>1. \A r \in DOMAIN rows : V[R[r].slot] = rows[r]
    <3> TAKE r \in DOMAIN rows
    <3>1. SlotIn(rows, r) \in 0 .. n - 1 /\ RowAt(rows, SlotIn(rows, r)) = r
      BY SlotsAreAll DEF n
    <3>2. R[r].slot = SlotIn(rows, r)
      BY <1>24
    <3> QED BY <1>22, <3>1, <3>2
  <2> QED BY <1>19, <1>24, <2>1 DEF IvfView, VecOfSlot
<1> QED BY <1>2, <1>19, <1>21, <1>24, <1>35, <1>36, <1>37 DEF z, n
=============================================================================
