---------------------------- MODULE HnswBuildProofs ----------------------------
(***************************************************************************)
(* Theorems about HnswBuild: whatever the overlap of the insertions, the   *)
(* lists fit their memory, every list that is read exists, the entry point *)
(* climbs, and no list names its own node or a node twice.                 *)
(***************************************************************************)
EXTENDS HnswBuild, FiniteSetTheorems, SequenceTheorems, InductionLemmas

-----------------------------------------------------------------------------
(* Distances, and the order of the nodes around a node. *)
Placed == x \in [Nodes -> Nat]

LEMMA NodesFinite == IsFiniteSet(Nodes)
<1>1. N \in Nat
  BY HnswAssumption
<1> QED BY <1>1, FS_Interval DEF Nodes

LEMMA DistNat == ASSUME Placed, NEW a \in Nodes, NEW b \in Nodes PROVE Dist(a, b) \in Nat
<1>1. x[a] \in Nat /\ x[b] \in Nat
  BY DEF Placed
<1> QED BY <1>1 DEF Dist

(* The nodes are in a strict total order around q. *)
LEMMA NearerOrder ==
  ASSUME Placed, NEW q \in Nodes, NEW a \in Nodes, NEW b \in Nodes, NEW c \in Nodes
  PROVE  /\ ~Nearer(q, a, a)
         /\ a # b => Nearer(q, a, b) \/ Nearer(q, b, a)
         /\ Nearer(q, a, b) /\ Nearer(q, b, c) => Nearer(q, a, c)
<1> DEFINE da == Dist(a, q)
           db == Dist(b, q)
           dc == Dist(c, q)
<1>1. da \in Nat /\ db \in Nat /\ dc \in Nat
  BY DistNat
<1>2. a \in Nat /\ b \in Nat /\ c \in Nat
  BY HnswAssumption DEF Nodes
<1>3. /\ Nearer(q, a, b) <=> da < db \/ (da = db /\ a < b)
      /\ Nearer(q, b, a) <=> db < da \/ (db = da /\ b < a)
      /\ Nearer(q, b, c) <=> db < dc \/ (db = dc /\ b < c)
      /\ Nearer(q, a, c) <=> da < dc \/ (da = dc /\ a < c)
      /\ Nearer(q, a, a) <=> da < da \/ (da = da /\ a < a)
  BY DEF Nearer
<1> HIDE DEF da, db, dc
<1> QED BY <1>1, <1>2, <1>3

LEMMA NearestIn ==
  ASSUME Placed, NEW q \in Nodes, NEW S \in SUBSET Nodes, S # {}
  PROVE  Nearest(q, S) \in S
<1> DEFINE D == {Dist(a, q) : a \in S}
<1>1. D \subseteq Nat /\ D # {}
  BY DistNat
<1>2. PICK d \in D : \A e \in D : d <= e
  BY <1>1, LeastNatural
<1> DEFINE T == {a \in S : Dist(a, q) = d}
<1>3. T \subseteq Nat /\ T # {}
  BY <1>2, HnswAssumption DEF Nodes
<1>4. PICK m \in T : \A a \in T : m <= a
  BY <1>3, LeastNatural
<1>5. \A b \in S \ {m} : Nearer(q, m, b)
  <2> TAKE b \in S \ {m}
  <2>1. m \in Nat /\ b \in Nat /\ m # b
    BY <1>4, HnswAssumption DEF Nodes
  <2>2. d \in Nat /\ Dist(b, q) \in Nat /\ d <= Dist(b, q)
    BY <1>1, <1>2, DistNat
  <2>3. Dist(m, q) = d
    BY <1>4
  <2>4. Dist(b, q) = d => m <= b
    BY <1>4
  <2> QED BY <2>1, <2>2, <2>3, <2>4 DEF Nearer
<1>6. m \in S
  BY <1>4
<1> QED BY <1>5, <1>6 DEF Nearest

(* A node stands at each place of the order of a set. *)
LEMMA EachPlace ==
  ASSUME Placed, NEW q \in Nodes, NEW S \in SUBSET Nodes,
         NEW k \in 1 .. Cardinality(S)
  PROVE  \E a \in S : Rank(q, S, a) = k - 1
<1> DEFINE R == {p \in Nodes \X Nodes : Nearer(q, p[1], p[2])}
<1>1. IsFiniteSet(S) /\ Cardinality(S) \in Nat
  BY NodesFinite, FS_Subset, FS_CardinalityType
<1>2. \A a, b \in Nodes : << a, b >> \in R <=> Nearer(q, a, b)
  OBVIOUS
<1> HIDE DEF R
<1>3. OrdersStrictly(R, S)
  <2> SUFFICES ASSUME NEW a \in S, NEW b \in S, NEW c \in S
               PROVE  /\ << a, a >> \notin R
                      /\ a # b => << a, b >> \in R \/ << b, a >> \in R
                      /\ << a, b >> \in R /\ << b, c >> \in R => << a, c >> \in R
    BY DEF OrdersStrictly
  <2>1. a \in Nodes /\ b \in Nodes /\ c \in Nodes
    OBVIOUS
  <2> QED BY <1>2, <2>1, NearerOrder
<1>4. Places(R, S) \in Surjection(S, 0 .. Cardinality(S) - 1)
  BY <1>1, <1>3, PlacesAreAll DEF Bijection
<1>5. k - 1 \in 0 .. Cardinality(S) - 1
  BY <1>1
<1>6. PICK a \in S : Places(R, S)[a] = k - 1
  BY <1>4, <1>5 DEF Surjection
<1>7. Before(R, S, a) = {b \in S : Nearer(q, b, a)}
  BY <1>2 DEF Before
<1> QED BY <1>6, <1>7 DEF Places, Rank

LEMMA ByDistanceSeq ==
  ASSUME Placed, NEW q \in Nodes, NEW S \in SUBSET Nodes
  PROVE  ByDistance(q, S) \in Seq(S)
<1>1. Cardinality(S) \in Nat
  BY NodesFinite, FS_Subset, FS_CardinalityType
<1>2. \A k \in 1 .. Cardinality(S) : (CHOOSE a \in S : Rank(q, S, a) = k - 1) \in S
  BY EachPlace
<1> QED BY <1>1, <1>2, IsASeq DEF ByDistance

-----------------------------------------------------------------------------
(* A node is no farther from itself than from any other. *)
LEMMA NoDistance ==
  ASSUME Placed, NEW c \in Nodes, NEW q \in Nodes PROVE ~(Dist(c, c) > Dist(c, q))
<1>1. x[c] \in Nat /\ Dist(c, q) \in Nat
  BY DistNat DEF Placed
<1>2. Dist(c, c) = 0
  BY <1>1 DEF Dist
<1> QED BY <1>1, <1>2

(* A list stays without repetition when a node new to it joins. *)
LEMMA NewAtEnd ==
  ASSUME NEW S, NEW list \in Seq(S), NEW c \in S, IsInjective(list), c \notin ToSet(list)
  PROVE  IsInjective(Append(list, c))
<1> DEFINE n == Len(list)
           longer == Append(list, c)
<1>1. n \in Nat /\ DOMAIN list = 1 .. n /\ DOMAIN longer = 1 .. n + 1
  BY LenProperties, AppendProperties
<1>2. \A j \in 1 .. n : longer[j] = list[j]
  BY AppendProperties
<1>3. longer[n + 1] = c
  BY AppendProperties
<1>4. \A j \in 1 .. n : list[j] # c
  BY <1>1 DEF ToSet
<1>5. \A j, k \in 1 .. n : list[j] = list[k] => j = k
  BY <1>1 DEF IsInjective
<1> HIDE DEF longer, n
<1>6. \A j, k \in 1 .. n + 1 : longer[j] = longer[k] => j = k
  BY <1>1, <1>2, <1>3, <1>4, <1>5
<1> QED BY <1>1, <1>6 DEF IsInjective, longer

(***************************************************************************)
(* What dnhnsw_select keeps: candidates, no more of them than the cap, and  *)
(* none twice, since a candidate is at no distance from itself.            *)
(***************************************************************************)
LEMMA SelectKeeps ==
  ASSUME Placed, NEW q \in Nodes, NEW C \in SUBSET Nodes, NEW candidates \in Seq(C),
         NEW cap \in Nat
  PROVE  /\ Select(q, candidates, cap) \in Seq(C) /\ Len(Select(q, candidates, cap)) <= cap
         /\ IsInjective(Select(q, candidates, cap))
<1> DEFINE n == Len(candidates)
           V == {out \in Seq(C) : Len(out) <= cap /\ IsInjective(out)}
           keep == KeepIf(q, cap)
           F == [p \in (1 .. n) \X V |-> keep[<< p[2], candidates[p[1]] >>]]
           kept == CHOOSE f : f = [i \in 0 .. n |->
                     IF i = 0 THEN << >> ELSE keep[<< f[i - 1], candidates[i] >>]]
<1>1. n \in Nat /\ \A i \in 1 .. n : candidates[i] \in C
  BY LenProperties, ElementOfSeq
<1>2. << >> \in V
  BY EmptySeq DEF IsInjective
<1>3. \A out \in V, c \in C : keep[<< out, c >>] \in V
  <2> TAKE out \in V, c \in C
  <2>1. out \in Seq(C) /\ out \in Seq(Nodes) /\ c \in Nodes /\ Len(out) \in Nat
    <3>1. out \in Seq(C)
      OBVIOUS
    <3> QED BY <3>1, LenProperties, SeqMonotonic
  <2>2. keep[<< out, c >>] =
          IF Len(out) < cap /\ \A j \in DOMAIN out : Dist(c, out[j]) > Dist(c, q)
          THEN Append(out, c) ELSE out
    BY <2>1 DEF KeepIf
  <2>3. CASE Len(out) < cap /\ \A j \in DOMAIN out : Dist(c, out[j]) > Dist(c, q)
    <3>1. Append(out, c) \in Seq(C) /\ Len(Append(out, c)) = Len(out) + 1
      BY <2>1, AppendProperties
    <3>2. c \notin ToSet(out)
      BY <2>1, <2>3, NoDistance DEF ToSet
    <3>3. IsInjective(Append(out, c))
      <4>1. IsInjective(out)
        OBVIOUS
      <4> QED BY <2>1, <3>2, <4>1, NewAtEnd
    <3>4. Append(out, c) \in V
      BY <2>1, <2>3, <3>1, <3>3
    <3> HIDE DEF keep, V
    <3> QED BY <2>2, <2>3, <3>4
  <2>4. CASE ~(Len(out) < cap /\ \A j \in DOMAIN out : Dist(c, out[j]) > Dist(c, q))
    <3> HIDE DEF keep, V
    <3> QED BY <2>2, <2>4
  <2> QED BY <2>3, <2>4
<1> HIDE DEF V, n, keep
<1>4. F \in [(1 .. n) \X V -> V]
  BY <1>1, <1>3
<1>5. \A i \in 1 .. n, out \in V : F[<< i, out >>] = keep[<< out, candidates[i] >>]
  OBVIOUS
<1> HIDE DEF F
<1>6. PICK f \in [0 .. n -> V] :
        f[0] = << >> /\ \A i \in 1 .. n : f[i] = F[<< i, f[i - 1] >>]
  <2> DEFINE base == << >>
  <2>1. base \in V
    BY <1>2
  <2>2. StepsIn(F, n, V)
    BY <1>4 DEF StepsIn
  <2>3. n \in Nat
    BY <1>1
  <2> HIDE DEF base
  <2>4. HasIterates(base, n, F, V)
    BY <2>1, <2>2, <2>3, Recursion
  <2> QED BY <2>4 DEF base, HasIterates, Iterates
<1>7. f = [i \in 0 .. n |-> IF i = 0 THEN << >> ELSE keep[<< f[i - 1], candidates[i] >>]]
  <2>1. \A i \in 1 .. n : i - 1 \in 0 .. n /\ f[i] = keep[<< f[i - 1], candidates[i] >>]
    <3> TAKE i \in 1 .. n
    <3>1. i - 1 \in 0 .. n /\ f[i - 1] \in V
      BY <1>1, <1>6
    <3>2. f[i] = F[<< i, f[i - 1] >>]
      BY <1>6
    <3> QED BY <1>5, <3>1, <3>2
  <2> QED BY <1>1, <1>6, <2>1
<1>8. kept = [i \in 0 .. n |-> IF i = 0 THEN << >> ELSE keep[<< kept[i - 1], candidates[i] >>]]
  BY <1>7
<1>9. Select(q, candidates, cap) = kept[n]
  BY DEF Select, n, keep
<1> HIDE DEF kept
<1> DEFINE S == {i \in 0 .. n : kept[i] \in V}
<1>10. 0 \in S
  BY <1>1, <1>2, <1>8
<1>11. \A i \in 1 .. n : i - 1 \in S => i \in S
  BY <1>1, <1>3, <1>8
<1>12. n \in S
  <2> HIDE DEF S
  <2>1. n \in Nat
    BY <1>1
  <2>2. \A i \in 0 .. n : i \in S
    BY <2>1, <1>10, <1>11, UpTo
  <2> QED BY <2>1, <2>2
<1> QED BY <1>9, <1>12 DEF V

-----------------------------------------------------------------------------
(***************************************************************************)
(* The inductive invariant.  A worker is on a layer that its place reaches *)
(* and, from the search on, its node too; every node it has met there, and *)
(* every node a list of the layer names, reaches it as well.  The one      *)
(* worker that keeps the lock inserts a node above the entry point.        *)
(***************************************************************************)
WorkerState ==
  [pc : {"idle", "enter", "descend", "search", "link"}, i : Nodes, last : Nodes,
   lv : Nat, ep : Nodes, hold : BOOLEAN,
   vis : SUBSET Nodes, cand : SUBSET Nodes, res : SUBSET Nodes, sel : Seq(Nodes)]

Reaching(lv) == {a \in Nodes : level[a] >= lv}

OnLayer(s) ==
  /\ s.cand \subseteq s.vis /\ s.res \subseteq s.vis
  /\ s.pc = "descend" => s.lv > level[s.i] /\ s.ep \in Reaching(s.lv)
  /\ s.pc = "search" => /\ s.lv <= level[s.i] /\ s.ep \in Reaching(s.lv)
                        /\ s.vis \subseteq Reaching(s.lv) /\ s.res # {}
  /\ s.pc = "link" => /\ s.lv <= level[s.i] /\ s.ep \in Reaching(s.lv)
                      /\ s.sel \in Seq(Reaching(s.lv))

HoldsLock(t, s, holder, top) ==
  s.hold => /\ s.pc \in {"descend", "search", "link"}
            /\ holder = t /\ level[s.i] > top

WorkerOK(t, s) == s \in WorkerState /\ OnLayer(s) /\ HoldsLock(t, s, global, maxlevel)

ListOK(list, lv) == list \in Seq(Reaching(lv)) /\ Len(list) <= Capacity(lv)

LinksOK ==
  /\ links = [i \in Nodes |-> links[i]]
  /\ \A i \in Nodes : /\ links[i] = [lv \in 0 .. level[i] |-> links[i][lv]]
                      /\ \A lv \in 0 .. level[i] : ListOK(links[i][lv], lv)

InputsOK == x \in Points /\ level \in Levels

SharedOK ==
  /\ entry \in Nodes /\ maxlevel = level[entry]
  /\ global \in Workers \cup {NoWorker}
  /\ next \in 2 .. N + 1

WorkersOK == w = [t \in Workers |-> w[t]] /\ \A t \in Workers : WorkerOK(t, w[t])

BuildInv == InputsOK /\ SharedOK /\ LinksOK /\ WorkersOK

LEMMA InputTypes == ASSUME InputsOK PROVE Placed /\ level \in [Nodes -> Nat]
BY HnswAssumption DEF InputsOK, Placed, Nodes

(* One worker moves; another that keeps the lock is not affected.          *)
LEMMA OneWorker ==
  ASSUME BuildInv, UNCHANGED << x, level >>,
         NEW t \in Workers, NEW s \in WorkerState, OnLayer(s),
         w' = [w EXCEPT ![t] = s],
         HoldsLock(t, s, global', maxlevel'),
         \A u \in Workers \ {t} : w[u].hold => global' = global /\ maxlevel' = maxlevel
  PROVE  InputsOK' /\ WorkersOK'
<1>1. InputsOK'
  BY DEF BuildInv, InputsOK
<1>2. w = [u \in Workers |-> w[u]] /\ \A u \in Workers : WorkerOK(u, w[u])
  BY DEF BuildInv, WorkersOK
<1>3. w' = [u \in Workers |-> w'[u]]
  BY <1>2
<1>4. w'[t] = s /\ \A u \in Workers \ {t} : w'[u] = w[u]
  BY <1>2
<1>5. \A lv : Reaching(lv)' = Reaching(lv)
  BY DEF Reaching
<1>6. level' = level
  OBVIOUS
<1>7. ASSUME NEW u \in Workers PROVE WorkerOK(u, w[u])'
  <2>1. CASE u = t
    <3>1. w'[u] = s
      BY <1>4, <2>1
    <3>2. w'[u] \in WorkerState'
      BY <3>1 DEF WorkerState, Nodes
    <3>3. OnLayer(w[u])'
      BY <1>5, <1>6, <3>1 DEF OnLayer
    <3>4. HoldsLock(u, w[u], global, maxlevel)'
      BY <1>6, <2>1, <3>1 DEF HoldsLock
    <3> QED BY <3>2, <3>3, <3>4 DEF WorkerOK
  <2>2. CASE u # t
    <3>1. w'[u] = w[u] /\ WorkerOK(u, w[u])
      BY <1>2, <1>4, <2>2
    <3>2. OnLayer(w[u])'
      BY <1>5, <1>6, <3>1 DEF WorkerOK, OnLayer
    <3>3. HoldsLock(u, w[u], global, maxlevel)'
      BY <1>6, <2>2, <3>1 DEF WorkerOK, HoldsLock
    <3> QED BY <3>1, <3>2, <3>3 DEF WorkerOK, WorkerState, Nodes
  <2> QED BY <2>1, <2>2
<1> QED BY <1>1, <1>3, <1>7 DEF WorkersOK

LEMMA LinksStay == ASSUME LinksOK, UNCHANGED << level, links >> PROVE LinksOK'
<1>1. \A lv : Reaching(lv)' = Reaching(lv)
  BY DEF Reaching
<1> QED BY <1>1 DEF LinksOK, ListOK, Capacity, Nodes

(* A layer that the entry node reaches is one to descend on or to search.  *)
LEMMA SearchingOK ==
  ASSUME InputsOK, NEW s \in WorkerState, NEW lv \in Nat, NEW ep \in Reaching(lv),
         lv <= level[s.i]
  PROVE  LET r == Searching(s, ep, lv)
         IN  /\ r \in WorkerState /\ OnLayer(r) /\ r.pc = "search"
             /\ r.i = s.i /\ r.last = s.last /\ r.hold = s.hold
             /\ r.lv = lv /\ r.ep = ep /\ r.vis = {ep}
<1> DEFINE r == Searching(s, ep, lv)
<1>1. ep \in Nodes
  BY DEF Reaching
<1>2. << >> \in Seq(Nodes)
  BY EmptySeq
<1>3. /\ r \in WorkerState /\ r.pc = "search" /\ r.i = s.i /\ r.last = s.last
      /\ r.hold = s.hold /\ r.lv = lv /\ r.ep = ep /\ r.vis = {ep} /\ r.cand = {ep} /\ r.res = {ep}
  BY <1>1, <1>2 DEF Searching, WorkerState
<1> HIDE DEF r
<1>4. OnLayer(r)
  BY <1>3 DEF OnLayer
<1> QED BY <1>3, <1>4 DEF r

LEMMA BelowOK ==
  ASSUME InputsOK, NEW s \in WorkerState, NEW lv \in Nat, NEW ep \in Reaching(lv),
         s.cand \subseteq s.vis, s.res \subseteq s.vis
  PROVE  LET r == Below(s, ep, lv)
         IN  /\ r \in WorkerState /\ OnLayer(r) /\ r.pc \in {"descend", "search"}
             /\ r.i = s.i /\ r.last = s.last /\ r.hold = s.hold
             /\ r.lv = lv /\ r.ep = ep /\ (r.pc = "search" => r.vis = {ep})
<1> DEFINE r == Below(s, ep, lv)
<1>1. ep \in Nodes /\ level[s.i] \in Nat
  BY InputTypes DEF Reaching, WorkerState
<1>2. CASE lv > level[s.i]
  <2>1. r = [s EXCEPT !.pc = "descend", !.lv = lv, !.ep = ep]
    BY <1>2 DEF Below
  <2>2. /\ r \in WorkerState /\ r.pc = "descend" /\ r.i = s.i /\ r.last = s.last
        /\ r.hold = s.hold /\ r.lv = lv /\ r.ep = ep /\ r.vis = s.vis /\ r.cand = s.cand /\ r.res = s.res
    BY <1>1, <2>1 DEF WorkerState
  <2> HIDE DEF r
  <2>3. OnLayer(r)
    BY <1>2, <2>2 DEF OnLayer
  <2> QED BY <2>2, <2>3 DEF r
<1>3. CASE ~(lv > level[s.i])
  <2>1. lv <= level[s.i] /\ r = Searching(s, ep, lv)
    BY <1>1, <1>3 DEF Below
  <2> HIDE DEF r
  <2> QED BY <2>1, SearchingOK DEF r
<1> QED BY <1>2, <1>3

(***************************************************************************)
(* The beam search: what a worker meets on a layer reaches it, and is in   *)
(* the list it goes through; the results are never empty.                  *)
(***************************************************************************)
MaySearch(s, L) ==
  {u \in WorkerState : /\ OnLayer(u) /\ u.pc = "search" /\ u.vis \subseteq s.vis \cup L
                       /\ u.i = s.i /\ u.last = s.last /\ u.lv = s.lv /\ u.hold = s.hold}

LEMMA VisitOK ==
  ASSUME NEW q \in Nodes, NEW s, NEW L \in SUBSET Reaching(s.lv),
         NEW u \in MaySearch(s, L), NEW b \in L
  PROVE  Visit(q, u, b) \in MaySearch(s, L)
<1>1. /\ u \in WorkerState /\ u.pc = "search" /\ u.i = s.i /\ u.lv = s.lv /\ u.hold = s.hold
      /\ u.last = s.last /\ u.vis \subseteq s.vis \cup L /\ b \in Reaching(s.lv)
      /\ u.cand \subseteq u.vis /\ u.res \subseteq u.vis
      /\ u.lv <= level[u.i] /\ u.ep \in Reaching(u.lv)
      /\ u.vis \subseteq Reaching(u.lv) /\ u.res # {}
  BY DEF MaySearch, OnLayer
<1>2. b \in Nodes
  BY <1>1 DEF Reaching
<1> DEFINE grown == u.res \cup {b}
           far   == Farthest(q, grown)
<1>3. \A vis, cand, res \in SUBSET Nodes :
        /\ vis = u.vis \cup {b} /\ cand \subseteq vis /\ res \subseteq vis /\ res # {}
        => [u EXCEPT !.vis = vis, !.cand = cand, !.res = res] \in MaySearch(s, L)
  <2> TAKE vis, cand, res \in SUBSET Nodes
  <2> HAVE vis = u.vis \cup {b} /\ cand \subseteq vis /\ res \subseteq vis /\ res # {}
  <2> DEFINE r == [u EXCEPT !.vis = vis, !.cand = cand, !.res = res]
  <2>1. /\ r \in WorkerState /\ r.pc = "search" /\ r.i = s.i /\ r.lv = s.lv /\ r.hold = s.hold
        /\ r.last = s.last /\ r.ep = u.ep /\ r.vis = vis /\ r.cand = cand /\ r.res = res
    BY <1>1 DEF WorkerState
  <2> HIDE DEF r
  <2>2. OnLayer(r)
    BY <1>1, <2>1 DEF OnLayer
  <2> QED BY <2>1, <2>2 DEF r, MaySearch
<1>4. u.vis \in SUBSET Nodes /\ u.cand \in SUBSET Nodes /\ u.res \in SUBSET Nodes
  BY <1>1 DEF WorkerState
<1>5. CASE b \in u.vis
  BY <1>5 DEF Visit
<1>6. CASE b \notin u.vis
  <2> DEFINE res == IF Cardinality(grown) > Efc THEN grown \ {far} ELSE grown
  <2>1. res \subseteq grown /\ res # {}
    <3>1. IsFiniteSet(grown) /\ Cardinality(grown) \in Nat
      BY <1>2, <1>4, NodesFinite, FS_Subset, FS_CardinalityType
    <3>2. CASE Cardinality(grown) > Efc
      <4>1. Cardinality(grown) # 1
        BY <3>1, <3>2, HnswAssumption
      <4>2. grown # {far}
        BY <4>1, FS_Singleton
      <4> QED BY <3>2, <4>2
    <3>3. CASE ~(Cardinality(grown) > Efc)
      BY <3>3
    <3> QED BY <3>2, <3>3
  <2>2. \/ Visit(q, u, b) = [u EXCEPT !.vis = u.vis \cup {b}, !.cand = u.cand \cup {b}, !.res = res]
        \/ Visit(q, u, b) = [u EXCEPT !.vis = u.vis \cup {b}]
    BY <1>6 DEF Visit
  <2>3. [u EXCEPT !.vis = u.vis \cup {b}]
        = [u EXCEPT !.vis = u.vis \cup {b}, !.cand = u.cand, !.res = u.res]
    BY <1>1 DEF WorkerState
  <2>4. [u EXCEPT !.vis = u.vis \cup {b}, !.cand = u.cand, !.res = u.res] \in MaySearch(s, L)
    BY <1>1, <1>2, <1>3, <1>4
  <2>5. [u EXCEPT !.vis = u.vis \cup {b}, !.cand = u.cand \cup {b}, !.res = res] \in MaySearch(s, L)
    <3> HIDE DEF res
    <3>1. res \subseteq u.vis \cup {b} /\ u.cand \cup {b} \subseteq u.vis \cup {b}
      BY <1>1, <2>1
    <3> QED BY <1>2, <1>3, <1>4, <2>1, <3>1
  <2> HIDE DEF res
  <2> QED BY <2>2, <2>3, <2>4, <2>5
<1> QED BY <1>5, <1>6

LEMMA VisitAllOK ==
  ASSUME NEW q \in Nodes, NEW s \in WorkerState, OnLayer(s), s.pc = "search",
         NEW L \in SUBSET Reaching(s.lv), NEW list \in Seq(L)
  PROVE  VisitAll(q, s, list) \in MaySearch(s, L)
<1> DEFINE n == Len(list)
           V == MaySearch(s, L)
           F == [p \in (1 .. n) \X V |-> Visit(q, p[2], list[p[1]])]
           after == CHOOSE f : f = [i \in 0 .. n |->
                      IF i = 0 THEN s ELSE Visit(q, f[i - 1], list[i])]
<1>1. n \in Nat /\ \A i \in 1 .. n : list[i] \in L
  BY LenProperties, ElementOfSeq
<1>2. s \in V
  BY DEF MaySearch
<1>3. \A u \in V, i \in 1 .. n : Visit(q, u, list[i]) \in V
  BY <1>1, VisitOK
<1>4. after[n] = VisitAll(q, s, list)
  BY DEF VisitAll
<1> HIDE DEF V, n
<1>5. F \in [(1 .. n) \X V -> V]
  BY <1>3
<1>6. \A i \in 1 .. n, u \in V : F[<< i, u >>] = Visit(q, u, list[i])
  OBVIOUS
<1> HIDE DEF F
<1>7. PICK f \in [0 .. n -> V] :
        f[0] = s /\ \A i \in 1 .. n : f[i] = F[<< i, f[i - 1] >>]
  <2>1. StepsIn(F, n, V)
    BY <1>5 DEF StepsIn
  <2>2. n \in Nat
    BY <1>1
  <2>3. HasIterates(s, n, F, V)
    BY <1>2, <2>1, <2>2, Recursion
  <2> QED BY <2>3 DEF HasIterates, Iterates
<1>8. f = [i \in 0 .. n |-> IF i = 0 THEN s ELSE Visit(q, f[i - 1], list[i])]
  <2>1. \A i \in 1 .. n : i - 1 \in 0 .. n /\ f[i] = Visit(q, f[i - 1], list[i])
    <3> TAKE i \in 1 .. n
    <3>1. i - 1 \in 0 .. n /\ f[i - 1] \in V
      BY <1>1, <1>7
    <3> QED BY <1>6, <1>7, <3>1
  <2> QED BY <1>1, <1>7, <2>1
<1>9. after = [i \in 0 .. n |-> IF i = 0 THEN s ELSE Visit(q, after[i - 1], list[i])]
  BY <1>8
<1> HIDE DEF after
<1> DEFINE S == {i \in 0 .. n : after[i] \in V}
<1>10. 0 \in S
  BY <1>1, <1>2, <1>9
<1>11. \A i \in 1 .. n : i - 1 \in S => i \in S
  BY <1>1, <1>3, <1>9
<1>12. n \in S
  <2> HIDE DEF S
  <2>1. n \in Nat
    BY <1>1
  <2>2. \A i \in 0 .. n : i \in S
    BY <2>1, <1>10, <1>11, UpTo
  <2> QED BY <2>1, <2>2
<1> QED BY <1>4, <1>12 DEF V

-----------------------------------------------------------------------------
(* The steps.  Each keeps the invariant, and only Finish moves the entry.  *)
LEMMA WorkerFacts ==
  ASSUME BuildInv, NEW t \in Workers
  PROVE  /\ WorkerOK(t, w[t]) /\ w[t] \in WorkerState /\ OnLayer(w[t])
         /\ HoldsLock(t, w[t], global, maxlevel)
         /\ w[t].i \in Nodes /\ level[w[t].i] \in Nat /\ w[t].lv \in Nat
         /\ maxlevel \in Nat /\ entry \in Reaching(maxlevel)
         /\ level \in [Nodes -> Nat] /\ Placed /\ InputsOK
<1>1. level \in [Nodes -> Nat] /\ Placed /\ InputsOK
  BY InputTypes DEF BuildInv
<1>2. WorkerOK(t, w[t]) /\ w[t] \in WorkerState /\ OnLayer(w[t])
      /\ HoldsLock(t, w[t], global, maxlevel)
  BY DEF BuildInv, WorkersOK, WorkerOK
<1>3. w[t].i \in Nodes /\ w[t].lv \in Nat
  BY <1>2 DEF WorkerState
<1>4. maxlevel \in Nat /\ entry \in Nodes /\ level[entry] >= maxlevel
  BY <1>1 DEF BuildInv, SharedOK
<1> QED BY <1>1, <1>2, <1>3, <1>4 DEF Reaching

(* A list of the layer that a node reaches. *)
LEMMA ListFacts ==
  ASSUME BuildInv, NEW lv \in Nat, NEW a \in Reaching(lv)
  PROVE  /\ links[a][lv] \in Seq(Reaching(lv))
         /\ ToSet(links[a][lv]) \subseteq Reaching(lv)
         /\ Len(links[a][lv]) <= Capacity(lv)
<1>1. a \in Nodes /\ level[a] \in Nat /\ level[a] >= lv
  BY InputTypes DEF Reaching, BuildInv
<1>2. lv \in 0 .. level[a]
  BY <1>1
<1>3. ListOK(links[a][lv], lv)
  BY <1>1, <1>2 DEF BuildInv, LinksOK
<1>4. links[a][lv] \in Seq(Reaching(lv)) /\ Len(links[a][lv]) <= Capacity(lv)
  BY <1>3 DEF ListOK
<1>5. ToSet(links[a][lv]) \subseteq Reaching(lv)
  BY <1>4 DEF ToSet
<1> QED BY <1>4, <1>5

LEMMA SeqOfItsNodes == ASSUME NEW S, NEW list \in Seq(S) PROVE list \in Seq(ToSet(list))
<1>1. list = [j \in 1 .. Len(list) |-> list[j]] /\ Len(list) \in Nat
  BY LenProperties
<1>2. \A j \in 1 .. Len(list) : list[j] \in ToSet(list)
  BY <1>1 DEF ToSet
<1> QED BY <1>1, <1>2, IsASeq

LEMMA IdleOK == Idle \in WorkerState /\ OnLayer(Idle) /\ ~Idle.hold
<1>1. 1 \in Nodes /\ << >> \in Seq(Nodes)
  BY HnswAssumption, EmptySeq DEF Nodes
<1> QED BY <1>1 DEF Idle, WorkerState, OnLayer

(* A worker that holds nothing takes up node i. *)
LEMMA EnterStateOK ==
  ASSUME NEW i \in Nodes, NEW last \in Nodes, NEW t, NEW holder, NEW top
  PROVE  LET s == [Idle EXCEPT !.pc = "enter", !.i = i, !.last = last]
         IN  s \in WorkerState /\ OnLayer(s) /\ ~s.hold /\ HoldsLock(t, s, holder, top)
BY IdleOK DEF Idle, WorkerState, OnLayer, HoldsLock

LEMMA TakeKeeps ==
  ASSUME BuildInv, NEW t \in Workers, Take(t) PROVE BuildInv' /\ UNCHANGED entry
<1> DEFINE last == ChunkEnd
           s == [Idle EXCEPT !.pc = "enter", !.i = next, !.last = last]
<1>1. /\ next <= N /\ next' = ChunkEnd + 1
      /\ w' = [w EXCEPT ![t] = s]
      /\ UNCHANGED << x, level, links, entry, maxlevel, global >>
  BY DEF Take, Taken, Same
<1>2. next \in 2 .. N /\ N \in Nat /\ Chunk \in Nat \ {0}
  BY <1>1, HnswAssumption DEF BuildInv, SharedOK
<1>3. last \in next .. N
  BY <1>2 DEF ChunkEnd
<1>4. next \in Nodes /\ last \in Nodes /\ next' \in 2 .. N + 1
  BY <1>1, <1>2, <1>3 DEF Nodes
<1> HIDE DEF last
<1>5. s \in WorkerState /\ OnLayer(s) /\ HoldsLock(t, s, global', maxlevel')
  BY <1>4, EnterStateOK
<1> HIDE DEF s
<1>6. InputsOK' /\ WorkersOK'
  BY <1>1, <1>5, OneWorker
<1>7. LinksOK' /\ SharedOK'
  BY <1>1, <1>4, LinksStay DEF BuildInv, SharedOK, Nodes
<1> QED BY <1>1, <1>6, <1>7 DEF BuildInv

LEMMA EnterKeeps ==
  ASSUME BuildInv, NEW t \in Workers, Enter(t) PROVE BuildInv' /\ UNCHANGED entry
<1> DEFINE hold == level[w[t].i] > maxlevel
           h == [w[t] EXCEPT !.hold = hold]
           s == Below(h, entry, maxlevel)
<1>1. /\ w[t].pc = "enter" /\ global = NoWorker
      /\ global' = IF hold THEN t ELSE NoWorker
      /\ UNCHANGED << x, level, links, entry, maxlevel, next >>
  BY DEF Enter, Same
<1>2. w' = [w EXCEPT ![t] = s]
  BY DEF Enter, BuildInv, WorkersOK
<1>3. /\ h \in WorkerState /\ h.i = w[t].i /\ h.hold = hold
      /\ h.cand \subseteq h.vis /\ h.res \subseteq h.vis
  <2>1. hold \in BOOLEAN
    OBVIOUS
  <2>2. w[t] \in WorkerState /\ w[t].cand \subseteq w[t].vis /\ w[t].res \subseteq w[t].vis
    BY WorkerFacts DEF OnLayer
  <2> HIDE DEF hold
  <2> QED BY <2>1, <2>2 DEF WorkerState
<1> HIDE DEF h
<1>4. /\ s \in WorkerState /\ OnLayer(s) /\ s.pc \in {"descend", "search"}
      /\ s.i = w[t].i /\ s.hold = hold
  BY <1>3, WorkerFacts, BelowOK
<1> HIDE DEF s
<1>5. HoldsLock(t, s, global', maxlevel')
  BY <1>1, <1>4 DEF HoldsLock
<1>6. \A u \in Workers : ~w[u].hold
  <2> SUFFICES ASSUME NEW u \in Workers, w[u].hold PROVE FALSE
    OBVIOUS
  <2> QED BY <1>1, WorkerFacts, HnswAssumption DEF HoldsLock
<1>7. InputsOK' /\ WorkersOK'
  BY <1>1, <1>2, <1>4, <1>5, <1>6, OneWorker
<1>8. LinksOK' /\ SharedOK'
  BY <1>1, LinksStay DEF BuildInv, SharedOK, Nodes
<1> QED BY <1>1, <1>7, <1>8 DEF BuildInv

LEMMA DescendKeeps ==
  ASSUME BuildInv, NEW t \in Workers, Descend(t) PROVE BuildInv' /\ UNCHANGED entry
<1> DEFINE s == w[t]
           near == {s.ep} \cup ToSet(links[s.ep][s.lv])
           best == Nearest(s.i, near)
           r == IF Dist(best, s.i) < Dist(s.ep, s.i) THEN [s EXCEPT !.ep = best]
                ELSE Below(s, s.ep, s.lv - 1)
<1>1. /\ s.pc = "descend" /\ w' = [w EXCEPT ![t] = r]
      /\ UNCHANGED << x, level, links, entry, maxlevel, global, next >>
  BY DEF Descend, Same
<1>2. /\ s \in WorkerState /\ s.lv \in Nat /\ s.lv > level[s.i] /\ level[s.i] \in Nat
      /\ s.ep \in Reaching(s.lv) /\ s.cand \subseteq s.vis /\ s.res \subseteq s.vis
      /\ s.i \in Nodes
  BY <1>1, WorkerFacts DEF OnLayer
<1>3. best \in Reaching(s.lv)
  <2>1. near \in SUBSET Reaching(s.lv) /\ near # {}
    BY <1>2, ListFacts
  <2>2. near \in SUBSET Nodes
    BY <2>1 DEF Reaching
  <2> HIDE DEF near
  <2> QED BY <1>2, <2>1, <2>2, WorkerFacts, NearestIn
<1>4. /\ r \in WorkerState /\ OnLayer(r) /\ r.i = s.i /\ r.hold = s.hold
      /\ r.pc \in {"descend", "search"}
  <2>1. CASE r = [s EXCEPT !.ep = best]
    <3> HIDE DEF best
    <3>1. best \in Nodes
      BY <1>3 DEF Reaching
    <3> DEFINE u == [s EXCEPT !.ep = best]
    <3>2. /\ u \in WorkerState /\ u.pc = "descend" /\ u.i = s.i /\ u.hold = s.hold
          /\ u.lv = s.lv /\ u.ep = best /\ u.vis = s.vis /\ u.cand = s.cand /\ u.res = s.res
      BY <1>1, <1>2, <3>1 DEF WorkerState
    <3> HIDE DEF s, u
    <3>3. OnLayer(u)
      BY <1>2, <1>3, <3>2 DEF OnLayer
    <3> HIDE DEF r
    <3> QED BY <2>1, <3>2, <3>3 DEF u
  <2>2. CASE r = Below(s, s.ep, s.lv - 1)
    <3>1. s.lv - 1 \in Nat /\ s.ep \in Reaching(s.lv - 1)
      BY <1>2, WorkerFacts DEF Reaching
    <3> HIDE DEF s, r
    <3> QED BY <1>2, <2>2, <3>1, WorkerFacts, BelowOK
  <2> QED BY <2>1, <2>2
<1> HIDE DEF r
<1>5. HoldsLock(t, r, global', maxlevel')
  BY <1>1, <1>4, WorkerFacts DEF HoldsLock
<1>6. InputsOK' /\ WorkersOK'
  BY <1>1, <1>4, <1>5, OneWorker
<1>7. LinksOK' /\ SharedOK'
  BY <1>1, LinksStay DEF BuildInv, SharedOK, Nodes
<1> QED BY <1>1, <1>6, <1>7 DEF BuildInv

LEMMA ExpandKeeps ==
  ASSUME BuildInv, NEW t \in Workers, Expand(t) PROVE BuildInv' /\ UNCHANGED entry
<1> DEFINE s == w[t]
           c == Nearest(s.i, s.cand)
           h == [s EXCEPT !.cand = s.cand \ {c}]
           r == VisitAll(s.i, h, links[c][s.lv])
<1>1. /\ s.pc = "search" /\ s.cand # {} /\ w' = [w EXCEPT ![t] = r]
      /\ UNCHANGED << x, level, links, entry, maxlevel, global, next >>
  BY DEF Expand, SearchOver, Same
<1>2. /\ s \in WorkerState /\ s.lv \in Nat /\ s.i \in Nodes
      /\ s.lv <= level[s.i] /\ s.ep \in Reaching(s.lv) /\ s.vis \subseteq Reaching(s.lv)
      /\ s.cand \subseteq s.vis /\ s.res \subseteq s.vis /\ s.res # {}
      /\ s.cand \in SUBSET Nodes
  BY <1>1, WorkerFacts DEF OnLayer, WorkerState
<1>3. c \in Reaching(s.lv)
  BY <1>1, <1>2, WorkerFacts, NearestIn
<1> DEFINE L == ToSet(links[c][s.lv])
<1>4. L \in SUBSET Reaching(s.lv) /\ links[c][s.lv] \in Seq(L)
  BY <1>2, <1>3, ListFacts, SeqOfItsNodes
<1> HIDE DEF c, L
<1>5. /\ h \in WorkerState /\ h.pc = "search" /\ h.i = s.i /\ h.lv = s.lv
      /\ h.hold = s.hold /\ OnLayer(h)
  <2>1. /\ h \in WorkerState /\ h.pc = "search" /\ h.i = s.i /\ h.lv = s.lv
        /\ h.hold = s.hold /\ h.ep = s.ep /\ h.vis = s.vis /\ h.res = s.res
        /\ h.cand = s.cand \ {c}
    BY <1>1, <1>2 DEF WorkerState
  <2> HIDE DEF h, s
  <2> QED BY <1>2, <2>1 DEF OnLayer
<1> HIDE DEF h
<1>6. r \in MaySearch(h, L)
  BY <1>2, <1>4, <1>5, VisitAllOK
<1> HIDE DEF r
<1>7. /\ r \in WorkerState /\ OnLayer(r) /\ r.pc = "search" /\ r.i = s.i /\ r.hold = s.hold
  BY <1>5, <1>6 DEF MaySearch
<1>8. HoldsLock(t, r, global', maxlevel')
  BY <1>1, <1>7, WorkerFacts DEF HoldsLock
<1>9. InputsOK' /\ WorkersOK'
  BY <1>1, <1>7, <1>8, OneWorker
<1>10. LinksOK' /\ SharedOK'
  BY <1>1, LinksStay DEF BuildInv, SharedOK, Nodes
<1> QED BY <1>1, <1>9, <1>10 DEF BuildInv

(* One list is written, on a layer of its node. *)
LEMMA OneList ==
  ASSUME BuildInv, UNCHANGED level,
         NEW lv \in Nat, NEW a \in Reaching(lv), NEW list, ListOK(list, lv),
         links' = [links EXCEPT ![a][lv] = list]
  PROVE  LinksOK'
<1>1. /\ a \in Nodes /\ lv \in 0 .. level[a] /\ level \in [Nodes -> Nat]
  BY InputTypes DEF Reaching, BuildInv
<1>2. /\ links = [i \in Nodes |-> links[i]]
      /\ \A i \in Nodes : /\ links[i] = [k \in 0 .. level[i] |-> links[i][k]]
                          /\ \A k \in 0 .. level[i] : ListOK(links[i][k], k)
  BY DEF BuildInv, LinksOK
<1>3. /\ links' = [i \in Nodes |-> links'[i]]
      /\ links'[a] = [links[a] EXCEPT ![lv] = list]
      /\ \A i \in Nodes \ {a} : links'[i] = links[i]
  BY <1>1, <1>2
<1>4. \A k : Reaching(k)' = Reaching(k)
  BY DEF Reaching
<1>5. \A i \in Nodes : links'[i] = [k \in 0 .. level[i] |-> links'[i][k]]
  BY <1>1, <1>2, <1>3
<1>6. ASSUME NEW i \in Nodes, NEW k \in 0 .. level[i]
      PROVE  ListOK(links'[i][k], k)
  <2>1. CASE i = a /\ k = lv
    <3>1. links'[i][k] = list
      BY <1>1, <1>2, <1>3, <2>1
    <3> QED BY <2>1, <3>1
  <2>2. CASE ~(i = a /\ k = lv)
    <3>1. links'[i][k] = links[i][k]
      BY <1>1, <1>2, <1>3, <2>2
    <3> QED BY <1>2, <3>1
  <2> QED BY <2>1, <2>2
<1>7. ASSUME NEW i \in Nodes, NEW k \in 0 .. level[i] PROVE ListOK(links[i][k], k)'
  BY <1>4, <1>6 DEF ListOK, Capacity
<1> QED BY <1>3, <1>5, <1>7 DEF LinksOK, Nodes

LEMMA CapacityNat == ASSUME NEW lv PROVE Capacity(lv) \in Nat \ {0}
BY HnswAssumption DEF Capacity

(* What dnhnsw_select keeps of nodes of a layer is a list of that layer.   *)
LEMMA SelectedOK ==
  ASSUME Placed, NEW q \in Nodes, NEW lv \in Nat, NEW S \in SUBSET Reaching(lv)
  PROVE  ListOK(Select(q, ByDistance(q, S), Capacity(lv)), lv)
<1>1. S \in SUBSET Nodes /\ Reaching(lv) \in SUBSET Nodes
  BY DEF Reaching
<1>2. ByDistance(q, S) \in Seq(S)
  BY <1>1, ByDistanceSeq
<1>3. ByDistance(q, S) \in Seq(Reaching(lv))
  BY <1>2, SeqMonotonic
<1> QED BY <1>1, <1>3, CapacityNat, SelectKeeps DEF ListOK

LEMMA WriteOwnKeeps ==
  ASSUME BuildInv, NEW t \in Workers, WriteOwn(t) PROVE BuildInv' /\ UNCHANGED entry
<1> DEFINE s == w[t]
           sel == Select(s.i, ByDistance(s.i, s.res), Capacity(s.lv))
           ep == Nearest(s.i, s.res)
           r == [s EXCEPT !.pc = "link", !.sel = sel, !.ep = ep]
<1>1. /\ s.pc = "search" /\ w' = [w EXCEPT ![t] = r]
      /\ links' = [links EXCEPT ![s.i][s.lv] = sel]
      /\ UNCHANGED << x, level, entry, maxlevel, global, next >>
  BY DEF WriteOwn, Same
<1>2. /\ s \in WorkerState /\ s.lv \in Nat /\ s.i \in Nodes /\ s.i \in Reaching(s.lv)
      /\ s.lv <= level[s.i] /\ s.vis \subseteq Reaching(s.lv)
      /\ s.cand \subseteq s.vis /\ s.res \subseteq s.vis /\ s.res # {}
      /\ s.res \in SUBSET Nodes
  BY <1>1, WorkerFacts DEF OnLayer, WorkerState, Reaching
<1>3. ListOK(sel, s.lv)
  BY <1>2, WorkerFacts, SelectedOK
<1>4. ep \in Reaching(s.lv)
  BY <1>2, WorkerFacts, NearestIn
<1> HIDE DEF sel, ep
<1>5. sel \in Seq(Reaching(s.lv)) /\ sel \in Seq(Nodes) /\ ep \in Nodes
  <2>1. Reaching(s.lv) \subseteq Nodes
    BY DEF Reaching
  <2>2. sel \in Seq(Reaching(s.lv))
    BY <1>3 DEF ListOK
  <2> QED BY <1>4, <2>1, <2>2, SeqMonotonic
<1>6. /\ r \in WorkerState /\ r.pc = "link" /\ r.i = s.i /\ r.lv = s.lv
      /\ r.hold = s.hold /\ r.ep = ep /\ r.vis = s.vis /\ r.res = s.res
      /\ r.cand = s.cand /\ r.sel = sel
  BY <1>2, <1>5 DEF WorkerState
<1> HIDE DEF r
<1>7. OnLayer(r)
  BY <1>2, <1>4, <1>5, <1>6 DEF OnLayer
<1>8. HoldsLock(t, r, global', maxlevel')
  BY <1>1, <1>6, WorkerFacts DEF HoldsLock
<1>9. InputsOK' /\ WorkersOK'
  BY <1>1, <1>6, <1>7, <1>8, OneWorker
<1>10. LinksOK'
  BY <1>1, <1>2, <1>3, OneList
<1>11. SharedOK'
  BY <1>1 DEF BuildInv, SharedOK, Nodes
<1> QED BY <1>1, <1>9, <1>10, <1>11 DEF BuildInv

LEMMA LinkBackKeeps ==
  ASSUME BuildInv, NEW t \in Workers, LinkBack(t) PROVE BuildInv' /\ UNCHANGED entry
<1> DEFINE s == w[t]
           b == Head(s.sel)
           old == links[b][s.lv]
           new == Linked(old, b, s.i, s.lv)
           r == [s EXCEPT !.sel = Tail(s.sel)]
<1>1. /\ s.pc = "link" /\ s.sel # << >>
      /\ UNCHANGED << x, level, entry, maxlevel, global, next >>
  BY DEF LinkBack, Same
<1>2. /\ s \in WorkerState /\ s.lv \in Nat /\ s.i \in Nodes /\ s.i \in Reaching(s.lv)
      /\ s.lv <= level[s.i] /\ s.ep \in Reaching(s.lv) /\ s.sel \in Seq(Reaching(s.lv))
      /\ s.cand \subseteq s.vis /\ s.res \subseteq s.vis /\ s.sel \in Seq(Nodes)
  BY <1>1, WorkerFacts DEF OnLayer, WorkerState, Reaching
<1>3. /\ b \in Reaching(s.lv) /\ b \in Nodes
      /\ Tail(s.sel) \in Seq(Reaching(s.lv)) /\ Tail(s.sel) \in Seq(Nodes)
  BY <1>1, <1>2, HeadTailProperties DEF Reaching
<1>4. /\ old \in Seq(Reaching(s.lv)) /\ ToSet(old) \subseteq Reaching(s.lv)
      /\ Len(old) <= Capacity(s.lv) /\ Len(old) \in Nat
  BY <1>2, <1>3, ListFacts, LenProperties
<1>5. ListOK(new, s.lv)
  <2>1. CASE Len(old) < Capacity(s.lv)
    <3>1. new = Append(old, s.i)
      BY <2>1 DEF Linked
    <3>2. Append(old, s.i) \in Seq(Reaching(s.lv)) /\ Len(Append(old, s.i)) = Len(old) + 1
      BY <1>2, <1>4, AppendProperties
    <3>3. Len(old) + 1 <= Capacity(s.lv)
      BY <1>4, <2>1, CapacityNat
    <3> QED BY <3>1, <3>2, <3>3 DEF ListOK
  <2>2. CASE ~(Len(old) < Capacity(s.lv))
    <3>1. new = Select(b, ByDistance(b, ToSet(old) \cup {s.i}), Capacity(s.lv))
      BY <2>2 DEF Linked
    <3> QED BY <1>2, <1>3, <1>4, <3>1, WorkerFacts, SelectedOK
  <2> QED BY <2>1, <2>2
<1>6. links' = [links EXCEPT ![b][s.lv] = new]
  <2>1. /\ links = [i \in Nodes |-> links[i]]
        /\ links[b] = [lv \in 0 .. level[b] |-> links[b][lv]]
    BY <1>3 DEF BuildInv, LinksOK
  <2> QED BY <2>1 DEF LinkBack
<1>7. w' = [w EXCEPT ![t] = r]
  BY DEF LinkBack, BuildInv, WorkersOK
<1> HIDE DEF new
<1>8. /\ r \in WorkerState /\ r.pc = "link" /\ r.i = s.i /\ r.lv = s.lv
      /\ r.hold = s.hold /\ r.ep = s.ep /\ r.vis = s.vis /\ r.res = s.res
      /\ r.cand = s.cand /\ r.sel = Tail(s.sel)
  BY <1>1, <1>2, <1>3 DEF WorkerState
<1> HIDE DEF r
<1>9. OnLayer(r)
  BY <1>2, <1>3, <1>8 DEF OnLayer
<1>10. HoldsLock(t, r, global', maxlevel')
  BY <1>1, <1>8, WorkerFacts DEF HoldsLock
<1>11. InputsOK' /\ WorkersOK'
  BY <1>1, <1>7, <1>8, <1>9, <1>10, OneWorker
<1>12. LinksOK'
  BY <1>1, <1>2, <1>3, <1>5, <1>6, OneList
<1>13. SharedOK'
  BY <1>1 DEF BuildInv, SharedOK, Nodes
<1> QED BY <1>1, <1>11, <1>12, <1>13 DEF BuildInv

LEMMA NextLayerKeeps ==
  ASSUME BuildInv, NEW t \in Workers, NextLayer(t) PROVE BuildInv' /\ UNCHANGED entry
<1> DEFINE s == w[t]
           r == Searching(s, s.ep, s.lv - 1)
<1>1. /\ s.pc = "link" /\ s.lv > 0 /\ w' = [w EXCEPT ![t] = r]
      /\ UNCHANGED << x, level, links, entry, maxlevel, global, next >>
  BY DEF NextLayer, Same
<1>2. /\ s \in WorkerState /\ s.lv - 1 \in Nat /\ s.ep \in Reaching(s.lv - 1)
      /\ s.lv - 1 <= level[s.i]
  <2>1. s.lv <= level[s.i] /\ s.ep \in Nodes /\ level[s.ep] >= s.lv
    BY <1>1, WorkerFacts DEF OnLayer, Reaching
  <2>2. /\ s \in WorkerState /\ s.lv \in Nat /\ level[s.i] \in Nat
        /\ level[s.ep] \in Nat
    BY <2>1, WorkerFacts
  <2> HIDE DEF s
  <2> QED BY <1>1, <2>1, <2>2 DEF Reaching
<1>3. /\ r \in WorkerState /\ OnLayer(r) /\ r.pc = "search" /\ r.i = s.i /\ r.hold = s.hold
  <2> HIDE DEF s
  <2> QED BY <1>2, WorkerFacts, SearchingOK
<1> HIDE DEF r
<1>4. HoldsLock(t, r, global', maxlevel')
  BY <1>1, <1>3, WorkerFacts DEF HoldsLock
<1>5. InputsOK' /\ WorkersOK'
  BY <1>1, <1>3, <1>4, OneWorker
<1>6. LinksOK' /\ SharedOK'
  BY <1>1, LinksStay DEF BuildInv, SharedOK, Nodes
<1> QED BY <1>1, <1>5, <1>6 DEF BuildInv

(* The worker that keeps the lock is the only one that moves the entry.    *)
LEMMA FinishKeeps ==
  ASSUME BuildInv, NEW t \in Workers, Finish(t)
  PROVE  BuildInv' /\ (entry' # entry => level[entry'] > level[entry])
<1> DEFINE s == w[t]
           r == InsertedOf(s)
<1>1. /\ s.pc = "link" /\ w' = [w EXCEPT ![t] = r]
      /\ UNCHANGED << x, level, links, next >>
      /\ s.hold => entry' = s.i /\ maxlevel' = level[s.i] /\ global' = NoWorker
      /\ ~s.hold => UNCHANGED << entry, maxlevel, global >>
  BY DEF Finish, Same
<1>2. /\ s.i \in Nodes /\ s.last \in Nodes /\ s.hold \in BOOLEAN
      /\ s.hold => global = t /\ level[s.i] > maxlevel
  BY WorkerFacts DEF HoldsLock, WorkerState
<1>3. /\ r \in WorkerState /\ OnLayer(r) /\ ~r.hold
  <2>1. CASE s.i < s.last
    <3>1. s.i + 1 \in Nodes
      BY <1>2, <2>1, HnswAssumption DEF Nodes
    <3>2. r = [Idle EXCEPT !.pc = "enter", !.i = s.i + 1, !.last = s.last]
      BY <2>1 DEF InsertedOf
    <3> HIDE DEF r, s
    <3> QED BY <1>2, <3>1, <3>2, EnterStateOK
  <2>2. CASE ~(s.i < s.last)
    BY <2>2, IdleOK DEF InsertedOf
  <2> QED BY <2>1, <2>2
<1> HIDE DEF r
<1>4. HoldsLock(t, r, global', maxlevel')
  BY <1>3 DEF HoldsLock
<1>5. \A u \in Workers \ {t} : w[u].hold => global' = global /\ maxlevel' = maxlevel
  <2> SUFFICES ASSUME NEW u \in Workers \ {t}, w[u].hold
               PROVE  global' = global /\ maxlevel' = maxlevel
    OBVIOUS
  <2>1. global = u
    BY WorkerFacts DEF HoldsLock
  <2> QED BY <1>1, <1>2, <2>1
<1>6. InputsOK' /\ WorkersOK'
  BY <1>1, <1>3, <1>4, <1>5, OneWorker
<1>7. LinksOK'
  BY <1>1, LinksStay DEF BuildInv
<1>8. entry \in Nodes /\ maxlevel = level[entry] /\ global \in Workers \cup {NoWorker}
      /\ next \in 2 .. N + 1
  BY DEF BuildInv, SharedOK
<1>9. SharedOK' /\ (entry' # entry => level[entry'] > level[entry])
  <2>1. CASE s.hold
    BY <1>1, <1>2, <1>8, <2>1 DEF SharedOK, Nodes
  <2>2. CASE ~s.hold
    BY <1>1, <1>8, <2>2 DEF SharedOK, Nodes
  <2> QED BY <2>1, <2>2
<1> QED BY <1>6, <1>7, <1>9 DEF BuildInv

LEMMA InitHolds == Init => BuildInv
<1> SUFFICES ASSUME Init PROVE BuildInv
  OBVIOUS
<1>1. InputsOK /\ level \in [Nodes -> Nat]
  BY InputTypes DEF Init, InputsOK
<1>2. 1 \in Nodes /\ 2 \in 2 .. N + 1
  BY HnswAssumption DEF Nodes
<1>3. SharedOK
  BY <1>2 DEF Init, SharedOK
<1>4. \A lv : ListOK(<< >>, lv)
  <2> TAKE lv
  <2>1. << >> \in Seq(Reaching(lv)) /\ Len(<< >>) = 0 /\ 0 <= Capacity(lv)
    BY EmptySeq, CapacityNat
  <2> QED BY <2>1 DEF ListOK
<1>5. LinksOK
  BY <1>1, <1>4 DEF Init, LinksOK
<1>6. WorkersOK
  BY IdleOK DEF Init, WorkersOK, WorkerOK, HoldsLock
<1> QED BY <1>1, <1>3, <1>5, <1>6 DEF BuildInv

LEMMA StepKeeps ==
  BuildInv /\ [Next]_vars => BuildInv' /\ (entry' # entry => level[entry'] > level[entry])
<1> SUFFICES ASSUME BuildInv, [Next]_vars
             PROVE  BuildInv' /\ (entry' # entry => level[entry'] > level[entry])
  OBVIOUS
<1>1. ASSUME NEW t \in Workers, Step(t)
      PROVE  BuildInv' /\ (entry' # entry => level[entry'] > level[entry])
  BY <1>1, TakeKeeps, EnterKeeps, DescendKeeps, ExpandKeeps, WriteOwnKeeps, LinkBackKeeps,
     NextLayerKeeps, FinishKeeps DEF Step
<1>2. CASE UNCHANGED vars
  <2>1. InputsOK' /\ SharedOK' /\ UNCHANGED entry
    BY <1>2 DEF vars, BuildInv, InputsOK, SharedOK, Nodes
  <2>2. LinksOK'
    BY <1>2, LinksStay DEF vars, BuildInv
  <2>3. WorkersOK'
    BY <1>2 DEF vars, BuildInv, WorkersOK, WorkerOK, WorkerState, OnLayer, HoldsLock,
                Reaching, Nodes
  <2> QED BY <2>1, <2>2, <2>3 DEF BuildInv
<1> QED BY <1>1, <1>2 DEF Next, Joined

-----------------------------------------------------------------------------
(* What the invariant says of the properties. *)
LEMMA InvGives == BuildInv => TypeOK /\ ListsFit /\ LayersExist
<1> SUFFICES ASSUME BuildInv PROVE TypeOK /\ ListsFit /\ LayersExist
  OBVIOUS
<1>1. ASSUME NEW i \in Nodes, NEW lv \in 0 .. level[i]
      PROVE  /\ links[i][lv] \in Seq(Nodes) /\ Len(links[i][lv]) <= Capacity(lv)
             /\ \A b \in ToSet(links[i][lv]) : level[b] >= lv
  <2>1. lv \in Nat /\ i \in Reaching(lv)
    BY InputTypes DEF BuildInv, Reaching
  <2>2. /\ links[i][lv] \in Seq(Reaching(lv)) /\ Len(links[i][lv]) <= Capacity(lv)
        /\ ToSet(links[i][lv]) \subseteq Reaching(lv)
    BY <2>1, ListFacts
  <2>3. Reaching(lv) \subseteq Nodes /\ \A b \in Reaching(lv) : level[b] >= lv
    BY DEF Reaching
  <2> QED BY <2>2, <2>3, SeqMonotonic
<1>2. \A i \in Nodes : DOMAIN links[i] = 0 .. level[i]
  BY DEF BuildInv, LinksOK
<1>3. TypeOK
  <2>1. \A t \in Workers :
          /\ w[t].pc \in {"idle", "enter", "descend", "search", "link"}
          /\ w[t].i \in Nodes /\ w[t].last \in Nodes /\ w[t].ep \in Nodes /\ w[t].lv \in Nat
          /\ w[t].hold \in BOOLEAN
          /\ w[t].cand \subseteq w[t].vis /\ w[t].res \subseteq w[t].vis
          /\ w[t].vis \subseteq Nodes /\ w[t].sel \in Seq(Nodes)
    BY WorkerFacts DEF WorkerState, OnLayer
  <2>2. /\ x \in Points /\ level \in Levels
        /\ entry \in Nodes /\ maxlevel \in Nat
        /\ global \in Workers \cup {NoWorker} /\ next \in 2 .. N + 1
    BY InputTypes DEF BuildInv, InputsOK, SharedOK
  <2> QED BY <1>1, <1>2, <2>1, <2>2 DEF TypeOK
<1>4. ListsFit
  BY <1>1 DEF ListsFit
<1>5. LayersExist
  <2>1. level[entry] = maxlevel
    BY DEF BuildInv, SharedOK
  <2>2. \A t \in Workers :
          /\ w[t].pc \in {"descend", "search"} => level[w[t].ep] >= w[t].lv
          /\ w[t].pc = "search" => \A c \in w[t].cand : level[c] >= w[t].lv
    BY WorkerFacts DEF OnLayer, Reaching
  <2> QED BY <1>1, <2>1, <2>2 DEF LayersExist
<1> QED BY <1>3, <1>4, <1>5

LEMMA BuildInvHolds == Spec => []BuildInv
<1>1. BuildInv /\ [Next]_vars => BuildInv'
  BY StepKeeps
<1> QED BY <1>1, InitHolds, PTL DEF Spec

(* The build's state has its types: a worker works on nodes that exist.    *)
THEOREM HnswTypes == Spec => []TypeOK
BY BuildInvHolds, InvGives, PTL

(* However the insertions overlap, no list outgrows its M or M0 places.    *)
THEOREM HnswListsFit == Spec => []ListsFit
BY BuildInvHolds, InvGives, PTL

(* Every list that a worker reads has been allocated.                      *)
THEOREM HnswLayersExist == Spec => []LayersExist
BY BuildInvHolds, InvGives, PTL

(* Under the lock kept over an insertion, the entry point only climbs.     *)
THEOREM HnswEntryClimbs == Spec => EntryClimbs
<1>1. BuildInv /\ [Next]_vars => [entry' # entry => level[entry'] > level[entry]]_vars
  BY StepKeeps
<1> QED BY <1>1, BuildInvHolds, PTL DEF Spec, EntryClimbs

-----------------------------------------------------------------------------
(***************************************************************************)
(* No list names its own node, or a node twice.  A worker has a node that  *)
(* it has not linked yet on the layer Under(s) and those below, and has    *)
(* met other nodes there.  A node met on a layer may itself still be on    *)
(* its way down to it: its list is empty, others link to it, and what it   *)
(* writes is written over them.  Then it must not find those others, who   *)
(* have it in their lists.  What keeps it from them is that, but for its   *)
(* own next link, the layer falls apart: there is a set D with the node in *)
(* it, with none that it has met, that no list leaves or enters, and that  *)
(* no other worker is about to leave or enter.                             *)
(***************************************************************************)
Working == {"descend", "search", "link"}

Under(s) == IF s.pc = "link" THEN s.lv - 1 ELSE s.lv
Met(s) == IF s.pc = "search" THEN s.vis ELSE {s.ep}
Pending(s) == IF s.pc = "link" THEN ToSet(s.sel) ELSE {}

Together(D, a, B) == \A b \in B : a \in D <=> b \in D

LinksTogether(D, p) ==
  \A a \in Nodes : \A lv \in 0 .. level[a] :
    lv <= p => Together(D, a, ToSet(links[a][lv]))

WorkerTogether(s, D, p) ==
  /\ Under(s) <= p => Together(D, s.i, Met(s))
  /\ s.lv <= p => Together(D, s.i, Pending(s))

Splits(D, p, X) ==
  /\ LinksTogether(D, p)
  /\ \A u \in Workers \ X : w[u].pc \in Working => WorkerTogether(w[u], D, p)

Apart(t, D) ==
  /\ w[t].i \in D /\ D \cap Met(w[t]) = {}
  /\ Splits(D, Under(w[t]), {t})

Separate == \A t \in Workers : w[t].pc \in Working => \E D \in SUBSET Nodes : Apart(t, D)

(* Nodes whose insertion has not begun: nobody knows them.  A worker keeps *)
(* the rest of its chunk to itself.                                        *)
Knows(s) == IF s.pc \in Working THEN {s.i} \cup Met(s) \cup Pending(s) ELSE {}

Unmet(a) ==
  /\ a # entry
  /\ \A lv \in 0 .. level[a] : ToSet(links[a][lv]) = {}
  /\ \A b \in Nodes : \A lv \in 0 .. level[b] : a \notin ToSet(links[b][lv])
  /\ \A u \in Workers : a \notin Knows(w[u])

Holding(s) == IF s.pc = "idle" THEN {} ELSE {s.i} \cup (s.i + 1 .. s.last)
Coming(s) == IF s.pc = "enter" THEN Holding(s)
             ELSE IF s.pc = "idle" THEN {} ELSE s.i + 1 .. s.last

Owned ==
  /\ \A t \in Workers : Holding(w[t]) \subseteq 2 .. next - 1
  /\ \A t \in Workers : \A u \in Workers \ {t} : Holding(w[t]) \cap Holding(w[u]) = {}

ComingUnmet ==
  /\ \A a \in next .. N : Unmet(a)
  /\ \A t \in Workers : \A a \in Coming(w[t]) : Unmet(a)

(* The neighbours still to be linked back to do not have the node yet.     *)
NotYetLinked(s) ==
  s.pc = "link" =>
    /\ IsInjective(s.sel) /\ s.i \notin ToSet(s.sel)
    /\ \A b \in ToSet(s.sel) : s.i \notin ToSet(links[b][s.lv])

MeetInv == /\ Owned /\ ComingUnmet /\ Separate /\ ProperNeighbours
           /\ \A t \in Workers : NotYetLinked(w[t])

Hangs(E, D, C, a, B, c, e) ==
  /\ a \in E /\ E \cap B = {} /\ Together(E, c, {e})
  /\ \A b \in Nodes, S \in SUBSET Nodes :
       Together(D, b, S) /\ Together(C, b, S) => Together(E, b, S)

(***************************************************************************)
(* D keeps what a has met apart, and C is to be hung on e: D can be made   *)
(* to hold both or none of c and e, and parts nothing that neither parts.  *)
(***************************************************************************)
LEMMA Hung ==
  ASSUME NEW D \in SUBSET Nodes, NEW C \in SUBSET Nodes,
         NEW a \in D, NEW B \in SUBSET Nodes, D \cap B = {}, Together(C, a, B),
         NEW c \in C, NEW e \in Nodes \ C
  PROVE  \E E \in SUBSET Nodes : Hangs(E, D, C, a, B, c, e)
<1>1. CASE c \in D <=> e \in D
  <2> WITNESS D \in SUBSET Nodes
  <2> QED BY <1>1 DEF Hangs, Together
<1>2. CASE c \in D /\ e \notin D /\ a \in C
  <2> WITNESS D \cup (Nodes \ C) \in SUBSET Nodes
  <2> QED BY <1>2 DEF Hangs, Together
<1>3. CASE c \in D /\ e \notin D /\ a \notin C
  <2> WITNESS D \ C \in SUBSET Nodes
  <2> QED BY <1>3 DEF Hangs, Together
<1>4. CASE c \notin D /\ e \in D /\ a \in C
  <2> WITNESS D \cap C \in SUBSET Nodes
  <2> QED BY <1>4 DEF Hangs, Together
<1>5. CASE c \notin D /\ e \in D /\ a \notin C
  <2> WITNESS D \cup C \in SUBSET Nodes
  <2> QED BY <1>5 DEF Hangs, Together
<1> QED BY <1>1, <1>2, <1>3, <1>4, <1>5

LEMMA PlaceFacts ==
  ASSUME NEW s \in WorkerState
  PROVE  /\ Under(s) \in Int /\ Under(s) <= s.lv /\ s.lv \in Nat
         /\ s.lv <= Under(s) => Pending(s) = {}
         /\ Met(s) \in SUBSET Nodes /\ Pending(s) \in SUBSET Nodes /\ s.i \in Nodes
<1>1. s.lv \in Nat /\ s.vis \in SUBSET Nodes /\ s.ep \in Nodes /\ s.i \in Nodes
  BY DEF WorkerState
<1>2. s.sel \in Seq(Nodes)
  BY DEF WorkerState
<1>3. ToSet(s.sel) \in SUBSET Nodes
  BY <1>2 DEF ToSet
<1> QED BY <1>1, <1>3 DEF Under, Met, Pending

LEMMA ListNodes ==
  ASSUME BuildInv, NEW a \in Nodes, NEW lv \in 0 .. level[a]
  PROVE  /\ links[a][lv] \in Seq(Nodes) /\ ToSet(links[a][lv]) \in SUBSET Nodes
         /\ lv \in Nat /\ level[a] \in Nat
<1>1. level[a] \in Nat
  BY InputTypes DEF BuildInv
<1>2. lv \in Nat /\ a \in Reaching(lv)
  BY <1>1 DEF Reaching
<1>3. Reaching(lv) \subseteq Nodes
  BY DEF Reaching
<1>4. links[a][lv] \in Seq(Reaching(lv)) /\ ToSet(links[a][lv]) \subseteq Reaching(lv)
  BY <1>2, ListFacts
<1> QED BY <1>1, <1>2, <1>3, <1>4, SeqMonotonic

(* A set that splits the layers up to p splits those up to q. *)
LEMMA Narrower ==
  ASSUME BuildInv, NEW D, NEW p \in Int, NEW q \in Int, q <= p, NEW X, NEW Y, X \subseteq Y,
         Splits(D, p, X)
  PROVE  Splits(D, q, Y)
<1>1. LinksTogether(D, q)
  BY ListNodes DEF Splits, LinksTogether
<1>2. ASSUME NEW u \in Workers \ Y, w[u].pc \in Working
      PROVE  WorkerTogether(w[u], D, q)
  <2>1. WorkerTogether(w[u], D, p)
    BY <1>2 DEF Splits
  <2>2. Under(w[u]) \in Int /\ w[u].lv \in Int
    BY WorkerFacts, PlaceFacts
  <2> QED BY <2>1, <2>2 DEF WorkerTogether
<1> QED BY <1>1, <1>2 DEF Splits

(***************************************************************************)
(* The node i of worker t, apart from e by C, is about to meet e on a      *)
(* layer where u keeps D apart: u can do with another set, to which the    *)
(* two are together.                                                       *)
(***************************************************************************)
LEMMA Arrive ==
  ASSUME BuildInv, NEW t \in Workers, NEW u \in Workers \ {t}, w[u].pc \in Working,
         NEW D \in SUBSET Nodes, Apart(u, D),
         NEW C \in SUBSET Nodes, Splits(C, Under(w[u]), {t}),
         NEW i \in C, NEW e \in Nodes \ C
  PROVE  \E E \in SUBSET Nodes :
           /\ w[u].i \in E /\ E \cap Met(w[u]) = {}
           /\ Splits(E, Under(w[u]), {u, t}) /\ Together(E, i, {e})
<1> DEFINE s == w[u]
           p == Under(s)
<1>1. p \in Int /\ Met(s) \in SUBSET Nodes /\ s.i \in Nodes
  BY WorkerFacts, PlaceFacts
<1>2. s.i \in D /\ D \cap Met(s) = {} /\ Splits(D, p, {u})
  BY DEF Apart
<1>3. Together(C, s.i, Met(s))
  <2>1. WorkerTogether(s, C, p)
    BY DEF Splits
  <2> QED BY <1>1, <2>1 DEF WorkerTogether
<1>4. PICK E \in SUBSET Nodes :
        /\ s.i \in E /\ E \cap Met(s) = {} /\ Together(E, i, {e})
        /\ \A b \in Nodes, S \in SUBSET Nodes :
             Together(D, b, S) /\ Together(C, b, S) => Together(E, b, S)
  <2> DEFINE a == s.i
             B == Met(s)
  <2>1. a \in D /\ B \in SUBSET Nodes /\ D \cap B = {} /\ Together(C, a, B)
    BY <1>1, <1>2, <1>3
  <2> HIDE DEF a, B
  <2>2. \E E \in SUBSET Nodes : Hangs(E, D, C, a, B, i, e)
    BY <2>1, Hung
  <2> QED BY <2>2 DEF a, B, Hangs
<1>5. LinksTogether(E, p)
  <2> SUFFICES ASSUME NEW a \in Nodes, NEW lv \in 0 .. level[a], lv <= p
               PROVE  Together(E, a, ToSet(links[a][lv]))
    BY DEF LinksTogether
  <2>1. Together(D, a, ToSet(links[a][lv])) /\ Together(C, a, ToSet(links[a][lv]))
    BY <1>2 DEF Splits, LinksTogether
  <2> QED BY <1>4, <2>1, ListNodes
<1>6. ASSUME NEW v \in Workers \ {u, t}, w[v].pc \in Working
      PROVE  WorkerTogether(w[v], E, p)
  <2>1. WorkerTogether(w[v], D, p) /\ WorkerTogether(w[v], C, p)
    BY <1>2, <1>6 DEF Splits
  <2>2. w[v].i \in Nodes /\ Met(w[v]) \in SUBSET Nodes /\ Pending(w[v]) \in SUBSET Nodes
    BY WorkerFacts, PlaceFacts
  <2> QED BY <1>4, <2>1, <2>2 DEF WorkerTogether
<1> QED BY <1>4, <1>5, <1>6 DEF Splits

(***************************************************************************)
(* A worker goes on: it stays on its layer or goes one down from a single  *)
(* node, all it meets is in a list of what it has met, and the lists get   *)
(* new nodes only above the layers still under it, its own list what it    *)
(* has met and the lists it has pending its node.                          *)
(***************************************************************************)
MeetsNext(s, r) ==
  /\ \/ Under(r) = Under(s)
     \/ Under(r) = Under(s) - 1 /\ Met(r) = {r.ep}
  /\ \A m \in Met(r) :
       \/ m \in Met(s)
       \/ \E a \in Met(s) : Under(s) \in 0 .. level[a] /\ m \in ToSet(links[a][Under(s)])
  /\ \/ Pending(r) \subseteq Met(s)
     \/ Pending(r) \subseteq Pending(s) /\ r.lv = s.lv

Links(s, r, a, lv, m) ==
  /\ lv = s.lv /\ Under(r) < lv
  /\ (a = s.i /\ m \in Met(s) /\ lv = Under(s)) \/ (m = s.i /\ a \in Pending(s))

Advances(t, s, r) ==
  /\ s = w[t] /\ r = w'[t] /\ \A u \in Workers \ {t} : w'[u] = w[u]
  /\ s.pc \in Working /\ r.pc \in Working /\ r \in WorkerState
  /\ r.i = s.i /\ r.last = s.last
  /\ MeetsNext(s, r)
  /\ \A a \in Nodes : \A lv \in 0 .. level[a] : \A m \in ToSet(links'[a][lv]) :
       m \in ToSet(links[a][lv]) \/ Links(s, r, a, lv, m)

(* A worker that stays keeps its set. *)
LEMMA ApartStays ==
  ASSUME UNCHANGED level, NEW t \in Workers, NEW u \in Workers \ {t},
         NEW E \in SUBSET Nodes,
         \A v \in Workers \ {t} : w'[v] = w[v],
         NEW p, p = Under(w[u]),
         w[u].i \in E, E \cap Met(w[u]) = {}, Splits(E, p, {u, t}), LinksTogether(E, p)',
         w'[t].pc \in Working => WorkerTogether(w'[t], E, p)
  PROVE  Apart(u, E)'
<1>1. /\ w'[u] = w[u]
      /\ \A v \in Workers \ {u, t} : w[v].pc \in Working => WorkerTogether(w[v], E, p)
  BY DEF Splits
<1>2. \A v \in Workers \ {u} : w'[v].pc \in Working => WorkerTogether(w'[v], E, p)
  BY <1>1
<1>3. Under(w'[u]) = p /\ E \cap Met(w'[u]) = {}
  BY <1>1
<1> QED BY <1>1, <1>2, <1>3
        DEF Apart, Splits, LinksTogether, WorkerTogether, Together, Under, Met, Pending,
            Working, Nodes

(* What a set keeps together of the worker's past, it keeps of its future. *)
LEMMA AdvanceTogether ==
  ASSUME BuildInv, UNCHANGED level, NEW t \in Workers, NEW s \in WorkerState, NEW r,
         Advances(t, s, r),
         NEW E \in SUBSET Nodes, NEW p \in Int, LinksTogether(E, p), Under(s) <= p,
         WorkerTogether(s, E, p)
  PROVE  WorkerTogether(r, E, p) /\ LinksTogether(E, p)'
<1>1. /\ r \in WorkerState /\ r.i = s.i /\ MeetsNext(s, r)
      /\ \A a \in Nodes : \A lv \in 0 .. level[a] : \A m \in ToSet(links'[a][lv]) :
           m \in ToSet(links[a][lv]) \/ Links(s, r, a, lv, m)
  BY DEF Advances
<1>2. /\ Under(s) \in Int /\ Under(r) \in Int /\ Met(s) \in SUBSET Nodes /\ s.lv \in Nat
      /\ r.lv \in Nat
  BY <1>1, PlaceFacts
<1>3. Together(E, s.i, Met(s)) /\ (s.lv <= p => Together(E, s.i, Pending(s)))
  BY DEF WorkerTogether
<1>4. Together(E, s.i, Met(r))
  <2> SUFFICES ASSUME NEW m \in Met(r) PROVE s.i \in E <=> m \in E
    BY DEF Together
  <2>1. CASE m \in Met(s)
    BY <1>3, <2>1 DEF Together
  <2>2. ASSUME NEW a \in Met(s), Under(s) \in 0 .. level[a],
               m \in ToSet(links[a][Under(s)])
        PROVE  s.i \in E <=> m \in E
    <3>1. a \in E <=> m \in E
      BY <1>2, <2>2 DEF LinksTogether, Together
    <3>2. s.i \in E <=> a \in E
      BY <1>3 DEF Together
    <3> QED BY <3>1, <3>2
  <2> QED BY <1>1, <2>1, <2>2 DEF MeetsNext
<1>5. r.lv <= p => Together(E, s.i, Pending(r))
  BY <1>1, <1>3 DEF MeetsNext, Together
<1>6. WorkerTogether(r, E, p)
  BY <1>1, <1>4, <1>5 DEF WorkerTogether
<1>7. ASSUME NEW a \in Nodes, NEW lv \in 0 .. level[a], lv <= p,
             NEW m \in ToSet(links'[a][lv])
      PROVE  a \in E <=> m \in E
  <2>1. CASE m \in ToSet(links[a][lv])
    BY <1>7, <2>1 DEF LinksTogether, Together
  <2>2. CASE Links(s, r, a, lv, m)
    BY <1>3, <1>7, <2>2 DEF Links, Together
  <2> QED BY <1>1, <2>1, <2>2
<1>8. LinksTogether(E, p)'
  BY <1>7 DEF LinksTogether, Together, Nodes
<1> QED BY <1>6, <1>8

LEMMA AdvanceSeparate ==
  ASSUME BuildInv, Separate, UNCHANGED level, NEW t \in Workers, NEW s, NEW r,
         Advances(t, s, r)
  PROVE  Separate'
<1>1. /\ s = w[t] /\ r = w'[t] /\ \A u \in Workers \ {t} : w'[u] = w[u]
      /\ s.pc \in Working /\ r.pc \in Working /\ r \in WorkerState
      /\ r.i = s.i /\ MeetsNext(s, r)
      /\ \A a \in Nodes : \A lv \in 0 .. level[a] : \A m \in ToSet(links'[a][lv]) :
           m \in ToSet(links[a][lv]) \/ Links(s, r, a, lv, m)
  BY DEF Advances
<1>2. s \in WorkerState
  BY <1>1, WorkerFacts
<1>3. /\ Under(s) \in Int /\ Under(r) \in Int /\ s.lv \in Nat /\ r.lv \in Nat
      /\ Met(s) \in SUBSET Nodes /\ Met(r) \in SUBSET Nodes /\ Under(r) <= r.lv
      /\ r.lv <= Under(r) => Pending(r) = {}
      /\ Under(r) = Under(s) \/ (Under(r) = Under(s) - 1 /\ Met(r) = {r.ep})
  <2>1. Under(s) \in Int /\ s.lv \in Nat /\ Met(s) \in SUBSET Nodes
    BY <1>2, PlaceFacts
  <2>2. /\ Under(r) \in Int /\ r.lv \in Nat /\ Met(r) \in SUBSET Nodes
        /\ Under(r) <= r.lv /\ (r.lv <= Under(r) => Pending(r) = {})
    BY <1>1, PlaceFacts
  <2>3. Under(r) = Under(s) \/ (Under(r) = Under(s) - 1 /\ Met(r) = {r.ep})
    BY <1>1 DEF MeetsNext
  <2> QED BY <2>1, <2>2, <2>3
<1>4. PICK C \in SUBSET Nodes : Apart(t, C)
  BY <1>1 DEF Separate
<1>5. s.i \in C /\ C \cap Met(s) = {} /\ Splits(C, Under(s), {t})
  BY <1>1, <1>4 DEF Apart
<1>6. C \cap Met(r) = {}
  <2> SUFFICES ASSUME NEW m \in Met(r), m \in C PROVE FALSE
    OBVIOUS
  <2>1. PICK a \in Met(s) : Under(s) \in 0 .. level[a] /\ m \in ToSet(links[a][Under(s)])
    BY <1>1, <1>5 DEF MeetsNext
  <2>2. a \in C
    BY <1>3, <1>5, <2>1 DEF Splits, LinksTogether, Together
  <2> QED BY <1>5, <2>2
(* Up to the layers that are still under the worker no list grows. *)
<1>7. ASSUME NEW E \in SUBSET Nodes, NEW p \in Int, p <= Under(r), LinksTogether(E, p)
      PROVE  LinksTogether(E, p)'
  <2> SUFFICES ASSUME NEW a \in Nodes, NEW lv \in 0 .. level[a], lv <= p,
                      NEW m \in ToSet(links'[a][lv])
               PROVE  a \in E <=> m \in E
    BY DEF LinksTogether, Together, Nodes
  <2>1. lv \in Int
    OBVIOUS
  <2>2. ~Links(s, r, a, lv, m)
    BY <1>3, <1>7, <2>1 DEF Links
  <2>3. m \in ToSet(links[a][lv])
    BY <1>1, <2>2
  <2> QED BY <1>7, <2>3 DEF LinksTogether, Together
<1>8. Apart(t, C)'
  <2>1. Splits(C, Under(r), {t})
    BY <1>3, <1>5, Narrower
  <2>2. LinksTogether(C, Under(r))'
    BY <1>3, <1>7, <2>1 DEF Splits
  <2>3. \A u \in Workers \ {t} : w'[u].pc \in Working => WorkerTogether(w'[u], C, Under(r))
    BY <1>1, <2>1 DEF Splits
  <2> DEFINE p == Under(r)
  <2>4. w'[t].i \in C /\ C \cap Met(w'[t]) = {} /\ Under(w'[t]) = p
    BY <1>1, <1>5, <1>6
  <2>5. LinksTogether(C, p)'
    BY <2>2 DEF LinksTogether
  <2> HIDE DEF p
  <2> QED BY <2>3, <2>4, <2>5
          DEF p, Apart, Splits, LinksTogether, WorkerTogether, Together, Under, Met, Pending,
              Working, Nodes
<1>9. ASSUME NEW u \in Workers \ {t}, w[u].pc \in Working
      PROVE  \E E \in SUBSET Nodes : Apart(u, E)'
  <2>1. PICK p \in Int : p = Under(w[u])
    BY WorkerFacts, PlaceFacts
  <2>2. PICK D \in SUBSET Nodes : Apart(u, D)
    BY <1>9 DEF Separate
  <2>3. w[u].i \in D /\ D \cap Met(w[u]) = {} /\ Splits(D, p, {u}) /\ LinksTogether(D, p)
        /\ WorkerTogether(s, D, p) /\ Splits(D, p, {u, t})
    BY <1>1, <2>1, <2>2 DEF Apart, Splits
  <2>4. CASE Under(s) <= p
    <3>1. WorkerTogether(r, D, p) /\ LinksTogether(D, p)'
      BY <1>2, <2>1, <2>3, <2>4, AdvanceTogether
    <3>2. Apart(u, D)'
      BY <1>1, <2>1, <2>3, <3>1, ApartStays
    <3> QED BY <3>2
  <2>5. CASE p < Under(r)
    <3>1. WorkerTogether(r, D, p)
      BY <1>3, <2>1, <2>5 DEF WorkerTogether
    <3>2. LinksTogether(D, p)'
      BY <1>3, <1>7, <2>1, <2>3, <2>5
    <3>3. Apart(u, D)'
      BY <1>1, <2>1, <2>3, <3>1, <3>2, ApartStays
    <3> QED BY <3>3
  <2>6. CASE p = Under(r) /\ p < Under(s)
    <3>1. Met(r) = {r.ep} /\ r.ep \in Nodes \ C
      BY <1>3, <1>6, <2>6
    <3>2. Splits(C, p, {t})
      BY <1>3, <1>5, <2>1, <2>6, Narrower
    <3>3. PICK E \in SUBSET Nodes :
            /\ w[u].i \in E /\ E \cap Met(w[u]) = {}
            /\ Splits(E, p, {u, t}) /\ Together(E, s.i, {r.ep})
      BY <1>5, <1>9, <2>1, <2>2, <3>1, <3>2, Arrive
    <3>4. WorkerTogether(r, E, p)
      BY <1>1, <1>3, <2>6, <3>1, <3>3 DEF WorkerTogether, Together
    <3>5. LinksTogether(E, p)'
      BY <1>3, <1>7, <2>1, <2>6, <3>3 DEF Splits
    <3>6. Apart(u, E)'
      BY <1>1, <2>1, <3>3, <3>4, <3>5, ApartStays
    <3> QED BY <3>6
  <2> QED BY <1>3, <2>1, <2>4, <2>5, <2>6
<1> QED BY <1>1, <1>8, <1>9 DEF Separate, Working

-----------------------------------------------------------------------------
(* Whose nodes are whose. *)
LEMMA HoldingFacts ==
  ASSUME BuildInv, Owned, NEW t \in Workers
  PROVE  /\ Holding(w[t]) \subseteq 2 .. next - 1 /\ next \in 2 .. N + 1
         /\ Coming(w[t]) \subseteq Holding(w[t])
         /\ \A a \in next .. N : a \notin Holding(w[t])
         /\ w[t].pc \in Working => w[t].i \in Holding(w[t]) /\ w[t].i \notin Coming(w[t])
         /\ \A u \in Workers \ {t} : Holding(w[t]) \cap Holding(w[u]) = {}
<1>1. w[t].i \in Nat /\ w[t].last \in Nat /\ next \in 2 .. N + 1
  <2>1. w[t].i \in Nodes /\ w[t].last \in Nodes
    BY WorkerFacts DEF WorkerState
  <2>2. next \in 2 .. N + 1
    BY DEF BuildInv, SharedOK
  <2> QED BY <2>1, <2>2 DEF Nodes
<1>2. /\ Holding(w[t]) \subseteq 2 .. next - 1
      /\ \A u \in Workers \ {t} : Holding(w[t]) \cap Holding(w[u]) = {}
  BY DEF Owned
<1>3. \A a \in next .. N : a \notin 2 .. next - 1
  BY <1>1, HnswAssumption
<1>4. Coming(w[t]) \subseteq Holding(w[t])
  BY <1>1 DEF Coming, Holding
<1>5. w[t].pc \in Working => w[t].i \in Holding(w[t]) /\ w[t].i \notin Coming(w[t])
  BY <1>1 DEF Coming, Holding, Working
<1> QED BY <1>1, <1>2, <1>3, <1>4, <1>5

(* A node that is to come to a worker, or to nobody yet, is not another's. *)
LEMMA ComingApart ==
  ASSUME BuildInv, Owned, NEW t \in Workers, w[t].pc \in Working
  PROVE  /\ \A a \in next .. N : a # w[t].i
         /\ \A u \in Workers : \A a \in Coming(w[u]) : a # w[t].i
         /\ \A u \in Workers \ {t} : w[u].pc \in Working => w[u].i # w[t].i
<1>1. w[t].i \in Holding(w[t]) /\ w[t].i \notin Coming(w[t])
  BY HoldingFacts
<1>2. \A a \in next .. N : a # w[t].i
  BY <1>1, HoldingFacts
<1>3. ASSUME NEW u \in Workers \ {t} PROVE w[t].i \notin Holding(w[u])
  BY <1>1, HoldingFacts
<1>4. \A u \in Workers \ {t} : \A a \in Coming(w[u]) : a # w[t].i
  BY <1>3, HoldingFacts
<1>5. \A u \in Workers \ {t} : w[u].pc \in Working => w[u].i # w[t].i
  BY <1>3, HoldingFacts
<1> QED BY <1>1, <1>2, <1>4, <1>5

LEMMA UnmetStays ==
  ASSUME BuildInv, UNCHANGED << level, entry >>, NEW t \in Workers, NEW s, NEW r,
         Advances(t, s, r), NEW a \in Nodes, a # s.i, Unmet(a)
  PROVE  Unmet(a)'
<1>1. /\ s = w[t] /\ r = w'[t] /\ \A u \in Workers \ {t} : w'[u] = w[u]
      /\ s.pc \in Working /\ r.pc \in Working /\ r.i = s.i /\ MeetsNext(s, r)
      /\ \A b \in Nodes : \A lv \in 0 .. level[b] : \A m \in ToSet(links'[b][lv]) :
           m \in ToSet(links[b][lv]) \/ Links(s, r, b, lv, m)
  BY DEF Advances
<1>2. /\ a # entry /\ a \notin Met(s) /\ a \notin Pending(s)
      /\ \A lv \in 0 .. level[a] : ToSet(links[a][lv]) = {}
      /\ \A b \in Nodes : \A lv \in 0 .. level[b] : a \notin ToSet(links[b][lv])
      /\ \A u \in Workers : a \notin Knows(w[u])
  BY <1>1 DEF Unmet, Knows
<1>3. Met(s) \in SUBSET Nodes
  BY <1>1, WorkerFacts, PlaceFacts
<1>4. a \notin Met(r)
  BY <1>1, <1>2, <1>3 DEF MeetsNext
<1>5. a \notin Pending(r)
  BY <1>1, <1>2 DEF MeetsNext
<1>6. \A u \in Workers : a \notin Knows(w'[u])
  <2>1. a \notin Knows(r)
    BY <1>1, <1>4, <1>5 DEF Knows
  <2> QED BY <1>1, <1>2, <2>1
<1>7. \A lv \in 0 .. level[a] : ToSet(links'[a][lv]) = {}
  BY <1>1, <1>2 DEF Links
<1>8. \A b \in Nodes : \A lv \in 0 .. level[b] : a \notin ToSet(links'[b][lv])
  BY <1>1, <1>2 DEF Links
<1> QED BY <1>2, <1>6, <1>7, <1>8 DEF Unmet, Knows, Met, Pending, Working, Nodes

LEMMA AdvanceRest ==
  ASSUME BuildInv, MeetInv, UNCHANGED << level, entry, next >>, NEW t \in Workers,
         NEW s, NEW r, Advances(t, s, r)
  PROVE  Owned' /\ ComingUnmet' /\ \A u \in Workers \ {t} : NotYetLinked(w[u])'
<1>1. /\ s = w[t] /\ r = w'[t] /\ \A u \in Workers \ {t} : w'[u] = w[u]
      /\ s.pc \in Working /\ r.pc \in Working /\ r.i = s.i /\ r.last = s.last
      /\ \A b \in Nodes : \A lv \in 0 .. level[b] : \A m \in ToSet(links'[b][lv]) :
           m \in ToSet(links[b][lv]) \/ Links(s, r, b, lv, m)
  BY DEF Advances
<1>2. Owned /\ ComingUnmet /\ Separate
  BY DEF MeetInv
<1>3. \A u \in Workers : Holding(w'[u]) = Holding(w[u]) /\ Coming(w'[u]) = Coming(w[u])
  BY <1>1 DEF Holding, Coming, Working
<1>4. Owned'
  BY <1>2, <1>3 DEF Owned, Holding
<1>5. ASSUME NEW a \in Nodes, a # s.i, Unmet(a) PROVE Unmet(a)'
  BY <1>5, UnmetStays
<1>6. next .. N \subseteq Nodes /\ \A u \in Workers : Coming(w[u]) \subseteq Nodes
  <2>1. next \in 2 .. N + 1
    BY DEF BuildInv, SharedOK
  <2>2. 2 .. next - 1 \subseteq Nodes /\ next .. N \subseteq Nodes
    BY <2>1, HnswAssumption DEF Nodes
  <2> QED BY <1>2, <2>2, HoldingFacts
<1>7. /\ \A a \in next .. N : Unmet(a)'
      /\ \A u \in Workers : \A a \in Coming(w[u]) : Unmet(a)'
  BY <1>1, <1>2, <1>5, <1>6, ComingApart DEF ComingUnmet
<1>8. ComingUnmet'
  <2>1. /\ \A a \in next' .. N : Unmet(a)'
        /\ \A u \in Workers : \A a \in Coming(w'[u]) : Unmet(a)'
    BY <1>3, <1>7
  <2> QED BY <2>1 DEF ComingUnmet, Coming, Holding
<1>9. ASSUME NEW u \in Workers \ {t}, w[u].pc = "link"
      PROVE  /\ IsInjective(w[u].sel) /\ w[u].i \notin ToSet(w[u].sel)
             /\ \A b \in ToSet(w[u].sel) : w[u].i \notin ToSet(links'[b][w[u].lv])
  <2> DEFINE v == w[u]
  <2>1. /\ IsInjective(v.sel) /\ v.i \notin ToSet(v.sel)
        /\ \A b \in ToSet(v.sel) : v.i \notin ToSet(links[b][v.lv])
    BY <1>9 DEF MeetInv, NotYetLinked
  <2>2. v.i # s.i /\ v.pc \in Working
    BY <1>1, <1>2, <1>9, ComingApart DEF Working
  <2>3. v.lv \in Nat /\ v.sel \in Seq(Reaching(v.lv))
    BY <1>9, WorkerFacts DEF OnLayer
  <2> SUFFICES ASSUME NEW b \in ToSet(v.sel), v.i \in ToSet(links'[b][v.lv]) PROVE FALSE
    BY <2>1
  <2>4. b \in Nodes /\ v.lv \in 0 .. level[b]
    <3>1. b \in Reaching(v.lv)
      BY <2>3 DEF ToSet
    <3>2. b \in Nodes /\ level[b] >= v.lv /\ level[b] \in Nat
      BY <3>1, WorkerFacts DEF Reaching
    <3> QED BY <2>3, <3>2
  <2>5. Links(s, r, b, v.lv, v.i)
    BY <1>1, <2>1, <2>4
  <2>6. b = s.i /\ v.i \in Met(s) /\ v.lv = Under(s)
    BY <2>2, <2>5 DEF Links
  <2>7. PICK D \in SUBSET Nodes : Apart(t, D)
    BY <1>1, <1>2 DEF Separate
  <2>8. s.i \in D /\ D \cap Met(s) = {} /\ WorkerTogether(v, D, Under(s))
    BY <1>1, <2>2, <2>7 DEF Apart, Splits
  <2>9. Together(D, v.i, Pending(v)) /\ b \in Pending(v)
    BY <1>9, <2>3, <2>6, <2>8 DEF WorkerTogether, Pending
  <2> QED BY <2>6, <2>8, <2>9 DEF Together
<1>10. \A u \in Workers \ {t} : NotYetLinked(w[u])'
  BY <1>1, <1>9 DEF NotYetLinked
<1> QED BY <1>4, <1>8, <1>10

-----------------------------------------------------------------------------
(* The steps that change no list. *)
LEMMA SameLists ==
  ASSUME BuildInv, MeetInv, UNCHANGED << level, links, entry, next >>, NEW t \in Workers,
         NEW s, NEW r, Advances(t, s, r), NotYetLinked(r)
  PROVE  MeetInv'
<1>1. Owned' /\ ComingUnmet' /\ Separate' /\ \A u \in Workers \ {t} : NotYetLinked(w[u])'
  BY AdvanceRest, AdvanceSeparate DEF MeetInv
<1>2. NotYetLinked(w[t])'
  BY DEF Advances, NotYetLinked
<1>3. ProperNeighbours'
  BY DEF MeetInv, ProperNeighbours, Nodes
<1> QED BY <1>1, <1>2, <1>3 DEF MeetInv

LEMMA DescendMeets ==
  ASSUME BuildInv, MeetInv, NEW t \in Workers, Descend(t) PROVE MeetInv'
<1> DEFINE s == w[t]
           near == {s.ep} \cup ToSet(links[s.ep][s.lv])
           best == Nearest(s.i, near)
           r == IF Dist(best, s.i) < Dist(s.ep, s.i) THEN [s EXCEPT !.ep = best]
                ELSE Below(s, s.ep, s.lv - 1)
<1>1. /\ s.pc = "descend" /\ w' = [w EXCEPT ![t] = r]
      /\ UNCHANGED << level, links, entry, next >>
  BY DEF Descend, Same
<1>2. /\ s \in WorkerState /\ s.lv \in Nat /\ s.lv > level[s.i] /\ level[s.i] \in Nat
      /\ s.ep \in Reaching(s.lv) /\ s.cand \subseteq s.vis /\ s.res \subseteq s.vis
      /\ s.i \in Nodes
  BY <1>1, WorkerFacts DEF OnLayer
<1>3. best \in near /\ best \in Nodes
  <2>1. near \in SUBSET Reaching(s.lv) /\ near # {}
    BY <1>2, ListFacts
  <2>2. near \in SUBSET Nodes
    BY <2>1 DEF Reaching
  <2> HIDE DEF near
  <2> QED BY <1>2, <2>1, <2>2, WorkerFacts, NearestIn
<1>4. s.ep \in Nodes /\ s.lv \in 0 .. level[s.ep]
  BY <1>2, WorkerFacts DEF Reaching
<1>5. Under(s) = s.lv /\ Met(s) = {s.ep} /\ Pending(s) = {} /\ s.pc \in Working
  BY <1>1 DEF Under, Met, Pending, Working
<1>6. /\ r \in WorkerState /\ r.pc \in {"descend", "search"} /\ r.i = s.i /\ r.last = s.last
      /\ MeetsNext(s, r)
  <2>1. CASE r = [s EXCEPT !.ep = best]
    <3> HIDE DEF best
    <3> DEFINE v == [s EXCEPT !.ep = best]
    <3>1. /\ v \in WorkerState /\ v.pc = "descend" /\ v.i = s.i /\ v.last = s.last
          /\ v.lv = s.lv /\ v.ep = best
      BY <1>1, <1>2, <1>3 DEF WorkerState
    <3>2. Under(v) = Under(s) /\ Met(v) = {best} /\ Pending(v) = {}
      BY <1>5, <3>1 DEF Under, Met, Pending
    <3> HIDE DEF v, s
    <3>3. MeetsNext(s, v)
      BY <1>3, <1>4, <1>5, <3>2 DEF MeetsNext
    <3> HIDE DEF r
    <3> QED BY <2>1, <3>1, <3>3 DEF v
  <2>2. CASE r = Below(s, s.ep, s.lv - 1)
    <3>1. s.lv - 1 \in Nat /\ s.ep \in Reaching(s.lv - 1)
      BY <1>2, WorkerFacts DEF Reaching
    <3> HIDE DEF r, s
    <3>2. /\ r \in WorkerState /\ r.pc \in {"descend", "search"} /\ r.i = s.i
          /\ r.last = s.last /\ r.lv = s.lv - 1 /\ r.ep = s.ep
          /\ r.pc = "search" => r.vis = {s.ep}
      BY <1>2, <2>2, <3>1, WorkerFacts, BelowOK
    <3>3. Under(r) = s.lv - 1 /\ Met(r) = {r.ep} /\ Met(r) = {s.ep} /\ Pending(r) = {}
      BY <3>2 DEF Under, Met, Pending
    <3> QED BY <1>5, <3>2, <3>3 DEF MeetsNext
  <2> QED BY <2>1, <2>2
<1> HIDE DEF r
<1>7. r = w'[t] /\ \A u \in Workers \ {t} : w'[u] = w[u]
  BY <1>1 DEF BuildInv, WorkersOK
<1> HIDE DEF s
<1>8. Advances(t, s, r)
  BY <1>1, <1>5, <1>6, <1>7 DEF s, Advances, Working
<1>9. NotYetLinked(r)
  BY <1>6 DEF NotYetLinked
<1> QED BY <1>1, <1>8, <1>9, SameLists

LEMMA ExpandMeets ==
  ASSUME BuildInv, MeetInv, NEW t \in Workers, Expand(t) PROVE MeetInv'
<1> DEFINE s == w[t]
           c == Nearest(s.i, s.cand)
           h == [s EXCEPT !.cand = s.cand \ {c}]
           r == VisitAll(s.i, h, links[c][s.lv])
           L == ToSet(links[c][s.lv])
<1>1. /\ s.pc = "search" /\ s.cand # {} /\ w' = [w EXCEPT ![t] = r]
      /\ UNCHANGED << level, links, entry, next >>
  BY DEF Expand, SearchOver, Same
<1>2. /\ s \in WorkerState /\ s.lv \in Nat /\ s.i \in Nodes
      /\ s.lv <= level[s.i] /\ s.ep \in Reaching(s.lv) /\ s.vis \subseteq Reaching(s.lv)
      /\ s.cand \subseteq s.vis /\ s.res \subseteq s.vis /\ s.res # {}
      /\ s.cand \in SUBSET Nodes
  BY <1>1, WorkerFacts DEF OnLayer, WorkerState
<1>3. c \in s.vis /\ c \in Reaching(s.lv)
  BY <1>1, <1>2, WorkerFacts, NearestIn
<1>4. /\ L \in SUBSET Reaching(s.lv) /\ links[c][s.lv] \in Seq(L)
      /\ s.lv \in 0 .. level[c]
  <2>1. s.lv \in 0 .. level[c]
    BY <1>2, <1>3, WorkerFacts DEF Reaching
  <2> QED BY <1>2, <1>3, <2>1, ListFacts, SeqOfItsNodes
<1> DEFINE list == links[c][s.lv]
<1>5. L = ToSet(list) /\ list \in Seq(L)
  BY <1>4
<1> HIDE DEF c, L, list
<1>6. /\ h \in WorkerState /\ h.pc = "search" /\ h.i = s.i /\ h.lv = s.lv
      /\ h.last = s.last /\ h.vis = s.vis /\ OnLayer(h)
  <2>1. /\ h \in WorkerState /\ h.pc = "search" /\ h.i = s.i /\ h.lv = s.lv
        /\ h.last = s.last /\ h.ep = s.ep /\ h.vis = s.vis /\ h.res = s.res
        /\ h.cand = s.cand \ {c}
    BY <1>1, <1>2 DEF WorkerState
  <2> HIDE DEF h, s
  <2> QED BY <1>2, <2>1 DEF OnLayer
<1> HIDE DEF h
<1>7. r \in MaySearch(h, L)
  <2>1. r = VisitAll(s.i, h, list)
    BY DEF list
  <2> HIDE DEF r
  <2> QED BY <1>2, <1>4, <1>5, <1>6, <2>1, VisitAllOK
<1> HIDE DEF r
<1>8. /\ r \in WorkerState /\ r.pc = "search" /\ r.vis \subseteq s.vis \cup L
      /\ r.i = s.i /\ r.last = s.last /\ r.lv = s.lv
  BY <1>6, <1>7 DEF MaySearch
<1>9. /\ Under(s) = s.lv /\ Met(s) = s.vis /\ Under(r) = s.lv /\ Met(r) = r.vis
      /\ Pending(r) = {}
  BY <1>1, <1>8 DEF Under, Met, Pending
<1>10. MeetsNext(s, r)
  <2>1. \A m \in L : m \in ToSet(links[c][s.lv])
    BY <1>5 DEF list
  <2> HIDE DEF s
  <2> QED BY <1>3, <1>4, <1>8, <1>9, <2>1 DEF MeetsNext
<1>11. r = w'[t] /\ \A u \in Workers \ {t} : w'[u] = w[u]
  BY <1>1 DEF BuildInv, WorkersOK
<1> HIDE DEF s
<1>12. Advances(t, s, r)
  BY <1>1, <1>2, <1>8, <1>10, <1>11 DEF s, Advances, Working
<1>13. NotYetLinked(r)
  BY <1>8 DEF NotYetLinked
<1> QED BY <1>1, <1>12, <1>13, SameLists

LEMMA NextLayerMeets ==
  ASSUME BuildInv, MeetInv, NEW t \in Workers, NextLayer(t) PROVE MeetInv'
<1> DEFINE s == w[t]
           r == Searching(s, s.ep, s.lv - 1)
<1>1. /\ s.pc = "link" /\ s.lv > 0 /\ w' = [w EXCEPT ![t] = r]
      /\ UNCHANGED << level, links, entry, next >>
  BY DEF NextLayer, Same
<1>2. /\ s \in WorkerState /\ s.lv - 1 \in Nat /\ s.ep \in Reaching(s.lv - 1)
      /\ s.lv - 1 <= level[s.i]
  <2>1. s.lv <= level[s.i] /\ s.ep \in Nodes /\ level[s.ep] >= s.lv
    BY <1>1, WorkerFacts DEF OnLayer, Reaching
  <2>2. /\ s \in WorkerState /\ s.lv \in Nat /\ level[s.i] \in Nat
        /\ level[s.ep] \in Nat
    BY <2>1, WorkerFacts
  <2> HIDE DEF s
  <2> QED BY <1>1, <2>1, <2>2 DEF Reaching
<1>3. /\ r \in WorkerState /\ r.pc = "search" /\ r.i = s.i /\ r.last = s.last
      /\ r.lv = s.lv - 1 /\ r.vis = {s.ep}
  <2> HIDE DEF s
  <2> QED BY <1>2, WorkerFacts, SearchingOK
<1> HIDE DEF r
<1>4. /\ Under(s) = s.lv - 1 /\ Met(s) = {s.ep} /\ Under(r) = s.lv - 1 /\ Met(r) = {s.ep}
      /\ Pending(r) = {}
  BY <1>1, <1>3 DEF Under, Met, Pending
<1>5. r = w'[t] /\ \A u \in Workers \ {t} : w'[u] = w[u]
  BY <1>1 DEF BuildInv, WorkersOK
<1> HIDE DEF s
<1>6. MeetsNext(s, r)
  BY <1>4 DEF MeetsNext
<1>7. Advances(t, s, r)
  BY <1>1, <1>3, <1>5, <1>6 DEF s, Advances, Working
<1>8. NotYetLinked(r)
  BY <1>3 DEF NotYetLinked
<1> QED BY <1>1, <1>7, <1>8, SameLists

-----------------------------------------------------------------------------
(* Lists: what a node at the end adds, and what is left after the head. *)
LEMMA AppendedSet ==
  ASSUME NEW S, NEW list \in Seq(S), NEW c \in S
  PROVE  ToSet(Append(list, c)) \subseteq ToSet(list) \cup {c}
<1> DEFINE n == Len(list)
           longer == Append(list, c)
<1>1. n \in Nat /\ DOMAIN list = 1 .. n /\ DOMAIN longer = 1 .. n + 1
  BY LenProperties, AppendProperties
<1>2. \A j \in 1 .. n : longer[j] = list[j]
  BY AppendProperties
<1>3. longer[n + 1] = c
  BY AppendProperties
<1> HIDE DEF longer, n
<1>4. \A j \in 1 .. n + 1 : longer[j] \in ToSet(list) \cup {c}
  BY <1>1, <1>2, <1>3 DEF ToSet
<1> QED BY <1>1, <1>4 DEF longer, ToSet

LEMMA HeadTail ==
  ASSUME NEW S, NEW list \in Seq(S), list # << >>
  PROVE  /\ Head(list) \in ToSet(list) /\ ToSet(Tail(list)) \subseteq ToSet(list)
         /\ IsInjective(list) => IsInjective(Tail(list)) /\ Head(list) \notin ToSet(Tail(list))
<1> DEFINE n == Len(list)
           rest == Tail(list)
<1>1. n \in Nat /\ n > 0 /\ DOMAIN list = 1 .. n
  BY LenProperties, EmptySeq
<1>2. /\ Head(list) = list[1] /\ DOMAIN rest = 1 .. n - 1
      /\ \A j \in 1 .. n - 1 : rest[j] = list[j + 1]
  BY <1>1, HeadTailProperties, LenProperties
<1> HIDE DEF rest, n
<1>3. \A j \in 1 .. n - 1 : rest[j] = list[j + 1] /\ j + 1 \in 1 .. n /\ j + 1 # 1
  BY <1>1, <1>2
<1>4. 1 \in 1 .. n
  BY <1>1
<1>5. Head(list) \in ToSet(list)
  BY <1>1, <1>2, <1>4 DEF ToSet
<1>6. ToSet(rest) \subseteq ToSet(list)
  BY <1>1, <1>2, <1>3 DEF ToSet
<1>7. ASSUME IsInjective(list) PROVE IsInjective(rest) /\ Head(list) \notin ToSet(rest)
  <2>1. \A j, k \in 1 .. n : list[j] = list[k] => j = k
    BY <1>1, <1>7 DEF IsInjective
  <2>2. \A j \in 1 .. n - 1 : rest[j] # Head(list)
    BY <1>2, <1>3, <1>4, <2>1
  <2>3. \A j, k \in 1 .. n - 1 : rest[j] = rest[k] => j + 1 = k + 1
    BY <1>3, <2>1
  <2>4. \A j, k \in 1 .. n - 1 : rest[j] = rest[k] => j = k
    BY <1>1, <2>3
  <2> QED BY <1>2, <2>2, <2>4 DEF IsInjective, ToSet
<1> QED BY <1>5, <1>6, <1>7 DEF rest

-----------------------------------------------------------------------------
(* The steps that write a list. *)
Written(a, lv, list) ==
  \A b \in Nodes : \A k \in 0 .. level[b] :
    links'[b][k] = IF b = a /\ k = lv THEN list ELSE links[b][k]

LEMMA OneListIs ==
  ASSUME BuildInv, NEW a \in Nodes, NEW lv \in 0 .. level[a], NEW list,
         links' = [links EXCEPT ![a][lv] = list]
  PROVE  Written(a, lv, list)
<1>1. /\ links = [b \in Nodes |-> links[b]]
      /\ \A b \in Nodes : links[b] = [k \in 0 .. level[b] |-> links[b][k]]
  BY DEF BuildInv, LinksOK
<1> QED BY <1>1 DEF Written

LEMMA SelectedSet ==
  ASSUME Placed, NEW q \in Nodes, NEW lv, NEW S \in SUBSET Nodes
  PROVE  LET sel == Select(q, ByDistance(q, S), Capacity(lv))
         IN  sel \in Seq(Nodes) /\ ToSet(sel) \subseteq S /\ IsInjective(sel)
<1> DEFINE sel == Select(q, ByDistance(q, S), Capacity(lv))
<1>1. ByDistance(q, S) \in Seq(S) /\ Capacity(lv) \in Nat
  BY ByDistanceSeq, CapacityNat
<1>2. sel \in Seq(S) /\ IsInjective(sel)
  BY <1>1, SelectKeeps
<1> HIDE DEF sel
<1>3. sel \in Seq(Nodes) /\ ToSet(sel) \subseteq S
  BY <1>2, SeqMonotonic DEF ToSet
<1> QED BY <1>2, <1>3 DEF sel

(* One list is written, without its node and without a repetition. *)
LEMMA OneProperList ==
  ASSUME BuildInv, ProperNeighbours, UNCHANGED level, NEW a \in Nodes,
         NEW lv \in 0 .. level[a], NEW list,
         links' = [links EXCEPT ![a][lv] = list],
         a \notin ToSet(list), IsInjective(list)
  PROVE  ProperNeighbours'
<1>1. Written(a, lv, list)
  BY OneListIs
<1>2. \A b \in Nodes : \A k \in 0 .. level[b] :
        b \notin ToSet(links'[b][k]) /\ IsInjective(links'[b][k])
  BY <1>1 DEF ProperNeighbours, Written
<1> QED BY <1>2 DEF ProperNeighbours, Nodes

LEMMA WriteOwnMeets ==
  ASSUME BuildInv, MeetInv, NEW t \in Workers, WriteOwn(t) PROVE MeetInv'
<1> DEFINE s == w[t]
           sel == Select(s.i, ByDistance(s.i, s.res), Capacity(s.lv))
           ep == Nearest(s.i, s.res)
           r == [s EXCEPT !.pc = "link", !.sel = sel, !.ep = ep]
<1>1. /\ s.pc = "search" /\ w' = [w EXCEPT ![t] = r]
      /\ links' = [links EXCEPT ![s.i][s.lv] = sel]
      /\ UNCHANGED << level, entry, next >>
  BY DEF WriteOwn, Same
<1>2. /\ s \in WorkerState /\ s.lv \in Nat /\ s.i \in Nodes /\ s.lv \in 0 .. level[s.i]
      /\ s.vis \in SUBSET Nodes /\ s.vis \subseteq Reaching(s.lv)
      /\ s.res \subseteq s.vis /\ s.res # {} /\ s.res \in SUBSET Nodes
  BY <1>1, WorkerFacts DEF OnLayer, WorkerState
<1>3. /\ sel \in Seq(Nodes) /\ ToSet(sel) \subseteq s.res /\ IsInjective(sel)
      /\ ep \in s.res /\ ep \in Nodes
  <2>1. ep \in s.res
    BY <1>2, WorkerFacts, NearestIn
  <2> QED BY <1>2, <2>1, WorkerFacts, SelectedSet
<1> HIDE DEF sel, ep
<1>4. /\ r \in WorkerState /\ r.pc = "link" /\ r.i = s.i /\ r.last = s.last /\ r.lv = s.lv
      /\ r.ep = ep /\ r.sel = sel
  BY <1>2, <1>3 DEF WorkerState
<1>5. r = w'[t] /\ \A u \in Workers \ {t} : w'[u] = w[u]
  BY <1>1 DEF BuildInv, WorkersOK
<1> HIDE DEF r
<1>6. \A b \in Nodes : \A k \in 0 .. level[b] :
        links'[b][k] = IF b = s.i /\ k = s.lv THEN sel ELSE links[b][k]
  <2> HIDE DEF s
  <2>1. Written(s.i, s.lv, sel)
    BY <1>1, <1>2, OneListIs
  <2> QED BY <2>1 DEF Written
<1>7. /\ Under(s) = s.lv /\ Met(s) = s.vis /\ Under(r) = s.lv - 1 /\ Met(r) = {ep}
      /\ Pending(r) = ToSet(sel)
  BY <1>1, <1>4 DEF Under, Met, Pending
<1>8. Advances(t, s, r)
  <2> HIDE DEF s
  <2>1. MeetsNext(s, r)
    BY <1>2, <1>3, <1>4, <1>7 DEF MeetsNext
  <2>2. ASSUME NEW b \in Nodes, NEW k \in 0 .. level[b], NEW m \in ToSet(links'[b][k])
        PROVE  m \in ToSet(links[b][k]) \/ Links(s, r, b, k, m)
    <3>1. CASE b = s.i /\ k = s.lv
      <4>1. m \in Met(s)
        BY <1>2, <1>3, <1>6, <1>7, <3>1
      <4>2. Under(r) < k
        BY <1>2, <1>7, <3>1
      <4> QED BY <1>7, <3>1, <4>1, <4>2 DEF Links
    <3>2. CASE ~(b = s.i /\ k = s.lv)
      BY <1>6, <3>2
    <3> QED BY <3>1, <3>2
  <2> QED BY <1>1, <1>4, <1>5, <2>1, <2>2 DEF s, Advances, Working
<1>9. Owned' /\ ComingUnmet' /\ Separate' /\ \A u \in Workers \ {t} : NotYetLinked(w[u])'
  <2> HIDE DEF s
  <2> QED BY <1>1, <1>8, AdvanceRest, AdvanceSeparate DEF MeetInv
(* The node has not met itself, nor one that has it in its list. *)
<1>10. PICK D \in SUBSET Nodes : s.i \in D /\ D \cap s.vis = {} /\ LinksTogether(D, s.lv)
  BY <1>1, <1>7 DEF MeetInv, Separate, Apart, Splits, Working
<1>11. s.i \notin ToSet(sel)
  BY <1>2, <1>3, <1>10
<1>12. ASSUME NEW b \in ToSet(sel) PROVE s.i \notin ToSet(links'[b][s.lv])
  <2>1. b \in s.vis /\ b \in Nodes /\ s.lv \in 0 .. level[b]
    BY <1>2, <1>3, WorkerFacts DEF Reaching
  <2>2. links'[b][s.lv] = links[b][s.lv]
    BY <1>6, <1>11, <2>1
  <2> QED BY <1>2, <1>10, <2>1, <2>2 DEF LinksTogether, Together
<1>13. NotYetLinked(w[t])'
  <2>1. /\ IsInjective(r.sel) /\ r.i \notin ToSet(r.sel)
        /\ \A b \in ToSet(r.sel) : r.i \notin ToSet(links'[b][r.lv])
    BY <1>3, <1>4, <1>11, <1>12
  <2> QED BY <1>5, <2>1 DEF NotYetLinked
<1>14. ProperNeighbours'
  BY <1>1, <1>2, <1>3, <1>11, OneProperList DEF MeetInv
<1> QED BY <1>9, <1>13, <1>14 DEF MeetInv

LEMMA LinkBackMeets ==
  ASSUME BuildInv, MeetInv, NEW t \in Workers, LinkBack(t) PROVE MeetInv'
<1> DEFINE s == w[t]
           b == Head(s.sel)
           old == links[b][s.lv]
           new == Linked(old, b, s.i, s.lv)
           r == [s EXCEPT !.sel = Tail(s.sel)]
<1>1. s.pc = "link" /\ s.sel # << >> /\ UNCHANGED << level, entry, next >>
  BY DEF LinkBack, Same
<1>2. /\ s \in WorkerState /\ s.lv \in Nat /\ s.i \in Nodes
      /\ s.sel \in Seq(Reaching(s.lv)) /\ s.sel \in Seq(Nodes)
  BY <1>1, WorkerFacts DEF OnLayer, WorkerState
<1>3. /\ b \in Reaching(s.lv) /\ b \in Nodes /\ b \in ToSet(s.sel)
      /\ Tail(s.sel) \in Seq(Nodes) /\ ToSet(Tail(s.sel)) \subseteq ToSet(s.sel)
  <2>1. b \in Reaching(s.lv) /\ Tail(s.sel) \in Seq(Nodes)
    BY <1>1, <1>2, HeadTailProperties
  <2>2. b \in ToSet(s.sel) /\ ToSet(Tail(s.sel)) \subseteq ToSet(s.sel)
    BY <1>1, <1>2, HeadTail
  <2> QED BY <2>1, <2>2 DEF Reaching
<1>4. /\ IsInjective(s.sel) /\ s.i \notin ToSet(s.sel)
      /\ \A a \in ToSet(s.sel) : s.i \notin ToSet(links[a][s.lv])
  BY <1>1 DEF MeetInv, NotYetLinked
<1>5. IsInjective(Tail(s.sel)) /\ b \notin ToSet(Tail(s.sel))
  BY <1>1, <1>2, <1>4, HeadTail
<1>6. b # s.i /\ s.i \notin ToSet(old) /\ s.lv \in 0 .. level[b]
  BY <1>2, <1>3, <1>4, WorkerFacts DEF Reaching
<1>7. /\ old \in Seq(Nodes) /\ ToSet(old) \in SUBSET Nodes
      /\ IsInjective(old) /\ b \notin ToSet(old)
  BY <1>3, <1>6, ListNodes DEF MeetInv, ProperNeighbours
<1>8. ToSet(new) \subseteq ToSet(old) \cup {s.i} /\ IsInjective(new)
  <2>1. CASE Len(old) < Capacity(s.lv)
    <3>1. new = Append(old, s.i)
      BY <2>1 DEF Linked
    <3>2. IsInjective(Append(old, s.i))
      BY <1>2, <1>6, <1>7, NewAtEnd
    <3>3. ToSet(Append(old, s.i)) \subseteq ToSet(old) \cup {s.i}
      BY <1>2, <1>7, AppendedSet
    <3> QED BY <3>1, <3>2, <3>3
  <2>2. CASE ~(Len(old) < Capacity(s.lv))
    <3> DEFINE S == ToSet(old) \cup {s.i}
    <3>1. S \in SUBSET Nodes
      BY <1>2, <1>7
    <3>2. new = Select(b, ByDistance(b, S), Capacity(s.lv))
      BY <2>2 DEF Linked
    <3> HIDE DEF S, new
    <3>3. ToSet(new) \subseteq S /\ IsInjective(new)
      BY <1>3, <3>1, <3>2, WorkerFacts, SelectedSet
    <3> QED BY <3>3 DEF S
  <2> QED BY <2>1, <2>2
<1>9. links' = [links EXCEPT ![b][s.lv] = new]
  <2>1. /\ links = [i \in Nodes |-> links[i]]
        /\ links[b] = [lv \in 0 .. level[b] |-> links[b][lv]]
    BY <1>3 DEF BuildInv, LinksOK
  <2> QED BY <2>1 DEF LinkBack
<1>10. w' = [w EXCEPT ![t] = r]
  BY DEF LinkBack, BuildInv, WorkersOK
<1> HIDE DEF new
<1>11. \A a \in Nodes : \A k \in 0 .. level[a] :
         links'[a][k] = IF a = b /\ k = s.lv THEN new ELSE links[a][k]
  <2> HIDE DEF s, b
  <2>1. Written(b, s.lv, new)
    BY <1>3, <1>6, <1>9, OneListIs
  <2> QED BY <2>1 DEF Written
<1>12. /\ r \in WorkerState /\ r.pc = "link" /\ r.i = s.i /\ r.last = s.last /\ r.lv = s.lv
       /\ r.ep = s.ep /\ r.sel = Tail(s.sel)
  BY <1>1, <1>2, <1>3 DEF WorkerState
<1>13. r = w'[t] /\ \A u \in Workers \ {t} : w'[u] = w[u]
  BY <1>10 DEF BuildInv, WorkersOK
<1> HIDE DEF r
<1>14. /\ Under(s) = s.lv - 1 /\ Met(s) = {s.ep} /\ Pending(s) = ToSet(s.sel)
       /\ Under(r) = s.lv - 1 /\ Met(r) = {s.ep} /\ Pending(r) = ToSet(Tail(s.sel))
  BY <1>1, <1>12 DEF Under, Met, Pending
<1>15. Advances(t, s, r)
  <2> HIDE DEF s, b, old
  <2>1. MeetsNext(s, r)
    BY <1>3, <1>12, <1>14 DEF MeetsNext
  <2>2. ASSUME NEW a \in Nodes, NEW k \in 0 .. level[a], NEW m \in ToSet(links'[a][k])
        PROVE  m \in ToSet(links[a][k]) \/ Links(s, r, a, k, m)
    <3>1. CASE a = b /\ k = s.lv
      <4>1. m \in ToSet(links[a][k]) \/ m = s.i
        BY <1>8, <1>11, <3>1 DEF old
      <4>2. Under(r) < k /\ a \in Pending(s)
        BY <1>2, <1>3, <1>14, <3>1
      <4> QED BY <3>1, <4>1, <4>2 DEF Links
    <3>2. CASE ~(a = b /\ k = s.lv)
      BY <1>11, <3>2
    <3> QED BY <3>1, <3>2
  <2> QED BY <1>1, <1>12, <1>13, <2>1, <2>2 DEF s, Advances, Working
<1>16. Owned' /\ ComingUnmet' /\ Separate' /\ \A u \in Workers \ {t} : NotYetLinked(w[u])'
  <2> HIDE DEF s
  <2> QED BY <1>1, <1>15, AdvanceRest, AdvanceSeparate DEF MeetInv
<1>17. ASSUME NEW a \in ToSet(Tail(s.sel)) PROVE s.i \notin ToSet(links'[a][s.lv])
  <2>1. a \in ToSet(s.sel) /\ a # b
    BY <1>3, <1>5
  <2>2. a \in Nodes /\ s.lv \in 0 .. level[a]
    <3>1. a \in Reaching(s.lv)
      BY <1>2, <2>1 DEF ToSet
    <3> QED BY <1>2, <3>1, WorkerFacts DEF Reaching
  <2>3. links'[a][s.lv] = links[a][s.lv]
    BY <1>11, <2>1, <2>2
  <2> QED BY <1>4, <2>1, <2>3
<1>18. NotYetLinked(w[t])'
  <2>1. /\ IsInjective(r.sel) /\ r.i \notin ToSet(r.sel)
        /\ \A a \in ToSet(r.sel) : r.i \notin ToSet(links'[a][r.lv])
    BY <1>3, <1>4, <1>5, <1>12, <1>17
  <2> QED BY <1>13, <2>1 DEF NotYetLinked
<1>19. ProperNeighbours'
  <2>1. b \notin ToSet(new)
    BY <1>6, <1>7, <1>8
  <2> HIDE DEF b
  <2> QED BY <1>1, <1>3, <1>6, <1>8, <1>9, <2>1, OneProperList DEF MeetInv
<1> QED BY <1>16, <1>18, <1>19 DEF MeetInv

-----------------------------------------------------------------------------
(* A node is taken or an insertion ends: the worker has met nobody.        *)
LEMMA RestMeets ==
  ASSUME BuildInv, MeetInv, UNCHANGED << level, links >>, NEW t \in Workers,
         \A u \in Workers \ {t} : w'[u] = w[u],
         NEW r, r = w'[t], r.pc \in {"idle", "enter"},
         next' \in next .. N + 1,
         Holding(r) \subseteq Coming(w[t]) \cup (next .. next' - 1),
         entry' = entry \/ (w[t].pc \in Working /\ entry' = w[t].i)
  PROVE  MeetInv'
<1>1. Owned /\ ComingUnmet /\ Separate /\ ProperNeighbours
      /\ \A u \in Workers : NotYetLinked(w[u])
  BY DEF MeetInv
<1>2. /\ next \in 2 .. N + 1 /\ N \in Nat /\ next' \in Int
      /\ next' - 1 \in Int /\ Coming(w[t]) \subseteq Holding(w[t])
      /\ \A u \in Workers : Holding(w[u]) \subseteq 2 .. next - 1
      /\ \A u \in Workers \ {t} : Holding(w[t]) \cap Holding(w[u]) = {}
  <2>1. next \in 2 .. N + 1 /\ N \in Nat
    BY HnswAssumption DEF BuildInv, SharedOK
  <2> QED BY <1>1, <2>1, HoldingFacts
<1>3. Knows(r) = {} /\ (Coming(r) \subseteq Holding(r)) /\ r.pc \notin Working
  BY DEF Knows, Working, Coming
<1>4. Owned'
  <2>1. Holding(r) \subseteq 2 .. next' - 1
    BY <1>2
  <2>2. ASSUME NEW u \in Workers \ {t}
        PROVE  Holding(w[u]) \subseteq 2 .. next' - 1 /\ Holding(r) \cap Holding(w[u]) = {}
    <3>1. Holding(w[u]) \cap (next .. next' - 1) = {}
      BY <1>2
    <3> QED BY <1>2, <3>1
  <2>3. \A v \in Workers : Holding(w'[v]) \subseteq 2 .. next' - 1
    BY <2>1, <2>2
  <2>4. ASSUME NEW v \in Workers, NEW u \in Workers \ {v}
        PROVE  Holding(w'[v]) \cap Holding(w'[u]) = {}
    <3>1. CASE v = t
      BY <2>2, <3>1
    <3>2. CASE u = t
      BY <2>2, <3>2
    <3>3. CASE v # t /\ u # t
      BY <1>1, <3>3 DEF Owned
    <3> QED BY <3>1, <3>2, <3>3
  <2> QED BY <2>3, <2>4 DEF Owned, Holding
<1>5. ASSUME NEW a, a # entry', Unmet(a) PROVE Unmet(a)'
  <2>1. /\ \A lv \in 0 .. level[a] : ToSet(links[a][lv]) = {}
        /\ \A b \in Nodes : \A lv \in 0 .. level[b] : a \notin ToSet(links[b][lv])
        /\ \A u \in Workers : a \notin Knows(w[u])
    BY <1>5 DEF Unmet
  <2>2. \A u \in Workers : a \notin Knows(w'[u])
    BY <1>3, <2>1
  <2> QED BY <1>5, <2>1, <2>2 DEF Unmet, Knows, Met, Pending, Working, Nodes
<1>6. ASSUME NEW a, a \in next .. N \/ \E u \in Workers : a \in Coming(w[u])
      PROVE  Unmet(a)'
  <2>1. Unmet(a)
    BY <1>1, <1>6 DEF ComingUnmet
  <2>2. a # entry
    BY <2>1 DEF Unmet
  <2>3. w[t].pc \in Working => a # w[t].i
    BY <1>1, <1>6, ComingApart
  <2> QED BY <1>5, <2>1, <2>2, <2>3
<1>7. ComingUnmet'
  <2>1. \A a \in next' .. N : Unmet(a)'
    BY <1>2, <1>6
  <2>2. ASSUME NEW a \in Coming(r) PROVE Unmet(a)'
    <3>1. a \in Coming(w[t]) \/ a \in next .. N
      BY <1>2, <1>3
    <3> QED BY <1>6, <3>1
  <2>3. \A u \in Workers \ {t} : \A a \in Coming(w[u]) : Unmet(a)'
    BY <1>6
  <2>4. \A u \in Workers : \A a \in Coming(w'[u]) : Unmet(a)'
    BY <2>2, <2>3
  <2> QED BY <2>1, <2>4 DEF ComingUnmet, Coming, Holding
<1>8. ASSUME NEW u \in Workers \ {t}, w[u].pc \in Working
      PROVE  \E E \in SUBSET Nodes : Apart(u, E)'
  <2>1. PICK p \in Int : p = Under(w[u])
    BY WorkerFacts, PlaceFacts
  <2>2. PICK D \in SUBSET Nodes : Apart(u, D)
    BY <1>1, <1>8 DEF Separate
  <2>3. /\ w[u].i \in D /\ D \cap Met(w[u]) = {} /\ Splits(D, p, {u, t})
        /\ LinksTogether(D, p)
    BY <2>1, <2>2 DEF Apart, Splits
  <2>4. LinksTogether(D, p)'
    BY <2>3 DEF LinksTogether, Together, Nodes
  <2>5. Apart(u, D)'
    BY <1>3, <2>1, <2>3, <2>4, ApartStays
  <2> QED BY <2>5
<1>9. Separate'
  BY <1>3, <1>8 DEF Separate, Working
<1>10. \A u \in Workers : NotYetLinked(w[u])'
  <2>1. NotYetLinked(w[t])'
    BY DEF NotYetLinked
  <2> QED BY <1>1, <2>1 DEF NotYetLinked
<1>11. ProperNeighbours'
  BY <1>1 DEF ProperNeighbours, Nodes
<1> QED BY <1>4, <1>7, <1>9, <1>10, <1>11 DEF MeetInv

LEMMA TakeMeets ==
  ASSUME BuildInv, MeetInv, NEW t \in Workers, Take(t) PROVE MeetInv'
<1> DEFINE last == ChunkEnd
           r == [Idle EXCEPT !.pc = "enter", !.i = next, !.last = last]
<1>1. /\ next <= N /\ next' = last + 1 /\ w' = [w EXCEPT ![t] = r]
      /\ UNCHANGED << level, links, entry >>
  BY DEF Take, Taken, Same
<1>2. next \in 2 .. N /\ N \in Nat /\ Chunk \in Nat \ {0}
  BY <1>1, HnswAssumption DEF BuildInv, SharedOK
<1>3. last \in next .. N
  BY <1>2 DEF ChunkEnd
<1> HIDE DEF last
<1>4. r.pc = "enter" /\ r.i = next /\ r.last = last
  BY DEF Idle
<1> HIDE DEF r
<1>5. r = w'[t] /\ \A u \in Workers \ {t} : w'[u] = w[u]
  BY <1>1 DEF BuildInv, WorkersOK
<1>6. next' \in next .. N + 1 /\ Holding(r) \subseteq next .. next' - 1
  BY <1>1, <1>2, <1>3, <1>4 DEF Holding
<1> QED BY <1>1, <1>4, <1>5, <1>6, RestMeets

LEMMA FinishMeets ==
  ASSUME BuildInv, MeetInv, NEW t \in Workers, Finish(t) PROVE MeetInv'
<1> DEFINE s == w[t]
           r == InsertedOf(s)
<1>1. /\ s.pc = "link" /\ w' = [w EXCEPT ![t] = r]
      /\ UNCHANGED << level, links, next >>
      /\ entry' = entry \/ entry' = s.i
  BY DEF Finish, Same
<1>2. s.i \in Nat /\ s.last \in Nat
  BY WorkerFacts DEF WorkerState, Nodes
<1>3. r.pc \in {"idle", "enter"} /\ Holding(r) \subseteq Coming(s)
  <2>1. CASE s.i < s.last
    <3> HIDE DEF s
    <3>1. r.pc = "enter" /\ r.i = s.i + 1 /\ r.last = s.last
      BY <2>1 DEF InsertedOf, Idle
    <3>2. Coming(s) = s.i + 1 .. s.last
      BY <1>1 DEF Coming
    <3> QED BY <1>2, <2>1, <3>1, <3>2 DEF Holding
  <2>2. CASE ~(s.i < s.last)
    <3>1. r.pc = "idle"
      BY <2>2 DEF InsertedOf, Idle
    <3> QED BY <3>1 DEF Holding
  <2> QED BY <2>1, <2>2
<1>4. next \in Int /\ next \in next .. N + 1 /\ s.pc \in Working
  BY <1>1, HnswAssumption DEF BuildInv, SharedOK, Working
<1> HIDE DEF r
<1>5. r = w'[t] /\ \A u \in Workers \ {t} : w'[u] = w[u]
  BY <1>1 DEF BuildInv, WorkersOK
<1> QED BY <1>1, <1>3, <1>4, <1>5, RestMeets

(* A node that nobody knows meets the entry point.                         *)
LEMMA EnterMeets ==
  ASSUME BuildInv, MeetInv, NEW t \in Workers, Enter(t) PROVE MeetInv'
<1> DEFINE s == w[t]
           h == [s EXCEPT !.hold = level[s.i] > maxlevel]
           r == Below(h, entry, maxlevel)
           i == s.i
<1>1. s.pc = "enter" /\ UNCHANGED << level, links, entry, next >>
  BY DEF Enter, Same
<1>2. w' = [w EXCEPT ![t] = r]
  BY DEF Enter, BuildInv, WorkersOK
<1>3. /\ h \in WorkerState /\ h.i = i /\ h.last = s.last
      /\ h.cand \subseteq h.vis /\ h.res \subseteq h.vis
  <2>1. s \in WorkerState /\ s.cand \subseteq s.vis /\ s.res \subseteq s.vis
    BY WorkerFacts DEF OnLayer
  <2> DEFINE hold == level[s.i] > maxlevel
  <2>2. hold \in BOOLEAN
    OBVIOUS
  <2> HIDE DEF hold, s
  <2>3. h = [s EXCEPT !.hold = hold]
    BY DEF hold
  <2> HIDE DEF h
  <2> QED BY <2>1, <2>2, <2>3 DEF WorkerState
<1> HIDE DEF h
<1>4. /\ r \in WorkerState /\ r.pc \in {"descend", "search"} /\ r.i = i
      /\ r.last = s.last /\ r.lv = maxlevel /\ r.ep = entry
      /\ r.pc = "search" => r.vis = {entry}
  BY <1>3, WorkerFacts, BelowOK
<1> HIDE DEF r
<1>5. /\ Under(r) = maxlevel /\ Met(r) = {entry} /\ Pending(r) = {}
      /\ Knows(r) = {i, entry} /\ r.pc \in Working
  BY <1>4 DEF Under, Met, Pending, Knows, Working
<1>6. r = w'[t] /\ \A u \in Workers \ {t} : w'[u] = w[u]
  BY <1>2 DEF BuildInv, WorkersOK
<1>7. Owned /\ ComingUnmet /\ Separate /\ ProperNeighbours
      /\ \A u \in Workers : NotYetLinked(w[u])
  BY DEF MeetInv
<1>8. /\ i \in Nodes /\ entry \in Nodes /\ s.i \in Nat /\ s.last \in Nat /\ maxlevel \in Int
      /\ Unmet(i)
  <2>1. i \in Nodes /\ entry \in Nodes /\ maxlevel \in Int /\ s.last \in Nodes
    BY WorkerFacts DEF Reaching, WorkerState
  <2>2. i \in Coming(s)
    BY <1>1 DEF Coming, Holding
  <2> QED BY <1>7, <2>1, <2>2 DEF ComingUnmet, Nodes
<1>9. /\ i # entry
      /\ \A lv \in 0 .. level[i] : ToSet(links[i][lv]) = {}
      /\ \A b \in Nodes : \A lv \in 0 .. level[b] : i \notin ToSet(links[b][lv])
      /\ \A u \in Workers : i \notin Knows(w[u])
  BY <1>8 DEF Unmet
(* The node is apart from all the others. *)
<1>10. ASSUME NEW p PROVE Splits({i}, p, {t}) /\ LinksTogether({i}, p)
  <2>1. LinksTogether({i}, p)
    BY <1>9 DEF LinksTogether, Together
  <2>2. \A u \in Workers : w[u].pc \in Working => WorkerTogether(w[u], {i}, p)
    BY <1>9 DEF WorkerTogether, Together, Knows
  <2> QED BY <2>1, <2>2 DEF Splits
<1>11. \A u \in Workers \ {t} : Holding(w'[u]) = Holding(w[u]) /\ Coming(w'[u]) = Coming(w[u])
  BY <1>6
<1>12. /\ Holding(r) = Holding(s) /\ Coming(r) \subseteq Coming(s)
       /\ i \notin Coming(r)
  BY <1>1, <1>4, <1>8 DEF Holding, Coming
<1>13. Owned'
  <2>1. \A u \in Workers : Holding(w'[u]) = Holding(w[u])
    BY <1>6, <1>11, <1>12
  <2> QED BY <1>1, <1>7, <2>1 DEF Owned, Holding
<1>14. ASSUME NEW a, a # i, Unmet(a) PROVE Unmet(a)'
  <2>1. /\ a # entry
        /\ \A lv \in 0 .. level[a] : ToSet(links[a][lv]) = {}
        /\ \A b \in Nodes : \A lv \in 0 .. level[b] : a \notin ToSet(links[b][lv])
        /\ \A u \in Workers : a \notin Knows(w[u])
    BY <1>14 DEF Unmet
  <2>2. \A u \in Workers : a \notin Knows(w'[u])
    BY <1>5, <1>6, <1>14, <2>1
  <2> QED BY <1>1, <2>1, <2>2 DEF Unmet, Knows, Met, Pending, Working, Nodes
<1>15. ComingUnmet'
  <2>1. i \in Holding(s)
    BY <1>1 DEF Holding
  <2>2. \A a \in next .. N : a # i
    BY <1>7, <2>1, HoldingFacts
  <2>3. ASSUME NEW u \in Workers \ {t} PROVE \A a \in Coming(w[u]) : a # i
    <3>1. Coming(w[u]) \subseteq Holding(w[u]) /\ Holding(w[t]) \cap Holding(w[u]) = {}
      BY <1>7, HoldingFacts
    <3> QED BY <2>1, <3>1
  <2>4. \A a \in next' .. N : Unmet(a)'
    BY <1>1, <1>7, <1>14, <2>2 DEF ComingUnmet
  <2>5. \A u \in Workers \ {t} : \A a \in Coming(w'[u]) : Unmet(a)'
    BY <1>7, <1>11, <1>14, <2>3 DEF ComingUnmet
  <2>6. \A a \in Coming(w'[t]) : Unmet(a)'
    BY <1>6, <1>7, <1>12, <1>14 DEF ComingUnmet
  <2>7. \A u \in Workers : \A a \in Coming(w'[u]) : Unmet(a)'
    BY <2>5, <2>6
  <2> QED BY <2>4, <2>7 DEF ComingUnmet, Coming, Holding
<1>16. ASSUME NEW E \in SUBSET Nodes, NEW p, LinksTogether(E, p)
       PROVE  LinksTogether(E, p)'
  BY <1>1, <1>16 DEF LinksTogether, Together, Nodes
<1>17. \E E \in SUBSET Nodes : Apart(t, E)'
  <2> DEFINE E == {i}
  <2>1. PICK p : p = maxlevel
    OBVIOUS
  <2>2. E \in SUBSET Nodes /\ Splits(E, p, {t}) /\ LinksTogether(E, p)
    BY <1>8, <1>10
  <2>3. i \in E /\ E \cap {entry} = {}
    BY <1>9
  <2>4. PICK D \in SUBSET Nodes :
          i \in D /\ D \cap {entry} = {} /\ Splits(D, p, {t}) /\ LinksTogether(D, p)
    BY <2>2, <2>3
  <2>5. LinksTogether(D, p)'
    BY <1>16, <2>4
  <2>6. \A u \in Workers \ {t} : w'[u].pc \in Working => WorkerTogether(w'[u], D, p)
    BY <1>6, <2>4 DEF Splits
  <2>7. w'[t].i \in D /\ D \cap Met(w'[t]) = {} /\ Under(w'[t]) = p
    BY <1>4, <1>5, <1>6, <2>1, <2>4
  <2>8. Apart(t, D)'
    BY <2>5, <2>6, <2>7
       DEF Apart, Splits, LinksTogether, WorkerTogether, Together, Under, Met, Pending,
           Working, Nodes
  <2> QED BY <2>8
<1>18. ASSUME NEW u \in Workers \ {t}, w[u].pc \in Working
       PROVE  \E E \in SUBSET Nodes : Apart(u, E)'
  <2>1. PICK p \in Int : p = Under(w[u])
    BY WorkerFacts, PlaceFacts
  <2>2. PICK D \in SUBSET Nodes : Apart(u, D)
    BY <1>7, <1>18 DEF Separate
  <2>3. PICK E \in SUBSET Nodes :
          /\ w[u].i \in E /\ E \cap Met(w[u]) = {}
          /\ Splits(E, p, {u, t}) /\ Together(E, i, {entry})
    <3> DEFINE C == {i}
    <3>1. C \in SUBSET Nodes /\ Splits(C, p, {t}) /\ i \in C /\ entry \in Nodes \ C
      BY <1>8, <1>9, <1>10
    <3> HIDE DEF C, i
    <3> QED BY <1>18, <2>1, <2>2, <3>1, Arrive
  <2>4. WorkerTogether(r, E, p)
    BY <1>4, <1>5, <2>3 DEF WorkerTogether, Together
  <2>5. LinksTogether(E, p)'
    BY <1>16, <2>3 DEF Splits
  <2>6. Apart(u, E)'
    BY <1>1, <1>6, <2>1, <2>3, <2>4, <2>5, ApartStays
  <2> QED BY <2>6
<1>19. Separate'
  BY <1>6, <1>17, <1>18 DEF Separate, Working
<1>20. \A u \in Workers : NotYetLinked(w[u])'
  <2>1. NotYetLinked(w[t])'
    BY <1>4, <1>6 DEF NotYetLinked
  <2> QED BY <1>1, <1>6, <1>7, <2>1 DEF NotYetLinked
<1>21. ProperNeighbours'
  BY <1>1, <1>7 DEF ProperNeighbours, Nodes
<1> QED BY <1>13, <1>15, <1>19, <1>20, <1>21 DEF MeetInv

-----------------------------------------------------------------------------
LEMMA InitMeets == Init => MeetInv
<1> SUFFICES ASSUME Init PROVE MeetInv
  OBVIOUS
<1>1. /\ entry = 1 /\ next = 2 /\ level \in [1 .. N -> Nat]
      /\ \A t \in Workers : w[t] = Idle /\ w[t].pc = "idle"
      /\ \A a \in Nodes : \A lv \in 0 .. level[a] : links[a][lv] = << >>
  BY HnswAssumption DEF Init, Idle
<1>2. /\ \A a \in Nodes : \A lv \in 0 .. level[a] :
           ToSet(links[a][lv]) = {} /\ IsInjective(links[a][lv])
      /\ ProperNeighbours
  BY <1>1 DEF ToSet, IsInjective, ProperNeighbours
<1>3. \A t \in Workers : Holding(w[t]) = {} /\ Coming(w[t]) = {} /\ Knows(w[t]) = {}
  BY <1>1 DEF Holding, Coming, Knows, Working
<1>4. Owned /\ Separate /\ \A t \in Workers : NotYetLinked(w[t])
  BY <1>1, <1>3 DEF Owned, Separate, NotYetLinked, Working
<1>5. ComingUnmet
  <2>1. \A a \in next .. N : a \in Nodes /\ a # entry
    BY <1>1, HnswAssumption DEF Nodes
  <2> QED BY <1>2, <1>3, <2>1 DEF ComingUnmet, Unmet
<1> QED BY <1>2, <1>4, <1>5 DEF MeetInv

LEMMA StepMeets == BuildInv /\ MeetInv /\ [Next]_vars => MeetInv'
<1> SUFFICES ASSUME BuildInv, MeetInv, [Next]_vars PROVE MeetInv'
  OBVIOUS
<1>1. ASSUME NEW t \in Workers, Step(t) PROVE MeetInv'
  BY <1>1, TakeMeets, EnterMeets, DescendMeets, ExpandMeets, WriteOwnMeets, LinkBackMeets,
     NextLayerMeets, FinishMeets DEF Step
<1>2. CASE UNCHANGED vars
  <2>1. UNCHANGED << level, links, entry, next, w >>
    BY <1>2 DEF vars
  <2>2. Owned'
    BY <2>1 DEF MeetInv, Owned, Holding
  <2>3. ComingUnmet'
    <3>1. \A a : Unmet(a) => Unmet(a)'
      BY <2>1 DEF Unmet, Knows, Met, Pending, Working, Nodes
    <3>2. \A t \in Workers : Coming(w'[t]) = Coming(w[t])
      BY <2>1
    <3>3. /\ \A a \in next' .. N : Unmet(a)'
          /\ \A t \in Workers : \A a \in Coming(w'[t]) : Unmet(a)'
      BY <2>1, <3>1, <3>2 DEF MeetInv, ComingUnmet
    <3> QED BY <3>3 DEF ComingUnmet, Coming, Holding
  <2>4. Separate'
    BY <2>1 DEF MeetInv, Separate, Apart, Splits, LinksTogether, WorkerTogether, Together,
                Under, Met, Pending, Working, Nodes
  <2>5. ProperNeighbours' /\ \A t \in Workers : NotYetLinked(w[t])'
    BY <2>1 DEF MeetInv, ProperNeighbours, NotYetLinked, Nodes
  <2> QED BY <2>2, <2>3, <2>4, <2>5 DEF MeetInv
<1> QED BY <1>1, <1>2 DEF Next, Joined

(* However the insertions overlap, no list names its own node, and none    *)
(* names a node twice: no worker meets one that it is being linked from.   *)
THEOREM HnswProperNeighbours == Spec => []ProperNeighbours
<1>1. MeetInv => ProperNeighbours
  BY DEF MeetInv
<1> QED BY <1>1, InitMeets, StepMeets, BuildInvHolds, PTL DEF Spec
=============================================================================
