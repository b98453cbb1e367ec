------------------------------- MODULE HnswBuild -------------------------------
(***************************************************************************)
(* Concurrent construction of the HNSW graph (ext/dense/hnsw.c).  Workers  *)
(* take nodes off a shared counter and insert them: a greedy descent       *)
(* through the upper layers, then per layer a beam search, the node's own  *)
(* list, and a link back from each neighbour selected.  Every critical     *)
(* section of a node lock is one step (no section holds a second node      *)
(* lock); the global lock is held across a whole insertion and is a        *)
(* variable.  Vectors are points on a line.                                *)
(***************************************************************************)
EXTENDS Integers, Sequences, SequencesExt, FiniteSets

CONSTANTS
  Workers,    \* the threads of dn_parallel_for
  First,      \* the thread that inserts the first nodes
  N,          \* Hnsw.n
  M, M0,      \* list capacities: upper layers, layer 0
  Efc,        \* beam width of the build
  Serial,     \* nodes inserted before the workers start (2000)
  Chunk,      \* nodes a worker takes off the counter at a time (16)
  Points,     \* the inputs: sequences of coordinates
  Levels      \* the level assignments, sequences too

NoWorker == "none"

ASSUME HnswAssumption ==
  /\ First \in Workers /\ NoWorker \notin Workers
  /\ {N, M, M0, Efc, Chunk} \subseteq Nat \ {0} /\ Serial \in 1 .. N
  /\ Points \subseteq [1 .. N -> Nat]
  /\ Levels \subseteq [1 .. N -> Nat]

Nodes == 1 .. N        \* node 1 is the initial entry point

VARIABLES
  x, level,         \* Hnsw.x, Hnsw.level
  links,            \* links[i][lv]: the neighbour list of i on layer lv
  entry, maxlevel,  \* Hnsw.entry, Hnsw.maxlevel
  global,           \* who holds the global lock
  next,             \* the shared counter
  w                 \* the insertion each worker is in

vars == << x, level, links, entry, maxlevel, global, next, w >>

Dist(a, b) == IF x[a] <= x[b] THEN x[b] - x[a] ELSE x[a] - x[b]
Capacity(lv) == IF lv = 0 THEN M0 ELSE M

Nearer(q, a, b) == Dist(a, q) < Dist(b, q) \/ (Dist(a, q) = Dist(b, q) /\ a < b)
Nearest(q, S)  == CHOOSE a \in S : \A b \in S \ {a} : Nearer(q, a, b)
Farthest(q, S) == CHOOSE a \in S : \A b \in S \ {a} : Nearer(q, b, a)

(* The nodes of S in the order of their distance to q. *)
Rank(q, S, a) == Cardinality({b \in S : Nearer(q, b, a)})
ByDistance(q, S) ==
  [k \in 1 .. Cardinality(S) |-> CHOOSE a \in S : Rank(q, S, a) = k - 1]

(***************************************************************************)
(* dnhnsw_select with alpha = 1: a candidate is dropped if one already     *)
(* kept is at most as far from it as the base point q.                     *)
(***************************************************************************)
SelectAll(q, candidates, cap) == candidates  \* mutant: the cap is forgotten

KeepIf(q, cap) ==
  [p \in Seq(Nodes) \X Nodes |->
     LET out == p[1]
         c   == p[2]
     IN  IF Len(out) < cap /\ \A j \in DOMAIN out : Dist(c, out[j]) > Dist(c, q)
         THEN Append(out, c) ELSE out]

Select(q, candidates, cap) ==
  LET kept[n \in 0 .. Len(candidates)] ==
        IF n = 0 THEN << >> ELSE KeepIf(q, cap)[<< kept[n - 1], candidates[n] >>]
  IN  kept[Len(candidates)]

Idle == [pc |-> "idle", i |-> 1, last |-> 1, lv |-> 0, ep |-> 1, hold |-> FALSE,
         vis |-> {}, cand |-> {}, res |-> {}, sel |-> << >>]

Init ==
  /\ x \in Points /\ level \in Levels
  /\ links = [i \in Nodes |-> [lv \in 0 .. level[i] |-> << >>]]
  /\ entry = 1 /\ maxlevel = level[1]
  /\ global = NoWorker
  /\ next = 2
  /\ w = [t \in Workers |-> Idle]

Same == UNCHANGED << x, level >>

(***************************************************************************)
(* dn_par_worker: the first nodes go to one thread, and the others start   *)
(* when it is done with them.                                              *)
(***************************************************************************)
ChunkEnd == IF next <= Serial THEN next
            ELSE IF next + Chunk - 1 < N THEN next + Chunk - 1 ELSE N

Taken(t, last) ==
  /\ w[t].pc = "idle"
  /\ next <= Serial => t = First
  /\ next = Serial + 1 => w[First].pc = "idle"
  /\ w' = [w EXCEPT ![t] = [Idle EXCEPT !.pc = "enter", !.i = next, !.last = last]]
  /\ UNCHANGED << links, entry, maxlevel, global >> /\ Same

TakeTwice(t) ==    \* mutant: the counter is not added to atomically
  /\ next <= N /\ Taken(t, ChunkEnd)
  /\ next' \in IF next > Serial THEN {next, ChunkEnd + 1} ELSE {ChunkEnd + 1}

TakePastEnd(t) ==  \* mutant: the counter is tested with > for >=
  /\ next <= N + 1 /\ Taken(t, next)
  /\ next' = next + 1

Take(t) == /\ next <= N /\ Taken(t, ChunkEnd)
           /\ next' = ChunkEnd + 1

(* search_layer, from ep. *)
Searching(s, ep, lv) ==
  [s EXCEPT !.pc = "search", !.lv = lv, !.ep = ep,
            !.vis = {ep}, !.cand = {ep}, !.res = {ep}, !.sel = << >>]

(* The next layer down: still above the node's own layers, or a search. *)
Below(s, ep, lv) ==
  IF lv > level[s.i] THEN [s EXCEPT !.pc = "descend", !.lv = lv, !.ep = ep]
                     ELSE Searching(s, ep, lv)

(***************************************************************************)
(* insert_node.  The entry point and its layer are read together; a node   *)
(* that will become the entry point keeps the lock.                        *)
(***************************************************************************)
EnterUnlocked(t) ==  \* mutant: the lock is not kept
  LET hold == level[w[t].i] > maxlevel
  IN  /\ w[t].pc = "enter" /\ global = NoWorker
      /\ w' = [w EXCEPT ![t] = Below([@ EXCEPT !.hold = hold], entry, maxlevel)]
      /\ UNCHANGED << links, entry, maxlevel, global, next >> /\ Same

Enter(t) ==
  LET hold == level[w[t].i] > maxlevel
  IN  /\ w[t].pc = "enter" /\ global = NoWorker
      /\ global' = IF hold THEN t ELSE NoWorker
      /\ w' = [w EXCEPT ![t] = Below([@ EXCEPT !.hold = hold], entry, maxlevel)]
      /\ UNCHANGED << links, entry, maxlevel, next >> /\ Same

(* One round of the greedy descent: the best of ep and its neighbours. *)
DescendForever(t) ==  \* mutant: an equal distance counts as nearer
  LET s    == w[t]
      best == Nearest(s.i, {s.ep} \cup ToSet(links[s.ep][s.lv]))
  IN  /\ s.pc = "descend"
      /\ w' = [w EXCEPT ![t] = IF Dist(best, s.i) <= Dist(s.ep, s.i)
                               THEN [s EXCEPT !.ep = best]
                               ELSE Below(s, s.ep, s.lv - 1)]
      /\ UNCHANGED << links, entry, maxlevel, global, next >> /\ Same

Descend(t) ==
  LET s    == w[t]
      best == Nearest(s.i, {s.ep} \cup ToSet(links[s.ep][s.lv]))
  IN  /\ s.pc = "descend"
      /\ w' = [w EXCEPT ![t] = IF Dist(best, s.i) < Dist(s.ep, s.i)
                               THEN [s EXCEPT !.ep = best]
                               ELSE Below(s, s.ep, s.lv - 1)]
      /\ UNCHANGED << links, entry, maxlevel, global, next >> /\ Same

(* A neighbour met by the beam search for node q. *)
Visit(q, s, b) ==
  IF b \in s.vis THEN s
  ELSE IF Cardinality(s.res) < Efc \/ Dist(b, q) < Dist(Farthest(q, s.res), q)
  THEN LET grown == s.res \cup {b}
       IN  [s EXCEPT !.vis = @ \cup {b}, !.cand = @ \cup {b},
                     !.res = IF Cardinality(grown) > Efc
                             THEN grown \ {Farthest(q, grown)} ELSE grown]
  ELSE [s EXCEPT !.vis = @ \cup {b}]

VisitAll(q, s, list) ==
  LET after[n \in 0 .. Len(list)] ==
        IF n = 0 THEN s ELSE Visit(q, after[n - 1], list[n])
  IN  after[Len(list)]

SearchOver(s) ==
  \/ s.cand = {}
  \/ /\ s.cand # {}
     /\ Cardinality(s.res) >= Efc
     /\ Dist(Nearest(s.i, s.cand), s.i) > Dist(Farthest(s.i, s.res), s.i)

Expand(t) ==
  LET s == w[t]
      c == Nearest(s.i, s.cand)
  IN  /\ s.pc = "search" /\ ~SearchOver(s)
      /\ w' = [w EXCEPT ![t] = VisitAll(s.i, [s EXCEPT !.cand = @ \ {c}], links[c][s.lv])]
      /\ UNCHANGED << links, entry, maxlevel, global, next >> /\ Same

(* The node's own list is written over. *)
WriteOwn(t) ==
  LET s   == w[t]
      sel == Select(s.i, ByDistance(s.i, s.res), Capacity(s.lv))
  IN  /\ s.pc = "search" /\ SearchOver(s)
      /\ links' = [links EXCEPT ![s.i][s.lv] = sel]
      /\ w' = [w EXCEPT ![t] = [s EXCEPT !.pc = "link", !.sel = sel,
                                         !.ep = Nearest(s.i, s.res)]]
      /\ UNCHANGED << entry, maxlevel, global, next >> /\ Same

(* link_back: i joins the list of s, which is pruned if it is full.  (A     *)
(* node listed twice is dropped by Select, at no distance from itself.)    *)

LinkedAlways(list, s, i, lv) == Append(list, i)  \* mutant: never pruned

Linked(list, s, i, lv) ==
  IF Len(list) < Capacity(lv) THEN Append(list, i)
  ELSE Select(s, ByDistance(s, ToSet(list) \cup {i}), Capacity(lv))

LinkBack(t) ==
  LET s == w[t]
      b == Head(s.sel)
  IN  /\ s.pc = "link" /\ s.sel # << >>
      /\ links' = [links EXCEPT ![b][s.lv] = Linked(@, b, s.i, s.lv)]
      /\ w' = [w EXCEPT ![t].sel = Tail(@)]
      /\ UNCHANGED << entry, maxlevel, global, next >> /\ Same

(* A node that is on the layer below goes on there. *)
NextLayer(t) ==
  LET s == w[t]
  IN  /\ s.pc = "link" /\ s.sel = << >> /\ s.lv > 0
      /\ w' = [w EXCEPT ![t] = Searching(s, s.ep, s.lv - 1)]
      /\ UNCHANGED << links, entry, maxlevel, global, next >> /\ Same

(* A new entry point is published under the lock held since Enter; the     *)
(* worker goes on with its chunk.                                          *)
InsertedOf(s) == IF s.i < s.last
                 THEN [Idle EXCEPT !.pc = "enter", !.i = s.i + 1, !.last = s.last]
                 ELSE Idle

FinishLayerOnly(t) ==  \* mutant: the layer is published, the entry point is not
  LET s == w[t]
  IN  /\ s.pc = "link" /\ s.sel = << >> /\ s.lv = 0
      /\ maxlevel' = IF s.hold THEN level[s.i] ELSE maxlevel
      /\ global' = IF s.hold THEN NoWorker ELSE global
      /\ w' = [w EXCEPT ![t] = InsertedOf(s)]
      /\ UNCHANGED << links, entry, next >> /\ Same

FinishLocked(t) ==     \* mutant: the lock is never given back
  LET s == w[t]
  IN  /\ s.pc = "link" /\ s.sel = << >> /\ s.lv = 0
      /\ IF s.hold THEN entry' = s.i /\ maxlevel' = level[s.i]
                   ELSE UNCHANGED << entry, maxlevel >>
      /\ w' = [w EXCEPT ![t] = InsertedOf(s)]
      /\ UNCHANGED << links, global, next >> /\ Same

Finish(t) ==
  LET s == w[t]
  IN  /\ s.pc = "link" /\ s.sel = << >> /\ s.lv = 0
      /\ IF s.hold
         THEN entry' = s.i /\ maxlevel' = level[s.i] /\ global' = NoWorker
         ELSE UNCHANGED << entry, maxlevel, global >>
      /\ w' = [w EXCEPT ![t] = InsertedOf(s)]
      /\ UNCHANGED << links, next >> /\ Same

Step(t) == \/ Take(t) \/ Enter(t) \/ Descend(t) \/ Expand(t)
           \/ WriteOwn(t) \/ LinkBack(t) \/ NextLayer(t) \/ Finish(t)

Built == next > N /\ \A t \in Workers : w[t].pc = "idle"

Joined == Built /\ UNCHANGED vars

Next == (\E t \in Workers : Step(t)) \/ Joined

(* dn_parallel_for joins threads that the system keeps running. *)
Spec == Init /\ [][Next]_vars /\ \A t \in Workers : WF_vars(Step(t))

-----------------------------------------------------------------------------
(* The worker's place is on a layer its entry node and itself have lists   *)
(* for; the counters are in range.                                         *)
TypeOK ==
  /\ x \in Points /\ level \in Levels
  /\ entry \in Nodes /\ maxlevel \in Nat
  /\ global \in Workers \cup {NoWorker}
  /\ next \in 2 .. N + 1
  /\ \A i \in Nodes : /\ DOMAIN links[i] = 0 .. level[i]
                      /\ \A lv \in 0 .. level[i] : links[i][lv] \in Seq(Nodes)
  /\ \A t \in Workers :
       /\ w[t].pc \in {"idle", "enter", "descend", "search", "link"}
       /\ w[t].i \in Nodes /\ w[t].last \in Nodes /\ w[t].ep \in Nodes /\ w[t].lv \in Nat
       /\ w[t].hold \in BOOLEAN
       /\ w[t].cand \subseteq w[t].vis /\ w[t].res \subseteq w[t].vis
       /\ w[t].vis \subseteq Nodes /\ w[t].sel \in Seq(Nodes)

(* "at most M links on upper layers and M0 on layer 0", in lists whose     *)
(* memory ends there, whoever links into them at the same time.            *)
ListsFit ==
  \A i \in Nodes : \A lv \in 0 .. level[i] : Len(links[i][lv]) <= Capacity(lv)

(***************************************************************************)
(* A list exists for each layer it is read on: the node a worker starts a  *)
(* layer from, and every node named on that layer, reaches up to it (h->up *)
(* has level[i] lists; reading past them is reading past the allocation).  *)
(***************************************************************************)
LayersExist ==
  /\ level[entry] = maxlevel
  /\ \A i \in Nodes : \A lv \in 0 .. level[i] :
       \A b \in ToSet(links[i][lv]) : level[b] >= lv
  /\ \A t \in Workers :
       /\ w[t].pc \in {"descend", "search"} => level[w[t].ep] >= w[t].lv
       /\ w[t].pc = "search" => \A c \in w[t].cand : level[c] >= w[t].lv

(* The entry point only ever moves to a higher layer. *)
EntryClimbs == [][entry' # entry => level[entry'] > level[entry]]_vars

(* Every insertion ends, whoever waits for the global lock. *)
BuildEnds == <>Built

(* "Build the graph over all n vectors": when it is built, every node is   *)
(* reached from the entry point along the links of layer 0.                *)
Reached ==
  LET Grow(S) == S \cup UNION {ToSet(links[i][0]) : i \in S}
  IN  FoldLeft(LAMBDA S, k : Grow(S), {entry}, [k \in 1 .. N |-> k])
AllReached == Built => Reached = Nodes

(***************************************************************************)
(* "the edge base->r->c covers it": r stands in for a candidate that was   *)
(* dropped, so r is never the base point itself, and no place of a list is *)
(* spent on a neighbour it has already.  A worker meets neither itself nor *)
(* a node that meets it on the same layer, however the insertions overlap. *)
(***************************************************************************)
ProperNeighbours ==
  \A i \in Nodes : \A lv \in 0 .. level[i] :
    /\ i \notin ToSet(links[i][lv])
    /\ IsInjective(links[i][lv])
=============================================================================
