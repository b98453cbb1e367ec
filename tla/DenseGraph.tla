----------------------------- MODULE DenseGraph -----------------------------
(***************************************************************************)
(* The graph layout of dense_ann (co-located codes, inline vectors): what  *)
(* build, insert, delete, finalize and search do to the shadow tables t    *)
(* and to the memory mem of the connection.                                *)
(***************************************************************************)
EXTENDS DenseFile

CONSTANTS
  M0,        \* neighbours in a node row
  Ef, EfC,   \* beam widths of a search and of an insert
  NEntry     \* nodes of the entry set

ASSUME GraphAssumption == {M0, Ef, EfC, NEntry} \subseteq Nat \ {0}

Larger(a, b) == IF a < b THEN b ELSE a

\* cand_insert: sorted, bounded; an equal distance goes after.
CandInsert(L, ef, c) ==
  IF Len(L) = ef /\ c.d >= L[ef].d THEN L
  ELSE LET keep == IF Len(L) = ef THEN Front(L) ELSE L
       IN InsertAt(keep, 1 + Cardinality({i \in DOMAIN keep : keep[i].d <= c.d}), c)

\* One reference, from the entry set or from a node row, scored by its code.
Visit(s, q, ef, ref) ==
  IF ref.id \in s.vis THEN s
  ELSE [s EXCEPT !.vis = @ \cup {ref.id},
                 !.L = CandInsert(@, ef, [d |-> Dist(q, ref.code), id |-> ref.id,
                                          page |-> ref.page, done |-> FALSE, row |-> {}])]

VisitAll(s, q, ef, refs) ==
  LET seen[n \in 0 .. Len(refs)] ==
        IF n = 0 THEN s ELSE Visit(seen[n - 1], q, ef, refs[n])
  IN seen[Len(refs)]

(***************************************************************************)
(* ann_core: each round fetches the rows of the (up to) W closest          *)
(* candidates not expanded yet, then visits their neighbours.  A missing   *)
(* row is expanded to nothing.                                             *)
(***************************************************************************)
Batch(s, W) ==
  LET todo == {i \in DOMAIN s.L : ~s.L[i].done}
  IN {i \in todo : Place(todo, i) < W}

Fetched(s, batch, L) ==
  [s EXCEPT !.L = L, !.exp = @ \cup {L[i] : i \in {j \in batch : L[j].row # {}}}]

Fetch(t, W, raw, s) ==
  LET batch == Batch(s, W)
      Row(c) == {t[u][c.id] : u \in Source(t, "nodes", c.id, c.page, raw)}
      Done(c) == [c EXCEPT !.done = TRUE, !.row = Row(c)]
  IN Fetched(s, batch, [i \in DOMAIN s.L |-> IF i \in batch THEN Done(s.L[i]) ELSE s.L[i]])

Nbrs(c) == IF c.row = {} THEN << >> ELSE (CHOOSE n \in c.row : TRUE).nbrs

VisitRows(s, q, ef, batch, L) ==
  LET seen[n \in 0 .. Len(L)] ==
        IF n = 0 THEN s
        ELSE IF n \in batch THEN VisitAll(seen[n - 1], q, ef, Nbrs(L[n]))
        ELSE seen[n - 1]
  IN seen[Len(L)]

Expand(t, q, ef, W, raw, s) ==
  LET fetched == Fetch(t, W, raw, s)
  IN VisitRows(fetched, q, ef, Batch(s, W), fetched.L)

AnnCore(t, mem, q, ef, W, raw) ==
  LET round[n \in 0 .. MaxNodes] ==
        IF n = 0 THEN VisitAll([L |-> << >>, vis |-> {}, exp |-> {}], q, ef, mem.head)
        ELSE Expand(t, q, ef, W, raw, round[n - 1])
  IN round[MaxNodes]

\* ann_search with its default rerank: every live node that was expanded,
\* with the distance of its stored vector.
AnnSearch(t, mem, q, raw) ==
  {[row |-> n.row, d |-> Dist(q, n.vec)] :
     n \in {m \in UNION {c.row : c \in AnnCore(t, mem, q, Ef, 2, raw).exp} : ~m.dead}}

\* dnhnsw_select with alpha = 1, over candidates in order of distance.
KeepIf(out, c) ==
  IF Len(out) < M0 /\ \A i \in DOMAIN out : Dist(c.code, out[i].code) > c.d
  THEN Append(out, c) ELSE out

SelectNbrs(cands) ==
  LET kept[n \in 0 .. Len(cands)] ==
        IF n = 0 THEN << >> ELSE KeepIf(kept[n - 1], cands[n])
  IN kept[Len(cands)]

Ref(id, page, v) == [id |-> id, page |-> page, code |-> CodeOf[v]]
AsRef(c) == [id |-> c.id, page |-> c.page, code |-> c.code]
Refs(seq) == [i \in DOMAIN seq |-> AsRef(seq[i])]
Coded(seq) == [i \in DOMAIN seq |-> Ref(seq[i].id, seq[i].page, seq[i].code)]

\* Candidates around a coordinate, nearest first.
Around(x, refs) ==
  LET d(i) == Dist(x, refs[i].code)
      Nearer(j, i) == d(j) < d(i) \/ (d(j) = d(i) /\ j < i)
      rank(i) == Cardinality({j \in DOMAIN refs : Nearer(j, i)})
      At(n) == CHOOSE i \in DOMAIN refs : rank(i) = n - 1
  IN [n \in DOMAIN refs |-> [id |-> refs[At(n)].id, page |-> refs[At(n)].page,
                             code |-> refs[At(n)].code, d |-> d(At(n))]]

(***************************************************************************)
(* do_build: the buffer's pages are freed and used again; nodes numbered   *)
(* by rowid and linked on their vectors (HnswBuild has the builder; here   *)
(* each list is the selection from all the others); the entry set holds    *)
(* the highest levels, which may be any nodes; no hints yet.               *)
(***************************************************************************)
BuildGraph(t, rows, entries) ==
  LET ids  == DOMAIN rows
      n    == Cardinality(ids)
      all  == [i \in 1 .. n |-> [id |-> i - 1, page |-> 0, code |-> rows[Nth(ids, i - 1)]]]
      Linked(i) == SelectNbrs(Around(all[i].code, Sub(all, DOMAIN all \ {i})))
      node == [i \in 0 .. n - 1 |->
                 [row |-> Nth(ids, i), dead |-> FALSE, vec |-> rows[Nth(ids, i)],
                  nbrs |-> Coded(Linked(i + 1))]]
      laid == Lay([t EXCEPT !.buffer = << >>, !.top = 0], "nodes", node)
  IN [laid EXCEPT !.rowids = [r \in ids |-> Place(ids, r)],
                  !.head = Coded(Sub(all, {i \in DOMAIN all : i - 1 \in entries}))]

\* Mutant: a full row takes the link in place of its last one, with its hint.
LinkBackOver(node, ref) ==
  IF Len(node.nbrs) < M0 THEN [node EXCEPT !.nbrs = Append(@, ref)]
  ELSE [node EXCEPT !.nbrs[M0] = [@ EXCEPT !.id = ref.id, !.code = ref.code]]

\* A back-link in the row of a neighbour: appended, or all cut back to M0.
LinkBack(node, ref) ==
  IF Len(node.nbrs) < M0 THEN [node EXCEPT !.nbrs = Append(@, ref)]
  ELSE [node EXCEPT !.nbrs = Refs(SelectNbrs(Around(CodeOf[node.vec], Append(@, ref))))]

(***************************************************************************)
(* insert_built, all but the counter: the live rows that the search has    *)
(* expanded, by their own codes; of those the neighbours; the new row, and *)
(* the rows it links to.                                                   *)
(***************************************************************************)
Live(L) == Sub(L, {i \in DOMAIN L : \E n \in L[i].row : ~n.dead})

AtOwnCode(live) ==
  LET Own(c) == CodeOf[(CHOOSE n \in c.row : TRUE).vec]
  IN [i \in DOMAIN live |->
        [id |-> live[i].id, page |-> live[i].page, d |-> live[i].d, code |-> Own(live[i])]]

NewNbrs(t, mem, v) ==
  SelectNbrs(AtOwnCode(Live(AnnCore(t, mem, v, Larger(EfC, M0), 4, FALSE).L)))

LinkedNode(t, id, r, v, sel) ==
  LET new   == [row |-> r, dead |-> FALSE, vec |-> v, nbrs |-> Refs(sel)]
      added == InsertRow(t, "nodes", id, new)
      back  == {sel[i].id : i \in DOMAIN sel}
      Back(i) == LinkBack(added.nodes[i], Ref(id, 0, v))
  IN [added EXCEPT !.rowids = Put(@, r, id),
                   !.nodes = [i \in DOMAIN @ |-> IF i \in back THEN Back(i) ELSE @[i]]]

InsertNode(t, mem, r, v) == LinkedNode(t, mem.next, r, v, NewNbrs(t, mem, v))

\* Mutant: only the rowid map forgets the row.
DeleteNodeUnflagged(t, r) == [t EXCEPT !.rowids = Restrict(@, DOMAIN @ \ {r})]

\* delete_row: the node stays and routes.
DeleteNode(t, r) ==
  [t EXCEPT !.nodes[t.rowids[r]].dead = TRUE,
            !.rowids = Restrict(@, DOMAIN @ \ {r})]

\* do_finalize: the page next to every reference, in rows and in the head.
Hinted(t, n, refs) ==
  [i \in DOMAIN refs |->
     [refs[i] EXCEPT !.page = IF refs[i].id < n THEN PageOf(t, "nodes", refs[i].id) ELSE 0]]

FinalizeGraph(t, mem) ==
  [t EXCEPT !.nodes = [i \in DOMAIN t.nodes |->
                         IF i < mem.next
                         THEN [t.nodes[i] EXCEPT !.nbrs = Hinted(t, mem.next, @)]
                         ELSE t.nodes[i]],
            !.head = Hinted(t, mem.next, mem.head)]

VecOfNode(t, r) == t.nodes[t.rowids[r]].vec
=============================================================================
