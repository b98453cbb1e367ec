--------------------------- MODULE DenseTableProofs ---------------------------
(***************************************************************************)
(* Theorems about DenseTable: ids are never given out twice, the links of  *)
(* the tables are whole, their hints right and the results of a search     *)
(* rows of the table, for any number of rows, whatever statements,         *)
(* transactions, failures and crashes came before; a search reads the same *)
(* off hinted pages as by SQL; and the table is a table of SQL.            *)
(***************************************************************************)
EXTENDS DenseFileProofs

-----------------------------------------------------------------------------
(***************************************************************************)
(* The inductive invariant.                                                *)
(***************************************************************************)

(* What is known of each of the two files the connection may see: what a   *)
(* new connection would rely on, and what this one relies on, which counts *)
(* head as its entry set or directory.                                     *)
FileGood(lay, t, m, head, mv) ==
  /\ Shape(t)
  /\ t.state.built =>
       /\ Good(lay, t, t.state.next, t.head, t.state.hints, mv)
       /\ m.built /\ t.state.hints = m.hints /\ t.state.next <= m.next
  /\ m.built =>
       /\ Good(lay, t, m.next, head, m.hints, mv)
       /\ t.state.built \/ NoRows(t)

HeadNow(t, m) == IF m.loaded THEN m.head ELSE t.head

(* Before the build: no rows yet, or those that a build started by a query *)
(* has written, also one the process left.                                 *)
Bare(t) == t.nodes = << >> /\ t.lists = << >>

NotBuilt(lay, d, w, x, mv, a) ==
  /\ a.pc \in {"idle", "fallback"} =>
       /\ Bare(w) <=> Bare(d)
       /\ Bare(w) => NoRows(w)
       /\ Bare(d) => NoRows(d)
  /\ a.pc \in {"train", "state"} =>
       /\ Buffer(a.rows) /\ DOMAIN a.rows # {}
       /\ NoRows(d) \/ (a.pc = "state" /\ ~x)
  /\ a.pc = "train" => NoRows(w)
  /\ a.pc = "state" =>
       /\ ~Bare(w)
       /\ \A no \in BOOLEAN : ~no => Good(lay, w, Cardinality(DOMAIN a.rows), w.head, no, mv)

MemType(m) ==
  /\ m = [built |-> m.built, next |-> m.next, hints |-> m.hints,
          loaded |-> m.loaded, head |-> m.head]
  /\ m.built \in BOOLEAN /\ m.next \in Nat /\ m.hints \in BOOLEAN /\ m.loaded \in BOOLEAN

AutoType(a) ==
  a = [pc |-> a.pc, rows |-> a.rows] /\ a.pc \in {"idle", "train", "state", "fallback"}

TableGood(lay, d, w, x, m, mv, a) ==
  /\ lay \in {"graph", "ivf"} /\ x \in BOOLEAN /\ mv \in BOOLEAN
  /\ MemType(m) /\ AutoType(a)
  /\ FileGood(lay, w, m, HeadNow(w, m), mv) /\ FileGood(lay, d, m, HeadNow(w, m), mv)
  /\ ~x => d = w
  /\ m.built => a.pc = "idle"
  /\ m.built /\ ~m.loaded => w.head = d.head
  /\ ~m.built => NotBuilt(lay, d, w, x, mv, a)

TableInv == TableGood(layout, disk, work, tx, mem, moved, auto)

-----------------------------------------------------------------------------
(***************************************************************************)
(* Files whose tables are the same, or empty, or that know a later id.     *)
(***************************************************************************)
SameTables(z, t) ==
  /\ z.nodes = t.nodes /\ z.rowids = t.rowids /\ z.vectors = t.vectors
  /\ z.lists = t.lists /\ z.pages = t.pages

LEMMA RowsSame == ASSUME NEW z, NEW t, SameTables(z, t) PROVE RowsOf(z) = RowsOf(t)
BY DEF RowsOf, GraphView, IvfView, VecOfNode, VecOfSlot, SameTables

LEMMA GoodSame ==
  ASSUME NEW lay, NEW t, NEW z, SameTables(z, t), NEW next, NEW head, NEW hints, NEW mv,
         Good(lay, t, next, head, hints, mv)
  PROVE  Good(lay, z, next, head, hints, mv)
<1>1. \A tab, id, page : tab \in {"nodes", "vectors"} =>
        (HintOK(z, tab, id, page, hints, mv) <=> HintOK(t, tab, id, page, hints, mv))
  BY DEF SameTables, HintOK, PageOf
<1>2. GoodRefs(z, hints, mv) = GoodRefs(t, hints, mv)
  BY <1>1 DEF GoodRefs
<1>3. CASE lay = "ivf"
  <2>1. IvfBase(t, next, hints, mv) /\ IvfHead(t, next, head)
    BY <1>3 DEF Good
  <2>2. IvfWhole(z)
    <3>1. /\ z.lists = t.lists /\ z.vectors = t.vectors /\ z.rowids = t.rowids
          /\ \A x : Ent(z, x) = Ent(t, x)
      BY DEF SameTables, Ent
    <3>2. IvfWhole(t)
      BY <2>1 DEF IvfBase
    <3>3. SameEntries(z, t) /\ SameFunction(z.vectors, t.vectors)
      BY <3>1 DEF SameEntries, SameFunction
    <3>4. /\ \A x \in Entries(t) : ~Ent(t, x).dead =>
               /\ Ent(t, x).row \in DOMAIN t.rowids
               /\ t.rowids[Ent(t, x).row] = [list |-> ListOfKey(x[1]), slot |-> SlotOf(t, x)]
          /\ \A r \in DOMAIN t.rowids : \E x \in Entries(t) : Ent(t, x).row = r /\ ~Ent(t, x).dead
      BY <3>2 DEF IvfWhole, Ent
    <3>5. /\ \A x \in Entries(t) : Ent(z, x).code = Ent(t, x).code
          /\ \A x \in Entries(t) : ~Ent(z, x).dead =>
               /\ Ent(z, x).row \in DOMAIN z.rowids
               /\ z.rowids[Ent(z, x).row] = [list |-> ListOfKey(x[1]), slot |-> SlotOf(t, x)]
          /\ \A r \in DOMAIN z.rowids : \E x \in Entries(t) : Ent(z, x).row = r /\ ~Ent(z, x).dead
      BY <3>1, <3>4
    <3> QED BY <3>2, <3>3, <3>5, WholeWithSameEntries
  <2>3. IvfBase(z, next, hints, mv)
    BY <1>1, <2>1, <2>2 DEF IvfBase, SameTables
  <2>4. IvfHead(z, next, head)
    BY <2>1 DEF IvfHead, SameTables
  <2> QED BY <1>3, <2>3, <2>4 DEF Good
<1>4. CASE lay # "ivf"
  <2>1. GraphBase(t, next, hints, mv) /\ head \in Seq(GoodRefs(t, hints, mv))
    BY <1>4 DEF Good
  <2>2. GraphWhole(z)
    BY <2>1 DEF GraphBase, GraphWhole, RefRight, SameTables
  <2>3. GraphBase(z, next, hints, mv)
    BY <1>2, <2>1, <2>2 DEF GraphBase, SameTables
  <2> QED BY <1>2, <1>4, <2>1, <2>3 DEF Good
<1> QED BY <1>3, <1>4

LEMMA GoodLater ==
  ASSUME NEW lay, NEW t, NEW next \in Nat, NEW later \in Nat, next <= later,
         NEW head, NEW hints, NEW mv, Good(lay, t, next, head, hints, mv)
  PROVE  Good(lay, t, later, head, hints, mv)
<1>1. CASE lay = "ivf"
  <2>1. IvfBase(t, next, hints, mv) /\ IvfHead(t, next, head)
    BY <1>1 DEF Good
  <2>2. \A s \in DOMAIN t.vectors : s \in Nat /\ s < later /\ t.vectors[s] \in Vecs
    BY <2>1 DEF IvfBase
  <2>3. IvfBase(t, later, hints, mv)
    BY <2>1, <2>2 DEF IvfBase
  <2>4. IvfHead(t, later, head)
    BY <2>1, HeadLater
  <2> QED BY <1>1, <2>3, <2>4 DEF Good
<1>2. CASE lay # "ivf"
  <2>1. GraphBase(t, next, hints, mv) /\ head \in Seq(GoodRefs(t, hints, mv))
    BY <1>2 DEF Good
  <2>2. \A i \in DOMAIN t.nodes :
           /\ i \in Nat /\ i < later
           /\ t.nodes[i] \in NodeType /\ t.nodes[i].nbrs \in Seq(GoodRefs(t, hints, mv))
    BY <2>1 DEF GraphBase
  <2>3. \A i \in DOMAIN t.pages.nodes : i \in Nat /\ i < later /\ t.pages.nodes[i] \in Nat
    BY <2>1 DEF GraphBase
  <2>4. GraphBase(t, later, hints, mv)
    BY <2>1, <2>2, <2>3 DEF GraphBase
  <2> QED BY <1>2, <2>1, <2>4 DEF Good
<1> QED BY <1>1, <1>2

(* An empty file goes with any entry set or directory without hints.       *)
LEMMA GoodEmpty ==
  ASSUME NEW lay, NEW t, NEW z, NoRows(z), NEW next, NEW head, NEW hints \in BOOLEAN, ~hints, NEW mv,
         Good(lay, t, next, head, hints, mv)
  PROVE  Good(lay, z, next, head, hints, mv)
<1> DEFINE none == << >>
<1>1. /\ z.nodes = none /\ z.vectors = none /\ z.lists = none /\ z.rowids = none
      /\ z.pages = [nodes |-> none, vectors |-> none, lists |-> none] /\ DOMAIN none = {}
  BY DEF NoRows
<1> HIDE DEF none
<1>2. z.pages.nodes = none /\ z.pages.vectors = none
  BY <1>1
<1>3. CASE lay = "ivf"
  <2>1. IvfBase(t, next, hints, mv) /\ IvfHead(t, next, head)
    BY <1>3 DEF Good
  <2>2. \A x : x \notin Entries(z)
    BY <1>1, EntriesAre
  <2>3. IvfWhole(z)
    BY <1>1, <2>2 DEF IvfWhole
  <2>4. IvfBase(z, next, hints, mv)
    BY <1>1, <1>2, <2>3 DEF IvfBase, none
  <2>5. IvfHead(z, next, head)
    BY <1>1, <2>1 DEF IvfHead
  <2> QED BY <1>3, <2>4, <2>5 DEF Good
<1>4. CASE lay # "ivf"
  <2>1. head \in Seq(GoodRefs(t, hints, mv))
    BY <1>4 DEF Good
  <2>2. GoodRefs(t, hints, mv) \subseteq GoodRefs(z, hints, mv)
    BY NoHintsNoPages
  <2>3. head \in Seq(GoodRefs(z, hints, mv))
    BY <2>1, <2>2, SeqMonotonic
  <2>4. GraphWhole(z)
    BY <1>1 DEF GraphWhole
  <2>5. GraphBase(z, next, hints, mv)
    BY <1>1, <1>2, <2>4 DEF GraphBase, none
  <2> QED BY <1>4, <2>3, <2>5 DEF Good
<1> QED BY <1>3, <1>4

(* z is t with what m knows in its state.                                  *)
IsSaved(z, t, m) ==
  /\ Shape(z) /\ SameTables(z, t) /\ z.head = t.head /\ z.buffer = t.buffer
  /\ z.state.built = m.built /\ z.state.next = m.next /\ z.state.hints = m.hints

LEMMA SavedFacts ==
  ASSUME NEW t, Shape(t), NEW m, MemType(m)
  PROVE  IsSaved(Saved(t, m), t, m)
<1> DEFINE z == Saved(t, m)
           st == [built |-> m.built, next |-> m.next, hints |-> m.hints]
<1>1. z = [t EXCEPT !.state = st]
  BY DEF Saved
<1>2. /\ st \in [built : BOOLEAN, next : Nat, hints : BOOLEAN]
      /\ st.built = m.built /\ st.next = m.next /\ st.hints = m.hints
  BY DEF MemType
<1> HIDE DEF z, st
<1>3. z = [buffer |-> t.buffer, nodes |-> t.nodes, rowids |-> t.rowids,
           vectors |-> t.vectors, lists |-> t.lists, head |-> t.head, state |-> st,
           pages |-> t.pages, top |-> t.top]
  BY <1>1 DEF Shape
<1>4. /\ z.buffer = t.buffer /\ z.nodes = t.nodes /\ z.rowids = t.rowids /\ z.vectors = t.vectors
      /\ z.lists = t.lists /\ z.head = t.head /\ z.state = st /\ z.pages = t.pages /\ z.top = t.top
  BY <1>3
<1>5. Shape(z)
  BY <1>2, <1>3, <1>4 DEF Shape
<1> QED BY <1>2, <1>4, <1>5 DEF z, SameTables, IsSaved

LEMMA BufferFacts ==
  ASSUME NEW t, Shape(t), NEW b, Buffer(b)
  PROVE  LET z == [t EXCEPT !.buffer = b]
         IN  /\ Shape(z) /\ SameTables(z, t) /\ z.head = t.head /\ z.buffer = b /\ z.state = t.state
<1> DEFINE z == [t EXCEPT !.buffer = b]
<1>1. z = [buffer |-> b, nodes |-> t.nodes, rowids |-> t.rowids,
           vectors |-> t.vectors, lists |-> t.lists, head |-> t.head, state |-> t.state,
           pages |-> t.pages, top |-> t.top]
  BY DEF Shape
<1> HIDE DEF z
<1>2. /\ z.buffer = b /\ z.nodes = t.nodes /\ z.rowids = t.rowids /\ z.vectors = t.vectors
      /\ z.lists = t.lists /\ z.head = t.head /\ z.state = t.state /\ z.pages = t.pages /\ z.top = t.top
  BY <1>1
<1>3. Shape(z)
  BY <1>1, <1>2 DEF Shape
<1> QED BY <1>2, <1>3 DEF z, SameTables

LEMMA NoRowsSame ==
  ASSUME NEW t, NEW z, SameTables(z, t), z.head = t.head
  PROVE  (NoRows(z) <=> NoRows(t)) /\ (Bare(z) <=> Bare(t))
BY DEF NoRows, Bare, SameTables

(* A file that is not built yet, under a connection that knows it is not.  *)
LEMMA UnbuiltFile ==
  ASSUME NEW lay, NEW t, NEW m, NEW head, NEW mv, ~m.built
  PROVE  FileGood(lay, t, m, head, mv) <=> Shape(t) /\ ~t.state.built
BY DEF FileGood

-----------------------------------------------------------------------------
(***************************************************************************)
(* What one row added or removed does to the file and to the connection.   *)
(***************************************************************************)
(* The entry set stays; the directory counts one chunk more.               *)
Counted(lay, head, after) ==
  IF lay = "ivf" THEN \E L \in DOMAIN head : after = CountChunk(head, L) ELSE after = head

LEMMA GoodCounted ==
  ASSUME NEW lay, NEW t, NEW next \in Nat, NEW head, NEW after, Counted(lay, head, after),
         NEW hints, NEW mv, Good(lay, t, next, head, hints, mv)
  PROVE  Good(lay, t, next + 1, after, hints, mv)
<1>1. Good(lay, t, next + 1, head, hints, mv)
  BY GoodLater
<1>2. CASE lay = "ivf"
  <2>1. IvfBase(t, next, hints, mv) /\ IvfHead(t, next, head)
    BY <1>2 DEF Good
  <2>2. PICK L \in DOMAIN head : after = CountChunk(head, L)
    BY <1>2 DEF Counted
  <2>3. \A k \in DOMAIN t.lists : k \in Nat
    BY <2>1 DEF IvfBase
  <2>4. IvfHead(t, next + 1, after)
    BY <2>1, <2>2, <2>3, CountChunkFacts
  <2> QED BY <1>1, <1>2, <2>4 DEF Good
<1>3. CASE lay # "ivf"
  BY <1>1, <1>3 DEF Counted
<1> QED BY <1>2, <1>3

LEMMA FileCounted ==
  ASSUME NEW lay, NEW t, NEW m, MemType(m), m.built, NEW head, NEW mv, FileGood(lay, t, m, head, mv),
         NEW k, k.built, k.hints = m.hints, k.next = m.next + 1,
         NEW after, Counted(lay, head, after)
  PROVE  FileGood(lay, t, k, after, mv)
<1>1. m.next \in Nat
  BY DEF MemType
<1>2. Good(lay, t, m.next, head, m.hints, mv) /\ (t.state.built \/ NoRows(t)) /\ Shape(t)
  BY DEF FileGood
<1>3. Good(lay, t, k.next, after, k.hints, mv)
  <2>1. Good(lay, t, m.next + 1, after, m.hints, mv)
    BY <1>1, <1>2, GoodCounted
  <2> QED BY <2>1
<1>4. t.state.built => /\ Good(lay, t, t.state.next, t.head, t.state.hints, mv)
                       /\ t.state.hints = k.hints /\ t.state.next <= k.next
  <2>1. t.state.next \in Nat
    BY <1>2 DEF Shape
  <2> QED BY <1>1, <2>1 DEF FileGood
<1> QED BY <1>2, <1>3, <1>4 DEF FileGood

LEMMA FileKept ==
  ASSUME NEW lay, NEW t, NEW m, m.built, NEW head, NEW mv, FileGood(lay, t, m, head, mv),
         NEW k, k.built, k.hints = m.hints, k.next = m.next
  PROVE  FileGood(lay, t, k, head, mv)
BY DEF FileGood

(* The entry set or directory written in the file goes with the file as    *)
(* the connection counts it.                                               *)
LEMMA OwnHead ==
  ASSUME NEW lay, NEW t, NEW m, MemType(m), m.built, NEW head, NEW mv, FileGood(lay, t, m, head, mv),
         t.state.built \/ lay # "ivf"
  PROVE  Good(lay, t, m.next, t.head, m.hints, mv)
<1>1. CASE t.state.built
  <2>1. /\ Good(lay, t, t.state.next, t.head, m.hints, mv)
        /\ t.state.next <= m.next /\ t.state.next \in Nat /\ m.next \in Nat
    BY <1>1 DEF FileGood, Shape, MemType
  <2> QED BY <2>1, GoodLater
<1>2. CASE ~t.state.built
  <2>1. NoRows(t) /\ lay # "ivf" /\ Good(lay, t, m.next, head, m.hints, mv)
    BY <1>2 DEF FileGood
  <2>2. t.head \in Seq(GoodRefs(t, m.hints, mv))
    BY <2>1, EmptySeq DEF NoRows
  <2> QED BY <2>1, <2>2 DEF Good
<1> QED BY <1>1, <1>2

LEMMA AddedFacts ==
  ASSUME layout \in {"graph", "ivf"}, NEW w, NEW m, MemType(m), m.built, m.loaded,
         NEW mv \in BOOLEAN, FileGood(layout, w, m, m.head, mv),
         NEW r \in RowIds, r \notin DOMAIN w.rowids, NEW v \in Vecs, m.next < Limit
  PROVE  LET t == AddedFile(w, m, r, v)
             k == AddedMem(t, m)
         IN  /\ MemType(k) /\ k.built /\ k.loaded /\ k.hints = m.hints /\ k.next = m.next + 1
             /\ Counted(layout, m.head, k.head)
             /\ FileGood(layout, Saved(t, k), k, k.head, mv)
             /\ Shape(t) /\ RowsOf(Saved(t, k)) = Put(RowsOf(w), r, v)
<1> DEFINE t == AddedFile(w, m, r, v)
           k == AddedMem(t, m)
           z == Saved(t, k)
           next == m.next
           hints == m.hints
           after == IF layout = "ivf" THEN t.head ELSE m.head
<1>1. Shape(w) /\ Good(layout, w, next, m.head, hints, mv) /\ (w.state.built \/ NoRows(w))
  BY DEF FileGood
<1>2. next \in Nat /\ hints \in BOOLEAN
  BY DEF MemType
<1>3. k = [m EXCEPT !.next = next + 1, !.head = after]
  BY DEF AddedMem
<1>4. k = [built |-> m.built, next |-> next + 1, hints |-> m.hints, loaded |-> m.loaded, head |-> after]
  <2> HIDE DEF after, k, next
  <2> QED BY <1>3 DEF MemType
<1> HIDE DEF k
<1>5. /\ MemType(k) /\ k.built /\ k.loaded /\ k.hints = hints /\ k.next = next + 1 /\ k.head = after
  <2> HIDE DEF after
  <2>1. /\ k.built = m.built /\ k.next = m.next + 1 /\ k.hints = m.hints /\ k.loaded = m.loaded
        /\ k.head = after
    BY <1>4
  <2>2. m.next + 1 \in Nat /\ m.built \in BOOLEAN /\ m.hints \in BOOLEAN /\ m.loaded \in BOOLEAN
    BY <1>2 DEF MemType
  <2>3. MemType(k)
    BY <1>4, <2>1, <2>2 DEF MemType
  <2> QED BY <2>1, <2>3
<1>6. /\ Shape(t) /\ Counted(layout, m.head, after)
      /\ Good(layout, t, next + 1, t.head, hints, mv) /\ Good(layout, t, next + 1, after, hints, mv)
      /\ RowsOf(t) = Put(RowsOf(w), r, v)
  <2>1. CASE layout = "ivf"
    <3>1. t = InsertEntry(w, m, r, v) /\ next < MaxSlots
      BY <2>1 DEF AddedFile, Limit
    <3>2. IvfBase(w, next, hints, mv) /\ IvfHead(w, next, m.head)
      BY <1>1, <2>1 DEF Good
    <3> HIDE DEF next, hints, t
    <3>3. m.next = next
      BY DEF next
    <3> DEFINE L == ListFor(m.head, v)
    <3>4. /\ Shape(t) /\ L \in DOMAIN m.head /\ t.head = CountChunk(m.head, L)
          /\ IvfBase(t, next + 1, hints, mv) /\ IvfHead(t, next + 1, t.head)
          /\ IvfView(t) = Put(IvfView(w), r, v)
      BY <1>1, <1>2, <3>1, <3>2, <3>3, InsertEntryFacts
    <3>5. Counted(layout, m.head, after)
      BY <2>1, <3>4 DEF Counted
    <3> QED BY <2>1, <3>4, <3>5 DEF Good, RowsOf
  <2>2. CASE layout # "ivf"
    <3>1. t = InsertNode(w, m, r, v)
      BY <2>2 DEF AddedFile
    <3>2. GraphBase(w, next, hints, mv) /\ m.head \in Seq(GoodRefs(w, hints, mv))
      BY <1>1, <2>2 DEF Good
    <3>3. w.head \in Seq(GoodRefs(w, hints, mv))
      <4>1. Good(layout, w, next, w.head, hints, mv)
        BY <2>2, OwnHead
      <4> QED BY <2>2, <4>1 DEF Good
    <3> HIDE DEF next, hints, t
    <3>4. m.next = next
      BY DEF next
    <3>5. /\ Shape(t) /\ t.head = w.head /\ GraphBase(t, next + 1, hints, mv)
          /\ GoodRefs(w, hints, mv) \subseteq GoodRefs(t, hints, mv)
          /\ GraphView(t) = Put(GraphView(w), r, v)
      BY <1>1, <1>2, <3>1, <3>2, <3>4, InsertNodeFacts
    <3>6. m.head \in Seq(GoodRefs(t, hints, mv)) /\ t.head \in Seq(GoodRefs(t, hints, mv))
      BY <3>2, <3>3, <3>5, SeqMonotonic
    <3> QED BY <2>2, <3>5, <3>6 DEF Good, Counted, RowsOf
  <2> QED BY <2>1, <2>2
<1> HIDE DEF t, after
<1>7. /\ Shape(z) /\ SameTables(z, t) /\ z.head = t.head
      /\ z.state.built = k.built /\ z.state.next = k.next /\ z.state.hints = k.hints
  <2>1. IsSaved(z, t, k)
    BY <1>5, <1>6, SavedFacts
  <2> QED BY <2>1 DEF IsSaved
<1> HIDE DEF z
<1>8. Good(layout, z, k.next, z.head, k.hints, mv) /\ Good(layout, z, k.next, k.head, k.hints, mv)
  <2>1. Good(layout, z, next + 1, t.head, hints, mv)
    BY <1>6, <1>7, GoodSame
  <2>2. Good(layout, z, next + 1, after, hints, mv)
    BY <1>6, <1>7, GoodSame
  <2> QED BY <1>5, <1>7, <2>1, <2>2
<1>9. FileGood(layout, z, k, k.head, mv)
  <2>1. z.state.next <= k.next
    BY <1>2, <1>5, <1>7
  <2> QED BY <1>5, <1>7, <1>8, <2>1 DEF FileGood
<1>10. RowsOf(z) = Put(RowsOf(w), r, v)
  BY <1>6, <1>7, RowsSame
<1> QED BY <1>5, <1>6, <1>9, <1>10 DEF z, k, t, next, hints

LEMMA RowForgotten ==
  ASSUME NEW t, Shape(t), NEW r
  PROVE  /\ DOMAIN DeleteNode(t, r).rowids = DOMAIN t.rowids \ {r}
         /\ DOMAIN DeleteEntry(t, r).rowids = DOMAIN t.rowids \ {r}
<1> DEFINE R == Restrict(t.rowids, DOMAIN t.rowids \ {r})
<1>1. DOMAIN R = DOMAIN t.rowids \ {r}
  BY DEF Restrict
<1> HIDE DEF R
<1>2. \A N : [t EXCEPT !.nodes = N, !.rowids = R].rowids = R
  BY DEF Shape
<1>3. \A C : [t EXCEPT !.rowids = R, !.lists = C].rowids = R
  BY DEF Shape
<1>4. DeleteNode(t, r).rowids = R
  <2> DEFINE N == [t.nodes EXCEPT ![t.rowids[r]].dead = TRUE]
  <2>1. DeleteNode(t, r) = [t EXCEPT !.nodes = N, !.rowids = R]
    BY DEF DeleteNode, R
  <2> HIDE DEF N
  <2> QED BY <1>2, <2>1
<1>5. DeleteEntry(t, r).rowids = R
  <2>1. \E C : DeleteEntry(t, r) = [t EXCEPT !.rowids = R, !.lists = C]
    BY DEF DeleteEntry, R
  <2> QED BY <1>3, <2>1
<1> QED BY <1>1, <1>4, <1>5

LEMMA RemovedFacts ==
  ASSUME layout \in {"graph", "ivf"}, NEW w, NEW m, MemType(m), m.built,
         NEW mv \in BOOLEAN, NEW head, FileGood(layout, w, m, head, mv), NEW r
  PROVE  LET z == Removed(w, m, r)
         IN  /\ FileGood(layout, z, m, head, mv) /\ z.head = w.head
             /\ DOMAIN z.rowids = DOMAIN w.rowids \ {r}
             /\ RowsOf(z) = Less(RowsOf(w), r)
             /\ (w.state.built => z.state.built)
<1> DEFINE z == Removed(w, m, r)
           next == m.next
           hints == m.hints
           t == IF layout = "ivf" THEN DeleteEntry(w, r) ELSE DeleteNode(w, r)
<1>1. Shape(w) /\ Good(layout, w, next, head, hints, mv) /\ (w.state.built \/ NoRows(w))
  BY DEF FileGood
<1>2. next \in Nat /\ hints \in BOOLEAN
  BY DEF MemType
<1>3. CASE r \notin DOMAIN w.rowids
  <2>1. z = w
    BY <1>3 DEF Removed
  <2>2. RowsOf(w) = Less(RowsOf(w), r)
    BY <1>3 DEF RowsOf, GraphView, IvfView, Less
  <2> HIDE DEF z
  <2> QED BY <1>3, <2>1, <2>2 DEF z
<1>4. CASE r \in DOMAIN w.rowids
  <2>1. z = Saved(t, m)
    BY <1>4 DEF Removed
  <2>2. w.state.built
    <3> DEFINE none == << >>
    <3>1. DOMAIN none = {}
      OBVIOUS
    <3> HIDE DEF none
    <3>2. NoRows(w) => w.rowids = none
      BY DEF NoRows, none
    <3> QED BY <1>1, <1>4, <3>1, <3>2
  <2>3. Good(layout, w, next, w.head, hints, mv)
    BY <2>2, OwnHead
  <2>4. /\ Shape(t) /\ t.head = w.head
        /\ Good(layout, t, next, head, hints, mv) /\ Good(layout, t, next, w.head, hints, mv)
        /\ RowsOf(t) = Less(RowsOf(w), r)
    <3>1. CASE layout = "ivf"
      <4>1. t = DeleteEntry(w, r)
        BY <3>1
      <4>2. IvfBase(w, next, hints, mv) /\ IvfHead(w, next, head) /\ IvfHead(w, next, w.head)
        BY <1>1, <2>3, <3>1 DEF Good
      <4> HIDE DEF t, next, hints
      <4>3. /\ Shape(t) /\ t.head = w.head /\ DOMAIN t.lists = DOMAIN w.lists
            /\ IvfBase(t, next, hints, mv) /\ IvfView(t) = Less(IvfView(w), r)
        BY <1>1, <1>2, <1>4, <4>1, <4>2, DeleteEntryFacts
      <4>4. IvfHead(t, next, head) /\ IvfHead(t, next, w.head)
        BY <4>2, <4>3 DEF IvfHead
      <4> QED BY <3>1, <4>3, <4>4 DEF Good, RowsOf
    <3>2. CASE layout # "ivf"
      <4>1. t = DeleteNode(w, r)
        BY <3>2
      <4>2. /\ GraphBase(w, next, hints, mv)
            /\ head \in Seq(GoodRefs(w, hints, mv)) /\ w.head \in Seq(GoodRefs(w, hints, mv))
        BY <1>1, <2>3, <3>2 DEF Good
      <4> HIDE DEF t, next, hints
      <4>3. /\ Shape(t) /\ t.head = w.head /\ GraphBase(t, next, hints, mv)
            /\ GoodRefs(t, hints, mv) = GoodRefs(w, hints, mv)
            /\ GraphView(t) = Less(GraphView(w), r)
        BY <1>1, <1>2, <1>4, <4>1, <4>2, DeleteNodeFacts
      <4> QED BY <3>2, <4>2, <4>3 DEF Good, RowsOf
    <3> QED BY <3>1, <3>2
  <2>5. DOMAIN t.rowids = DOMAIN w.rowids \ {r}
    BY <1>1, RowForgotten
  <2> HIDE DEF t, z
  <2>6. /\ Shape(z) /\ SameTables(z, t) /\ z.head = t.head
        /\ z.state.built = m.built /\ z.state.next = m.next /\ z.state.hints = m.hints
    <3>1. IsSaved(z, t, m)
      BY <2>1, <2>4, SavedFacts
    <3> QED BY <3>1 DEF IsSaved
  <2>7. Good(layout, z, next, head, hints, mv) /\ Good(layout, z, next, z.head, hints, mv)
    BY <2>4, <2>6, GoodSame
  <2>8. FileGood(layout, z, m, head, mv)
    BY <1>2, <2>6, <2>7 DEF FileGood
  <2>9. z.head = w.head /\ DOMAIN z.rowids = DOMAIN w.rowids \ {r}
    BY <2>4, <2>5, <2>6 DEF SameTables
  <2>10. RowsOf(z) = Less(RowsOf(w), r)
    BY <2>4, <2>6, RowsSame
  <2> QED BY <2>6, <2>8, <2>9, <2>10 DEF z
<1> QED BY <1>3, <1>4

-----------------------------------------------------------------------------
(***************************************************************************)
(* The steps, by whether the connection knows the table as built.          *)
(***************************************************************************)
LEMMA BuiltStep ==
  ASSUME NEW lay, NEW d, NEW w, NEW x, NEW m, NEW mv, NEW a, TableGood(lay, d, w, x, m, mv, a),
         a.pc = "idle", NEW t, NEW k, MemType(k), k.built, FileGood(lay, t, k, HeadNow(t, k), mv),
         x => FileGood(lay, d, k, HeadNow(t, k), mv), x /\ ~k.loaded => t.head = d.head
  PROVE  TableGood(lay, IF x THEN d ELSE t, t, x, k, mv, a)
<1> DEFINE e == IF x THEN d ELSE t
<1>1. lay \in {"graph", "ivf"} /\ x \in BOOLEAN /\ mv \in BOOLEAN /\ AutoType(a)
  BY DEF TableGood
<1>2. FileGood(lay, e, k, HeadNow(t, k), mv)
  BY <1>1
<1>3. (~x => e = t) /\ (~k.loaded => t.head = e.head)
  BY <1>1
<1> HIDE DEF e
<1>4. TableGood(lay, e, t, x, k, mv, a)
  BY <1>1, <1>2, <1>3 DEF TableGood
<1> QED BY <1>4 DEF e

LEMMA UnbuiltStep ==
  ASSUME NEW lay, NEW d, NEW w, NEW x, NEW m, NEW mv, NEW a, TableGood(lay, d, w, x, m, mv, a),
         ~m.built, NEW t, Shape(t), ~t.state.built, NEW e, Shape(e), ~e.state.built,
         NEW y \in BOOLEAN, ~y => e = t, NEW b, AutoType(b), NotBuilt(lay, e, t, y, mv, b)
  PROVE  TableGood(lay, e, t, y, m, mv, b)
<1>1. lay \in {"graph", "ivf"} /\ mv \in BOOLEAN /\ MemType(m)
  BY DEF TableGood
<1>2. FileGood(lay, t, m, HeadNow(t, m), mv) /\ FileGood(lay, e, m, HeadNow(t, m), mv)
  BY UnbuiltFile
<1> QED BY <1>1, <1>2 DEF TableGood

(* What a table nobody has built looks like.                               *)
LEMMA UnbuiltFacts ==
  ASSUME NEW lay, NEW d, NEW w, NEW x, NEW m, NEW mv, NEW a, TableGood(lay, d, w, x, m, mv, a),
         ~m.built
  PROVE  /\ lay \in {"graph", "ivf"} /\ x \in BOOLEAN /\ mv \in BOOLEAN /\ MemType(m) /\ AutoType(a)
         /\ Shape(w) /\ ~w.state.built /\ Shape(d) /\ ~d.state.built
         /\ (~x => d = w) /\ NotBuilt(lay, d, w, x, mv, a)
<1>1. FileGood(lay, w, m, HeadNow(w, m), mv) /\ FileGood(lay, d, m, HeadNow(w, m), mv)
  BY DEF TableGood
<1>2. Shape(w) /\ ~w.state.built /\ Shape(d) /\ ~d.state.built
  BY <1>1, UnbuiltFile
<1> QED BY <1>2 DEF TableGood

LEMMA BuiltFacts ==
  ASSUME NEW lay, NEW d, NEW w, NEW x, NEW m, NEW mv, NEW a, TableGood(lay, d, w, x, m, mv, a),
         m.built
  PROVE  /\ lay \in {"graph", "ivf"} /\ x \in BOOLEAN /\ mv \in BOOLEAN /\ MemType(m) /\ AutoType(a)
         /\ FileGood(lay, w, m, HeadNow(w, m), mv) /\ FileGood(lay, d, m, HeadNow(w, m), mv)
         /\ (~x => d = w) /\ a.pc = "idle" /\ (~m.loaded => w.head = d.head)
BY DEF TableGood

-----------------------------------------------------------------------------
(***************************************************************************)
(* The build, in one step or in three.                                     *)
(***************************************************************************)
LEMMA BuildRowsFacts ==
  ASSUME layout \in {"graph", "ivf"}, NEW w, Shape(w), NoRows(w),
         NEW rows, Buffer(rows), DOMAIN rows # {}, NEW E, NEW mv \in BOOLEAN
  PROVE  LET t == BuildRows(w, rows, E)
         IN  /\ Shape(t) /\ t.state = w.state /\ ~Bare(t) /\ Cardinality(DOMAIN rows) \in Nat
             /\ \A no \in BOOLEAN : ~no => Good(layout, t, Cardinality(DOMAIN rows), t.head, no, mv)
             /\ RowsOf(t) = [r \in DOMAIN rows |-> rows[r]] /\ t.buffer \in {w.buffer, << >>}
<1> DEFINE t == BuildRows(w, rows, E)
           n == Cardinality(DOMAIN rows)
           none == << >>
           no == FALSE
<1>1. no \in BOOLEAN /\ ~no
  OBVIOUS
<1>2. DOMAIN none = {}
  OBVIOUS
<1> HIDE DEF none
<1>3. CASE layout = "ivf"
  <2>1. t = BuildIvf(w, rows)
    BY <1>3 DEF BuildRows
  <2> HIDE DEF t, n, no
  <2>2. ASSUME NEW h \in BOOLEAN
        PROVE  /\ Shape(t) /\ t.state = w.state /\ n \in Nat /\ DOMAIN t.rowids = DOMAIN rows
               /\ IvfBase(t, n, h, mv) /\ IvfHead(t, n, t.head)
               /\ IvfView(t) = [r \in DOMAIN rows |-> rows[r]] /\ t.buffer = w.buffer
    BY <2>1, <2>2, BuildIvfFacts DEF n
  <2>3. ~Bare(t)
    <3> SUFFICES ASSUME Bare(t) PROVE FALSE
      OBVIOUS
    <3>1. PICK r \in DOMAIN rows : TRUE
      OBVIOUS
    <3>2. \E y \in Entries(t) : TRUE
      <4>1. IvfWhole(t) /\ r \in DOMAIN t.rowids
        BY <1>1, <2>2 DEF IvfBase
      <4> QED BY <4>1 DEF IvfWhole
    <3>3. t.lists = none
      BY DEF Bare, none
    <3> QED BY <1>2, <3>2, <3>3, EntriesAre
  <2>4. /\ Shape(t) /\ t.state = w.state /\ n \in Nat
        /\ RowsOf(t) = [r \in DOMAIN rows |-> rows[r]] /\ t.buffer \in {w.buffer, << >>}
    BY <1>1, <1>3, <2>2 DEF RowsOf
  <2>5. \A h \in BOOLEAN : Good(layout, t, n, t.head, h, mv)
    BY <1>3, <2>2 DEF Good
  <2> QED BY <2>3, <2>4, <2>5 DEF t, n
<1>4. CASE layout # "ivf"
  <2>1. t = BuildGraph(w, rows, E)
    BY <1>4 DEF BuildRows
  <2> HIDE DEF t, n, no
  <2>2. ASSUME NEW h \in BOOLEAN
        PROVE  /\ Shape(t) /\ t.state = w.state /\ n \in Nat /\ DOMAIN t.nodes = 0 .. n - 1
               /\ GraphBase(t, n, h, mv) /\ t.head \in Seq(GoodRefs(t, h, mv))
               /\ GraphView(t) = [r \in DOMAIN rows |-> rows[r]] /\ t.buffer = << >>
    BY <2>1, <2>2, BuildGraphFacts DEF n
  <2>3. n # 0
    <3>1. IsFiniteSet(DOMAIN rows)
      BY RowsInLists
    <3> QED BY <3>1, FS_EmptySet DEF n
  <2>4. /\ Shape(t) /\ t.state = w.state /\ n \in Nat /\ DOMAIN t.nodes = 0 .. n - 1
        /\ RowsOf(t) = [r \in DOMAIN rows |-> rows[r]] /\ t.buffer \in {w.buffer, << >>}
    BY <1>1, <1>4, <2>2 DEF RowsOf
  <2>5. ~Bare(t)
    <3> SUFFICES ASSUME Bare(t) PROVE FALSE
      OBVIOUS
    <3>1. t.nodes = none
      BY DEF Bare, none
    <3>2. 0 \in 0 .. n - 1
      BY <2>3, <2>4
    <3> QED BY <1>2, <2>4, <3>1, <3>2
  <2>6. \A h \in BOOLEAN : Good(layout, t, n, t.head, h, mv)
    BY <1>4, <2>2 DEF Good
  <2> QED BY <2>4, <2>5, <2>6 DEF t, n
<1> QED BY <1>3, <1>4

LEMMA FinishedFacts ==
  ASSUME NEW lay, NEW t, Shape(t), NEW rows, Cardinality(DOMAIN rows) \in Nat, NEW mv,
         \A no \in BOOLEAN : ~no => Good(lay, t, Cardinality(DOMAIN rows), t.head, no, mv)
  PROVE  LET z == Finished(t, rows)
             k == BuiltState(t, rows)
         IN  /\ MemType(k) /\ k.built /\ k.loaded
             /\ FileGood(lay, z, k, HeadNow(z, k), mv)
             /\ RowsOf(z) = RowsOf(t) /\ z.state.built = k.built
             /\ \A d : Shape(d) /\ ~d.state.built /\ NoRows(d) => FileGood(lay, d, k, HeadNow(z, k), mv)
<1> DEFINE n == Cardinality(DOMAIN rows)
           b == [t EXCEPT !.buffer = << >>]
           k == BuiltState(t, rows)
           z == Finished(t, rows)
<1>1. k = [built |-> TRUE, next |-> n, hints |-> FALSE, loaded |-> TRUE, head |-> t.head]
  BY DEF BuiltState
<1>2. z = Saved(b, k)
  BY DEF Finished
<1>3. Buffer(<< >>)
  BY DEF Buffer
<1>4. Shape(b) /\ SameTables(b, t) /\ b.head = t.head
  BY <1>3, BufferFacts
<1> HIDE DEF n, b, k, z
<1>5. k.built /\ k.next = n /\ ~k.hints /\ k.loaded /\ k.head = t.head /\ k.hints \in BOOLEAN
  BY <1>1
<1>6. MemType(k)
  <2>1. n \in Nat
    BY DEF n
  <2> QED BY <1>1, <1>5, <2>1 DEF MemType
<1>7. IsSaved(z, b, k)
  BY <1>2, <1>4, <1>6, SavedFacts
<1>8. /\ Shape(z) /\ SameTables(z, t) /\ z.head = t.head
      /\ z.state.built /\ z.state.next = n /\ z.state.hints = k.hints
  BY <1>4, <1>5, <1>7 DEF IsSaved, SameTables
<1>9. Good(lay, t, n, t.head, k.hints, mv)
  BY <1>5 DEF n
<1>10. Good(lay, z, n, t.head, k.hints, mv)
  BY <1>8, <1>9, GoodSame
<1>11. HeadNow(z, k) = t.head
  BY <1>5 DEF HeadNow
<1>12. FileGood(lay, z, k, t.head, mv)
  <2>1. n \in Nat
    BY DEF n
  <2> QED BY <1>5, <1>8, <1>10, <2>1 DEF FileGood
<1>13. \A d : Shape(d) /\ ~d.state.built /\ NoRows(d) => FileGood(lay, d, k, t.head, mv)
  <2> SUFFICES ASSUME NEW d, Shape(d), ~d.state.built, NoRows(d)
               PROVE  FileGood(lay, d, k, t.head, mv)
    OBVIOUS
  <2>1. Good(lay, d, n, t.head, k.hints, mv)
    BY <1>5, <1>9, GoodEmpty
  <2> QED BY <1>5, <2>1 DEF FileGood
<1>14. RowsOf(z) = RowsOf(t)
  BY <1>8, RowsSame
<1>15. z.state.built = k.built
  BY <1>7 DEF IsSaved
<1> QED BY <1>5, <1>6, <1>11, <1>12, <1>13, <1>14, <1>15 DEF z, k

LEMMA BuildStep == TableInv /\ Build => TableInv'
<1> SUFFICES ASSUME TableInv, Build PROVE TableInv'
  OBVIOUS
<1> DEFINE rows == work.buffer
<1>1. /\ ~mem.built /\ DOMAIN rows # {} /\ Bare(work)
      /\ Idle /\ UNCHANGED << moved, auto, layout, tx >>
      /\ \E E \in EntrySets(rows) :
           /\ work' = Finished(BuildRows(work, rows, E), rows)
           /\ mem' = BuiltState(BuildRows(work, rows, E), rows)
           /\ disk' = IF tx THEN disk ELSE work'
  BY DEF Build, Buildable, Statement, Effect, Bare
<1>2. /\ layout \in {"graph", "ivf"} /\ tx \in BOOLEAN /\ moved \in BOOLEAN
      /\ Shape(work) /\ ~work.state.built /\ Shape(disk) /\ ~disk.state.built
      /\ NotBuilt(layout, disk, work, tx, moved, auto)
  BY <1>1, UnbuiltFacts DEF TableInv
<1>3. auto.pc = "idle" /\ NoRows(work) /\ NoRows(disk) /\ Buffer(rows)
  BY <1>1, <1>2 DEF NotBuilt, Idle, Shape
<1>4. PICK E \in EntrySets(rows) :
           /\ work' = Finished(BuildRows(work, rows, E), rows)
           /\ mem' = BuiltState(BuildRows(work, rows, E), rows)
           /\ disk' = IF tx THEN disk ELSE work'
  BY <1>1
<1> DEFINE t == BuildRows(work, rows, E)
           z == Finished(t, rows)
           k == BuiltState(t, rows)
<1>5. /\ Shape(t) /\ Cardinality(DOMAIN rows) \in Nat
      /\ \A no \in BOOLEAN : ~no => Good(layout, t, Cardinality(DOMAIN rows), t.head, no, moved)
  BY <1>1, <1>2, <1>3, BuildRowsFacts
<1> HIDE DEF t, rows
<1>6. /\ MemType(k) /\ k.built /\ k.loaded
      /\ FileGood(layout, z, k, HeadNow(z, k), moved)
      /\ \A d : Shape(d) /\ ~d.state.built /\ NoRows(d) => FileGood(layout, d, k, HeadNow(z, k), moved)
  BY <1>5, FinishedFacts
<1>7. work' = z /\ mem' = k /\ disk' = IF tx THEN disk ELSE z
  BY <1>4 DEF t
<1> HIDE DEF z, k
<1>8. FileGood(layout, disk, k, HeadNow(z, k), moved)
  BY <1>2, <1>3, <1>6
<1>9. TableGood(layout, IF tx THEN disk ELSE z, z, tx, k, moved, auto)
  BY <1>3, <1>6, <1>8, BuiltStep DEF TableInv
<1> QED BY <1>1, <1>7, <1>9 DEF TableInv

LEMMA AutoStartStep == TableInv /\ AutoStart => TableInv'
<1> SUFFICES ASSUME TableInv, AutoStart PROVE TableInv'
  OBVIOUS
<1> DEFINE t == IF layout = "ivf" THEN work ELSE [work EXCEPT !.buffer = << >>]
           b == [pc |-> "train", rows |-> work.buffer]
           e == IF tx THEN disk ELSE t
<1>1. /\ ~mem.built /\ DOMAIN work.buffer # {} /\ Bare(work) /\ Idle
      /\ UNCHANGED << moved, layout, tx, mem >> /\ auto' = b /\ work' = t /\ disk' = e
  BY DEF AutoStart, Buildable, Effect, Bare
<1>2. /\ layout \in {"graph", "ivf"} /\ tx \in BOOLEAN /\ moved \in BOOLEAN
      /\ Shape(work) /\ ~work.state.built /\ Shape(disk) /\ ~disk.state.built
      /\ NotBuilt(layout, disk, work, tx, moved, auto)
  BY <1>1, UnbuiltFacts DEF TableInv
<1>3. auto.pc = "idle" /\ NoRows(work) /\ NoRows(disk) /\ Buffer(work.buffer)
  BY <1>1, <1>2 DEF NotBuilt, Idle, Shape
<1>4. Shape(t) /\ ~t.state.built /\ NoRows(t)
  <2>1. Buffer(<< >>)
    BY DEF Buffer
  <2> DEFINE z == [work EXCEPT !.buffer = << >>]
  <2>2. Shape(z) /\ SameTables(z, work) /\ z.head = work.head /\ z.state = work.state
    BY <1>2, <2>1, BufferFacts
  <2> HIDE DEF z
  <2>3. NoRows(z)
    BY <1>3, <2>2, NoRowsSame
  <2>4. t = work \/ t = z
    BY DEF z
  <2> QED BY <1>2, <1>3, <2>2, <2>3, <2>4
<1> HIDE DEF t
<1>5. Shape(e) /\ ~e.state.built /\ NoRows(e) /\ (~tx => e = t)
  BY <1>2, <1>3, <1>4
<1>6. AutoType(b) /\ b.pc = "train" /\ b.rows = work.buffer
  BY DEF AutoType
<1> HIDE DEF b, e
<1>7. NotBuilt(layout, e, t, tx, moved, b)
  BY <1>1, <1>3, <1>4, <1>5, <1>6 DEF NotBuilt
<1>8. TableGood(layout, e, t, tx, mem, moved, b)
  BY <1>1, <1>2, <1>4, <1>5, <1>6, <1>7, UnbuiltStep DEF TableInv
<1> QED BY <1>1, <1>8 DEF TableInv

LEMMA AutoRowsStep == TableInv /\ AutoRows => TableInv'
<1> SUFFICES ASSUME TableInv, AutoRows PROVE TableInv'
  OBVIOUS
<1> DEFINE b == [auto EXCEPT !.pc = "state"]
<1>1. PICK E \in EntrySets(auto.rows) :
        /\ auto.pc = "train" /\ auto' = b /\ UNCHANGED << moved, layout, tx, mem >>
        /\ work' = BuildRows(work, auto.rows, E) /\ disk' = IF tx THEN disk ELSE work'
  BY DEF AutoRows, Effect
<1>2. ~mem.built
  BY <1>1 DEF TableInv, TableGood
<1>3. /\ layout \in {"graph", "ivf"} /\ tx \in BOOLEAN /\ moved \in BOOLEAN /\ AutoType(auto)
      /\ Shape(work) /\ ~work.state.built /\ Shape(disk) /\ ~disk.state.built
      /\ NotBuilt(layout, disk, work, tx, moved, auto)
  BY <1>2, UnbuiltFacts DEF TableInv
<1>4. /\ NoRows(work) /\ NoRows(disk) /\ Buffer(auto.rows) /\ DOMAIN auto.rows # {}
  BY <1>1, <1>3 DEF NotBuilt
<1> DEFINE t == BuildRows(work, auto.rows, E)
           e == IF tx THEN disk ELSE t
<1>5. /\ Shape(t) /\ t.state = work.state /\ ~Bare(t)
      /\ \A no \in BOOLEAN : ~no => Good(layout, t, Cardinality(DOMAIN auto.rows), t.head, no, moved)
  BY <1>3, <1>4, BuildRowsFacts
<1> HIDE DEF t
<1>6. Shape(e) /\ ~e.state.built /\ (NoRows(e) \/ ~tx) /\ (~tx => e = t)
  BY <1>3, <1>4, <1>5
<1>7. AutoType(b) /\ b.pc = "state" /\ b.rows = auto.rows
  BY <1>3 DEF AutoType
<1>8. work' = t /\ disk' = e
  BY <1>1 DEF t
<1> HIDE DEF b, e
<1>9. NotBuilt(layout, e, t, tx, moved, b)
  BY <1>4, <1>5, <1>6, <1>7 DEF NotBuilt
<1>10. TableGood(layout, e, t, tx, mem, moved, b)
  BY <1>2, <1>3, <1>5, <1>6, <1>7, <1>9, UnbuiltStep DEF TableInv
<1> QED BY <1>1, <1>8, <1>10 DEF TableInv

LEMMA AutoStateStep == TableInv /\ AutoState => TableInv'
<1> SUFFICES ASSUME TableInv, AutoState PROVE TableInv'
  OBVIOUS
<1> DEFINE z == Finished(work, auto.rows)
           k == BuiltState(work, auto.rows)
           e == IF tx THEN disk ELSE z
<1>1. /\ auto.pc = "state" /\ auto' = NoBuild /\ UNCHANGED << moved, layout, tx >>
      /\ work' = z /\ mem' = k /\ disk' = e
  BY DEF AutoState, Effect
<1>2. ~mem.built
  BY <1>1 DEF TableInv, TableGood
<1>3. /\ layout \in {"graph", "ivf"} /\ tx \in BOOLEAN /\ moved \in BOOLEAN
      /\ Shape(work) /\ Shape(disk) /\ ~disk.state.built
      /\ NotBuilt(layout, disk, work, tx, moved, auto)
  BY <1>2, UnbuiltFacts DEF TableInv
<1>4. /\ Buffer(auto.rows) /\ DOMAIN auto.rows # {} /\ (NoRows(disk) \/ ~tx)
      /\ \A no \in BOOLEAN : ~no => Good(layout, work, Cardinality(DOMAIN auto.rows), work.head, no, moved)
  BY <1>1, <1>3 DEF NotBuilt
<1>5. Cardinality(DOMAIN auto.rows) \in Nat
  BY <1>4, RowsInLists
<1>6. /\ MemType(k) /\ k.built /\ k.loaded
      /\ FileGood(layout, z, k, HeadNow(z, k), moved)
      /\ \A d : Shape(d) /\ ~d.state.built /\ NoRows(d) => FileGood(layout, d, k, HeadNow(z, k), moved)
  BY <1>3, <1>4, <1>5, FinishedFacts
<1> HIDE DEF z, k
<1>7. FileGood(layout, e, k, HeadNow(z, k), moved) /\ (~tx => e = z)
  BY <1>3, <1>4, <1>6
<1>8. AutoType(NoBuild) /\ NoBuild.pc = "idle"
  BY DEF NoBuild, AutoType
<1> HIDE DEF e
<1>9. TableGood(layout, e, z, tx, k, moved, NoBuild)
  BY <1>3, <1>6, <1>7, <1>8 DEF TableGood
<1> QED BY <1>1, <1>9 DEF TableInv

LEMMA AutoEndStep == TableInv /\ (AutoFails \/ FallbackDone) => TableInv'
<1> SUFFICES ASSUME TableInv, AutoFails \/ FallbackDone PROVE TableInv'
  OBVIOUS
<1>1. /\ \/ auto.pc = "train" /\ auto' = [auto EXCEPT !.pc = "fallback"]
         \/ auto.pc = "fallback" /\ auto' = NoBuild
      /\ UNCHANGED << layout, disk, work, tx, mem, moved >>
  BY DEF AutoFails, FallbackDone
<1>2. ~mem.built
  BY <1>1 DEF TableInv, TableGood
<1>3. /\ tx \in BOOLEAN /\ AutoType(auto)
      /\ Shape(work) /\ ~work.state.built /\ Shape(disk) /\ ~disk.state.built
      /\ (~tx => disk = work) /\ NotBuilt(layout, disk, work, tx, moved, auto)
  BY <1>2, UnbuiltFacts DEF TableInv
<1>4. AutoType(auto') /\ auto'.pc \in {"idle", "fallback"}
  BY <1>1, <1>3 DEF AutoType, NoBuild
<1>5. NotBuilt(layout, disk, work, tx, moved, auto')
  <2>1. /\ Bare(work) <=> Bare(disk)
        /\ Bare(work) => NoRows(work)
        /\ Bare(disk) => NoRows(disk)
    BY <1>1, <1>3 DEF NotBuilt, Bare, NoRows
  <2> QED BY <1>4, <2>1 DEF NotBuilt
<1>6. TableGood(layout, disk, work, tx, mem, moved, auto')
  BY <1>2, <1>3, <1>4, <1>5, UnbuiltStep DEF TableInv
<1> QED BY <1>1, <1>6 DEF TableInv

-----------------------------------------------------------------------------
(***************************************************************************)
(* The statements of a connection.                                         *)
(***************************************************************************)
LEMMA LoadedFacts ==
  ASSUME NEW w, NEW m, MemType(m)
  PROVE  LET k == Loaded(w, m)
         IN  /\ MemType(k) /\ k.loaded /\ k.head = HeadNow(w, m)
             /\ k.built = m.built /\ k.next = m.next /\ k.hints = m.hints
<1> DEFINE k == Loaded(w, m)
           yes == TRUE
<1>1. CASE m.loaded
  BY <1>1 DEF Loaded, HeadNow
<1>2. CASE ~m.loaded
  <2>1. k = [m EXCEPT !.loaded = yes, !.head = w.head]
    BY <1>2 DEF Loaded
  <2>2. yes \in BOOLEAN /\ yes
    OBVIOUS
  <2> HIDE DEF k, yes
  <2>3. k = [built |-> m.built, next |-> m.next, hints |-> m.hints, loaded |-> yes, head |-> w.head]
    BY <2>1 DEF MemType
  <2>4. /\ k.built = m.built /\ k.next = m.next /\ k.hints = m.hints
        /\ k.loaded = yes /\ k.head = w.head
    BY <2>3
  <2>5. MemType(k)
    BY <2>2, <2>3, <2>4 DEF MemType
  <2>6. HeadNow(w, m) = w.head
    BY <1>2 DEF HeadNow
  <2> QED BY <2>2, <2>4, <2>5, <2>6 DEF k
<1> QED BY <1>1, <1>2

LEMMA ReadyFacts ==
  ASSUME NEW lay, NEW d, NEW w, NEW x, NEW m, NEW mv, NEW a, TableGood(lay, d, w, x, m, mv, a),
         m.built
  PROVE  LET k == Loaded(w, m)
         IN  /\ MemType(k) /\ k.loaded /\ k.built /\ k.next = m.next /\ k.hints = m.hints
             /\ k.head = HeadNow(w, m)
             /\ FileGood(lay, w, k, k.head, mv) /\ FileGood(lay, d, k, k.head, mv)
<1> DEFINE k == Loaded(w, m)
<1>1. /\ MemType(m)
      /\ FileGood(lay, w, m, HeadNow(w, m), mv) /\ FileGood(lay, d, m, HeadNow(w, m), mv)
  BY BuiltFacts
<1>2. /\ MemType(k) /\ k.loaded /\ k.head = HeadNow(w, m)
      /\ k.built = m.built /\ k.next = m.next /\ k.hints = m.hints
  BY <1>1, LoadedFacts
<1> HIDE DEF k
<1>3. FileGood(lay, w, k, k.head, mv) /\ FileGood(lay, d, k, k.head, mv)
  BY <1>1, <1>2, FileKept
<1> QED BY <1>2, <1>3 DEF k

(* The state after a statement on a built table.                           *)
LEMMA BuiltStatement ==
  ASSUME TableInv, mem.built, NEW t, NEW k, Statement(t, k), MemType(k), k.built,
         FileGood(layout, t, k, HeadNow(t, k), moved),
         tx => FileGood(layout, disk, k, HeadNow(t, k), moved),
         tx /\ ~k.loaded => t.head = disk.head
  PROVE  TableInv'
<1>1. /\ work' = t /\ mem' = k /\ disk' = IF tx THEN disk ELSE t
      /\ UNCHANGED << layout, tx, moved, auto >>
  BY DEF Statement, Effect
<1>2. auto.pc = "idle"
  BY DEF TableInv, TableGood
<1>3. TableGood(layout, IF tx THEN disk ELSE t, t, tx, k, moved, auto)
  BY <1>2, BuiltStep DEF TableInv
<1> QED BY <1>1, <1>3 DEF TableInv

(* A statement on a table nobody has built changes the buffer.             *)
LEMMA UnbuiltStatement ==
  ASSUME TableInv, ~mem.built, NEW b, Buffer(b), Statement([work EXCEPT !.buffer = b], mem)
  PROVE  TableInv'
<1> DEFINE t == [work EXCEPT !.buffer = b]
           e == IF tx THEN disk ELSE t
<1>1. /\ work' = t /\ mem' = mem /\ disk' = e /\ auto.pc = "idle"
      /\ UNCHANGED << layout, tx, moved, auto >>
  BY DEF Statement, Effect, Idle
<1>2. /\ layout \in {"graph", "ivf"} /\ tx \in BOOLEAN /\ moved \in BOOLEAN /\ AutoType(auto)
      /\ Shape(work) /\ ~work.state.built /\ Shape(disk) /\ ~disk.state.built
      /\ (~tx => disk = work) /\ NotBuilt(layout, disk, work, tx, moved, auto)
  BY UnbuiltFacts DEF TableInv
<1>3. Shape(t) /\ SameTables(t, work) /\ t.head = work.head /\ t.state = work.state
  BY <1>2, BufferFacts
<1> HIDE DEF t
<1>4. (NoRows(t) <=> NoRows(work)) /\ (Bare(t) <=> Bare(work))
  BY <1>3, NoRowsSame
<1>5. Shape(e) /\ ~e.state.built /\ (~tx => e = t)
  BY <1>2, <1>3
<1>6. (Bare(t) <=> Bare(e)) /\ (Bare(t) => NoRows(t)) /\ (Bare(e) => NoRows(e))
  BY <1>1, <1>2, <1>4 DEF NotBuilt
<1> HIDE DEF e
<1>7. NotBuilt(layout, e, t, tx, moved, auto)
  BY <1>1, <1>6 DEF NotBuilt
<1>8. TableGood(layout, e, t, tx, mem, moved, auto)
  BY <1>2, <1>3, <1>5, <1>7, UnbuiltStep DEF TableInv
<1> QED BY <1>1, <1>8 DEF TableInv

(* A statement that changes nothing but loads the head.                    *)
LEMMA QueryStep == TableInv /\ mem.built /\ Statement(work, Loaded(work, mem)) => TableInv'
<1> SUFFICES ASSUME TableInv, mem.built, Statement(work, Loaded(work, mem)) PROVE TableInv'
  OBVIOUS
<1> DEFINE k == Loaded(work, mem)
<1>1. /\ MemType(k) /\ k.loaded /\ k.built
      /\ FileGood(layout, work, k, k.head, moved) /\ FileGood(layout, disk, k, k.head, moved)
  BY ReadyFacts DEF TableInv
<1>2. HeadNow(work, k) = k.head
  BY <1>1 DEF HeadNow
<1>3. Statement(work, k)
  OBVIOUS
<1> HIDE DEF k
<1> QED BY <1>1, <1>2, <1>3, BuiltStatement

(* A row added to a built table, after a removal or by itself.             *)
LEMMA AddedStep ==
  ASSUME TableInv, mem.built, NEW r \in RowIds, NEW v \in Vecs, NEW t,
         LET m == Loaded(work, mem)
             y == AddedFile(t, m, r, v)
             k == AddedMem(y, m)
         IN /\ FileGood(layout, t, m, m.head, moved) /\ r \notin DOMAIN t.rowids /\ m.next < Limit
            /\ Statement(Saved(y, k), k)
  PROVE  TableInv'
<1> DEFINE m == Loaded(work, mem)
           y == AddedFile(t, m, r, v)
           k == AddedMem(y, m)
           z == Saved(y, k)
<1>1. layout \in {"graph", "ivf"} /\ moved \in BOOLEAN
  BY DEF TableInv, TableGood
<1>2. /\ MemType(m) /\ m.loaded /\ m.built
      /\ FileGood(layout, disk, m, m.head, moved)
  BY ReadyFacts DEF TableInv
<1>3. FileGood(layout, t, m, m.head, moved) /\ r \notin DOMAIN t.rowids /\ m.next < Limit
      /\ Statement(z, k)
  OBVIOUS
<1> HIDE DEF m
<1>4. /\ MemType(k) /\ k.built /\ k.loaded /\ k.hints = m.hints /\ k.next = m.next + 1
      /\ Counted(layout, m.head, k.head)
      /\ FileGood(layout, z, k, k.head, moved)
  BY <1>1, <1>2, <1>3, AddedFacts
<1> HIDE DEF y, k, z
<1>5. FileGood(layout, disk, k, k.head, moved)
  BY <1>2, <1>4, FileCounted
<1>6. HeadNow(z, k) = k.head
  BY <1>4 DEF HeadNow
<1> QED BY <1>3, <1>4, <1>5, <1>6, BuiltStatement

LEMMA UnbuiltBuffer == TableInv /\ ~mem.built => Shape(work) /\ Buffer(work.buffer)
<1> SUFFICES ASSUME TableInv, ~mem.built PROVE Shape(work) /\ Buffer(work.buffer)
  OBVIOUS
<1>1. Shape(work)
  BY UnbuiltFacts DEF TableInv
<1> QED BY <1>1 DEF Shape

LEMMA InsertStep ==
  ASSUME TableInv, NEW r \in RowIds, NEW v \in Vecs, Insert(r, v)
  PROVE  TableInv'
<1>1. CASE mem.built
  <2> DEFINE m == Loaded(work, mem)
             y == AddedFile(work, m, r, v)
             k == AddedMem(y, m)
  <2>1. /\ MemType(m) /\ m.loaded /\ m.built /\ FileGood(layout, work, m, m.head, moved)
    BY <1>1, ReadyFacts DEF TableInv
  <2>2. r \notin DOMAIN work.rowids /\ m.next < Limit /\ Statement(Saved(y, k), k)
    <3>1. Ready(work, mem) = m
      BY <1>1 DEF Ready
    <3> HIDE DEF m
    <3> QED BY <1>1, <2>1, <3>1 DEF Insert, Known
  <2> QED BY <1>1, <2>1, <2>2, AddedStep
<1>2. CASE ~mem.built
  <2> DEFINE b == Put(work.buffer, r, v)
  <2>1. Statement([work EXCEPT !.buffer = b], mem)
    BY <1>2 DEF Insert, Ready, AddedFile, AddedMem
  <2>2. Buffer(work.buffer)
    BY <1>2, UnbuiltBuffer
  <2>3. Buffer(b)
    BY <2>2 DEF Buffer, Put
  <2> HIDE DEF b
  <2> QED BY <1>2, <2>1, <2>3, UnbuiltStatement
<1> QED BY <1>1, <1>2

LEMMA BufferWithout ==
  ASSUME NEW f, Buffer(f), NEW r
  PROVE  /\ Buffer(Restrict(f, DOMAIN f \ {r}))
         /\ DOMAIN Restrict(f, DOMAIN f \ {r}) = DOMAIN f \ {r}
BY DEF Buffer, Restrict

(* A row removed, and nothing added.                                       *)
LEMMA RemovedStep ==
  ASSUME TableInv, NEW r, NEW k, k = mem \/ k = Ready(work, mem),
         Statement(Removed(work, mem, r), k)
  PROVE  TableInv'
<1>1. CASE mem.built
  <2> DEFINE z == Removed(work, mem, r)
             h == HeadNow(work, mem)
  <2>1. /\ layout \in {"graph", "ivf"} /\ moved \in BOOLEAN /\ MemType(mem)
        /\ FileGood(layout, work, mem, h, moved) /\ FileGood(layout, disk, mem, h, moved)
        /\ (~mem.loaded => work.head = disk.head)
    BY <1>1, BuiltFacts DEF TableInv
  <2>2. FileGood(layout, z, mem, h, moved) /\ z.head = work.head
    BY <1>1, <2>1, RemovedFacts
  <2>3. /\ MemType(k) /\ k.built = mem.built /\ k.next = mem.next /\ k.hints = mem.hints
        /\ (~k.loaded => k = mem) /\ (k.loaded => k.head = h)
    <3>1. k = mem \/ k = Loaded(work, mem)
      BY <1>1 DEF Ready
    <3>2. CASE k = mem
      BY <2>1, <3>2 DEF HeadNow
    <3>3. CASE k = Loaded(work, mem)
      BY <2>1, <3>3, LoadedFacts
    <3> QED BY <3>1, <3>2, <3>3
  <2>4. HeadNow(z, k) = h
    BY <2>2, <2>3 DEF HeadNow
  <2>5. Statement(z, k)
    OBVIOUS
  <2> HIDE DEF z, h
  <2>6. FileGood(layout, z, k, h, moved) /\ FileGood(layout, disk, k, h, moved)
    BY <1>1, <2>1, <2>2, <2>3, FileKept
  <2>7. ~k.loaded => z.head = disk.head
    BY <2>1, <2>2, <2>3
  <2> QED BY <1>1, <2>3, <2>4, <2>5, <2>6, <2>7, BuiltStatement
<1>2. CASE ~mem.built
  <2> DEFINE b == Restrict(work.buffer, DOMAIN work.buffer \ {r})
  <2>1. Statement([work EXCEPT !.buffer = b], mem)
    BY <1>2 DEF Removed, Ready
  <2>2. Buffer(work.buffer)
    BY <1>2, UnbuiltBuffer
  <2>3. Buffer(b)
    BY <2>2, BufferWithout
  <2> HIDE DEF b
  <2> QED BY <1>2, <2>1, <2>3, UnbuiltStatement
<1> QED BY <1>1, <1>2

LEMMA DeleteStep ==
  ASSUME TableInv, NEW r, Delete(r)
  PROVE  TableInv'
BY RemovedStep DEF Delete

LEMMA UpdateRefusedStep ==
  ASSUME TableInv, NEW r, UpdateRefused(r)
  PROVE  TableInv'
<1>1. CASE Statement(Removed(work, mem, r), Ready(work, mem))
  BY <1>1, RemovedStep
<1>2. CASE Statement(work, Ready(work, mem))
  <2>1. CASE mem.built
    BY <1>2, <2>1, QueryStep DEF Ready
  <2>2. CASE ~mem.built
    <3>1. Shape(work) /\ Buffer(work.buffer)
      BY <2>2, UnbuiltBuffer
    <3>2. [work EXCEPT !.buffer = work.buffer] = work
      BY <3>1 DEF Shape
    <3>3. Statement([work EXCEPT !.buffer = work.buffer], mem)
      BY <1>2, <2>2, <3>2 DEF Ready
    <3> QED BY <2>2, <3>1, <3>3, UnbuiltStatement
  <2> QED BY <2>1, <2>2
<1> QED BY <1>1, <1>2 DEF UpdateRefused

LEMMA UpdateStep ==
  ASSUME TableInv, NEW r \in RowIds, NEW to \in RowIds, NEW v \in Vecs, Update(r, to, v)
  PROVE  TableInv'
<1>1. CASE mem.built
  <2> DEFINE m == Loaded(work, mem)
             t == Removed(work, m, r)
             y == AddedFile(t, m, to, v)
             k == AddedMem(y, m)
  <2>1. /\ MemType(m) /\ m.loaded /\ m.built /\ FileGood(layout, work, m, m.head, moved)
    BY <1>1, ReadyFacts DEF TableInv
  <2>2. to \notin DOMAIN work.rowids \ {r} /\ m.next < Limit /\ Statement(Saved(y, k), k)
    <3>1. Ready(work, mem) = m
      BY <1>1 DEF Ready
    <3> HIDE DEF m
    <3> QED BY <1>1, <2>1, <3>1 DEF Update, Known
  <2>3. layout \in {"graph", "ivf"} /\ moved \in BOOLEAN
    BY DEF TableInv, TableGood
  <2>4. FileGood(layout, t, m, m.head, moved) /\ DOMAIN t.rowids = DOMAIN work.rowids \ {r}
    <3> HIDE DEF m
    <3> QED BY <2>1, <2>3, RemovedFacts
  <2> HIDE DEF t
  <2> QED BY <1>1, <2>2, <2>4, AddedStep
<1>2. CASE ~mem.built
  <2> DEFINE b == Restrict(work.buffer, DOMAIN work.buffer \ {r})
             c == Put(b, to, v)
             one == [work EXCEPT !.buffer = b]
  <2>1. Statement([one EXCEPT !.buffer = Put(one.buffer, to, v)], mem)
    BY <1>2 DEF Update, Ready, Removed, AddedFile, AddedMem
  <2>2. Shape(work) /\ Buffer(work.buffer)
    BY <1>2, UnbuiltBuffer
  <2>3. Buffer(b)
    BY <2>2, BufferWithout
  <2>4. Buffer(c)
    <3> HIDE DEF b
    <3> QED BY <2>3 DEF Buffer, Put
  <2>5. [one EXCEPT !.buffer = Put(one.buffer, to, v)] = [work EXCEPT !.buffer = c]
    <3> HIDE DEF b
    <3> QED BY <2>2 DEF Shape
  <2> HIDE DEF c, one
  <2> QED BY <1>2, <2>1, <2>4, <2>5, UnbuiltStatement
<1> QED BY <1>1, <1>2

LEMMA InsertUndoneStep ==
  ASSUME TableInv, NEW r \in RowIds, NEW v \in Vecs, InsertUndone(r, v)
  PROVE  TableInv'
<1> DEFINE m == Loaded(work, mem)
           y == AddedFile(work, m, r, v)
           c == AddedMem(y, m)
           k == [c EXCEPT !.next = m.next]
<1>1. mem.built /\ ~tx
  BY DEF InsertUndone
<1>2. /\ layout \in {"graph", "ivf"} /\ moved \in BOOLEAN
  BY DEF TableInv, TableGood
<1>3. /\ MemType(m) /\ m.loaded /\ m.built /\ FileGood(layout, work, m, m.head, moved)
  BY <1>1, ReadyFacts DEF TableInv
<1>4. /\ r \notin DOMAIN work.rowids /\ m.next < Limit
      /\ \/ Statement(work, c)
         \/ /\ layout = "ivf" /\ \A L \in DOMAIN c.head : c.head[L].n < MaxSlots
            /\ Statement(work, k)
  <2>1. Ready(work, mem) = m
    BY <1>1 DEF Ready
  <2> HIDE DEF m
  <2> QED BY <1>3, <2>1 DEF InsertUndone, Known
<1> HIDE DEF m
<1>5. /\ MemType(c) /\ c.built /\ c.loaded /\ c.hints = m.hints /\ c.next = m.next + 1
      /\ Counted(layout, m.head, c.head)
  BY <1>2, <1>3, <1>4, AddedFacts
<1> HIDE DEF y, c
<1>6. FileGood(layout, work, c, c.head, moved)
  BY <1>3, <1>5, FileCounted
<1>7. CASE Statement(work, c)
  <2>1. HeadNow(work, c) = c.head
    BY <1>5 DEF HeadNow
  <2> QED BY <1>1, <1>5, <1>6, <1>7, <2>1, BuiltStatement
<1>8. CASE /\ layout = "ivf" /\ \A L \in DOMAIN c.head : c.head[L].n < MaxSlots
           /\ Statement(work, k)
  <2>0. m.next \in Nat /\ MaxSlots \in Nat
    BY <1>3, FileAssumption DEF MemType
  <2>1. k = [built |-> c.built, next |-> m.next, hints |-> c.hints, loaded |-> c.loaded, head |-> c.head]
    <3>1. k = [c EXCEPT !.next = m.next]
      OBVIOUS
    <3> HIDE DEF k
    <3> QED BY <1>5, <3>1 DEF MemType
  <2> HIDE DEF k
  <2>2. /\ k.built = c.built /\ k.next = m.next /\ k.hints = c.hints
        /\ k.loaded = c.loaded /\ k.head = c.head
    BY <2>1
  <2>3. MemType(k)
    BY <1>5, <2>0, <2>1, <2>2 DEF MemType
  <2>4. /\ IvfHead(work, m.next + 1, c.head) /\ Good("ivf", work, m.next, m.head, m.hints, moved)
        /\ Shape(work) /\ (work.state.built \/ NoRows(work))
    BY <1>3, <1>5, <1>6, <1>8 DEF FileGood, Good
  <2>5. IvfHead(work, m.next, c.head)
    <3>1. PICK nl \in 1 .. NLists : Directory(c.head, nl, m.next + 1)
      BY <2>4 DEF IvfHead
    <3>2. \A L \in 0 .. nl - 1 : c.head[L].n <= m.next + MaxSlots
      <4> TAKE L \in 0 .. nl - 1
      <4>1. L \in DOMAIN c.head /\ c.head[L].n \in Nat
        BY <3>1 DEF Directory
      <4>2. c.head[L].n < MaxSlots
        BY <1>8, <4>1
      <4> QED BY <2>0, <4>1, <4>2
    <3>3. Directory(c.head, nl, m.next)
      BY <3>1, <3>2 DEF Directory
    <3> QED BY <2>4, <3>3 DEF IvfHead
  <2>6. Good(layout, work, k.next, k.head, k.hints, moved)
    BY <1>5, <1>8, <2>2, <2>4, <2>5 DEF Good
  <2>7. FileGood(layout, work, k, k.head, moved)
    BY <1>3, <1>5, <2>2, <2>4, <2>6 DEF FileGood
  <2>8. HeadNow(work, k) = k.head
    BY <1>5, <2>2 DEF HeadNow
  <2> QED BY <1>1, <1>5, <1>8, <2>2, <2>3, <2>7, <2>8, BuiltStatement
<1> QED BY <1>4, <1>7, <1>8

-----------------------------------------------------------------------------
(***************************************************************************)
(* 'finalize' and VACUUM.                                                  *)
(***************************************************************************)
LEMMA FinalizeStep == TableInv /\ Finalize => TableInv'
<1> SUFFICES ASSUME TableInv, Finalize PROVE TableInv'
  OBVIOUS
<1> DEFINE m == Loaded(work, mem)
           t == IF layout = "ivf" THEN FinalizeIvf(work, m) ELSE FinalizeGraph(work, m)
           yes == TRUE
           no == FALSE
           done == [m EXCEPT !.hints = yes, !.loaded = no]
           z == Saved(t, done)
<1>1. /\ mem.built /\ ~tx /\ Idle
      /\ work' = z /\ mem' = done /\ disk' = z /\ moved' = no
      /\ UNCHANGED << layout, tx, auto >>
  BY DEF Finalize, Effect
<1>2. layout \in {"graph", "ivf"}
  BY DEF TableInv, TableGood
<1>3. /\ MemType(m) /\ m.built /\ FileGood(layout, work, m, m.head, moved)
  BY <1>1, ReadyFacts DEF TableInv
<1>4. yes \in BOOLEAN /\ yes /\ no \in BOOLEAN /\ ~no
  OBVIOUS
<1> HIDE DEF m, yes, no
<1>5. Shape(work) /\ Good(layout, work, m.next, m.head, m.hints, moved) /\ m.next \in Nat
  BY <1>3 DEF FileGood, MemType
<1>6. Shape(t) /\ Good(layout, t, m.next, t.head, yes, no)
  <2>1. CASE layout = "ivf"
    <3>1. t = FinalizeIvf(work, m)
      BY <2>1
    <3>2. IvfBase(work, m.next, m.hints, moved) /\ IvfHead(work, m.next, m.head)
      BY <1>5, <2>1 DEF Good
    <3> HIDE DEF t
    <3>3. Shape(t) /\ IvfBase(t, m.next, yes, no) /\ IvfHead(t, m.next, t.head)
      BY <1>4, <1>5, <3>1, <3>2, FinalizeIvfFacts
    <3> QED BY <2>1, <3>3 DEF Good
  <2>2. CASE layout # "ivf"
    <3>1. t = FinalizeGraph(work, m)
      BY <2>2
    <3>2. GraphBase(work, m.next, m.hints, moved) /\ m.head \in Seq(GoodRefs(work, m.hints, moved))
      BY <1>5, <2>2 DEF Good
    <3>3. m.head \in Seq(RefType)
      <4>1. GoodRefs(work, m.hints, moved) \subseteq RefType
        BY DEF GoodRefs
      <4> QED BY <3>2, <4>1, SeqMonotonic
    <3> HIDE DEF t
    <3>4. Shape(t) /\ GraphBase(t, m.next, yes, no) /\ t.head \in Seq(GoodRefs(t, yes, no))
      BY <1>4, <1>5, <3>1, <3>2, <3>3, FinalizeGraphFacts
    <3> QED BY <2>2, <3>4 DEF Good
  <2> QED BY <2>1, <2>2
<1> HIDE DEF t
<1>7. done = [built |-> m.built, next |-> m.next, hints |-> yes, loaded |-> no, head |-> m.head]
  <2>1. done = [m EXCEPT !.hints = yes, !.loaded = no]
    OBVIOUS
  <2> HIDE DEF done
  <2> QED BY <1>3, <2>1 DEF MemType
<1> HIDE DEF done
<1>8. /\ done.built = m.built /\ done.next = m.next /\ done.hints = yes
      /\ done.loaded = no /\ done.head = m.head
  BY <1>7
<1>9. MemType(done)
  BY <1>3, <1>4, <1>7, <1>8 DEF MemType
<1>10. IsSaved(z, t, done)
  BY <1>6, <1>9, SavedFacts
<1> HIDE DEF z
<1>11. /\ Shape(z) /\ SameTables(z, t) /\ z.head = t.head
       /\ z.state.built = done.built /\ z.state.next = done.next /\ z.state.hints = done.hints
  BY <1>10 DEF IsSaved
<1>12. Good(layout, z, m.next, z.head, yes, no)
  <2>1. Good(layout, z, m.next, t.head, yes, no)
    BY <1>6, <1>11, GoodSame
  <2> QED BY <1>11, <2>1
<1>13. HeadNow(z, done) = z.head
  BY <1>4, <1>8 DEF HeadNow
<1>14. FileGood(layout, z, done, z.head, no)
  BY <1>3, <1>5, <1>8, <1>11, <1>12 DEF FileGood
<1>15. tx \in BOOLEAN /\ AutoType(auto) /\ auto.pc = "idle"
  BY <1>1 DEF TableInv, TableGood, Idle
<1>16. TableGood(layout, z, z, tx, done, no, auto)
  BY <1>2, <1>3, <1>4, <1>8, <1>9, <1>13, <1>14, <1>15 DEF TableGood
<1> QED BY <1>1, <1>16 DEF TableInv

LEMMA VacuumGood ==
  ASSUME NEW lay, NEW t, Shape(t), NEW next \in Nat, NEW head, NEW hints \in BOOLEAN,
         NEW mv \in BOOLEAN, NEW now \in BOOLEAN, hints => now, Good(lay, t, next, head, hints, mv)
  PROVE  LET z == VacuumFile(t)
         IN  /\ Shape(z) /\ z.state = t.state /\ z.head = t.head
             /\ (lay = layout => RowsOf(z) = RowsOf(t))
             /\ Good(lay, z, next, head, hints, now)
<1> DEFINE z == VacuumFile(t)
<1>1. CASE lay = "ivf"
  <2>1. IvfBase(t, next, hints, mv) /\ IvfHead(t, next, head)
    BY <1>1 DEF Good
  <2>2. /\ Shape(z) /\ z.state = t.state /\ z.head = t.head
        /\ DOMAIN z.lists = DOMAIN t.lists /\ IvfBase(z, next, hints, now)
        /\ IvfView(z) = IvfView(t)
    BY <2>1, VacuumIvfFacts
  <2> HIDE DEF z
  <2>3. IvfHead(z, next, head)
    BY <2>1, <2>2 DEF IvfHead
  <2> QED BY <1>1, <2>2, <2>3 DEF Good, RowsOf, z
<1>2. CASE lay # "ivf"
  <2>1. GraphBase(t, next, hints, mv) /\ head \in Seq(GoodRefs(t, hints, mv))
    BY <1>2 DEF Good
  <2>2. /\ Shape(z) /\ z.state = t.state /\ z.head = t.head
        /\ GraphBase(z, next, hints, now)
        /\ GoodRefs(t, hints, mv) \subseteq GoodRefs(z, hints, now)
        /\ GraphView(z) = GraphView(t)
    BY <2>1, VacuumGraphFacts
  <2> HIDE DEF z
  <2>3. head \in Seq(GoodRefs(z, hints, now))
    BY <2>1, <2>2, SeqMonotonic
  <2> QED BY <1>2, <2>2, <2>3 DEF Good, RowsOf, z
<1> QED BY <1>1, <1>2

LEMMA PagesForNone == \A top : PagesFor(top, << >>) = << >>
<1> DEFINE none == << >>
<1> SUFFICES ASSUME NEW top PROVE PagesFor(top, none) = none
  OBVIOUS
<1> DEFINE f == PagesFor(top, none)
<1>1. DOMAIN none = {} /\ none = [i \in {} |-> none[i]]
  OBVIOUS
<1> HIDE DEF none
<1>2. f = [i \in DOMAIN none |-> top + 1 + Place(DOMAIN none, i)]
  BY DEF PagesFor
<1> HIDE DEF f
<1>3. DOMAIN f = {} /\ f = [i \in {} |-> f[i]]
  BY <1>1, <1>2
<1>4. f = none
  BY <1>1, <1>3
<1> QED BY <1>4 DEF f

LEMMA VacuumNothing ==
  ASSUME NEW t, Shape(t), NoRows(t)
  PROVE  NoRows(VacuumFile(t))
<1> DEFINE none == << >>
           p == [nodes |-> none, vectors |-> none, lists |-> none]
           e1 == [t EXCEPT !.pages = p, !.top = 0]
           e2 == Lay(e1, "nodes", none)
           e3 == Lay(e2, "vectors", none)
           z == Lay(e3, "lists", none)
<1>1. /\ t.nodes = none /\ t.vectors = none /\ t.lists = none /\ t.rowids = none /\ t.head = none
  BY DEF NoRows
<1>2. /\ Over(none, none) = none /\ (\A top : PagesFor(top, none) = none)
      /\ Cardinality(DOMAIN none) = 0
  <2>1. DOMAIN none = {}
    OBVIOUS
  <2>2. Cardinality(DOMAIN none) = 0
    BY <2>1, FS_EmptySet
  <2> QED BY <2>2, OverNone, PagesForNone
<1>3. VacuumFile(t) = z
  BY <1>1 DEF VacuumFile, EmptyFile
<1> HIDE DEF none
<1>4. p.nodes = none /\ p.vectors = none /\ p.lists = none
  OBVIOUS
<1> HIDE DEF p
<1>5. e1 = [buffer |-> t.buffer, nodes |-> none, rowids |-> none, vectors |-> none,
            lists |-> none, head |-> none, state |-> t.state, pages |-> p, top |-> 0]
  <2>1. e1 = [t EXCEPT !.pages = p, !.top = 0]
    OBVIOUS
  <2> HIDE DEF e1
  <2> QED BY <1>1, <2>1 DEF Shape
<1> HIDE DEF e1
<1>6. /\ e1.buffer = t.buffer /\ e1.nodes = none /\ e1.rowids = none /\ e1.vectors = none
      /\ e1.lists = none /\ e1.head = none /\ e1.state = t.state /\ e1.pages = p /\ e1.top = 0
  BY <1>5
<1>7. Shape(e1)
  BY <1>4, <1>5, <1>6 DEF Shape, p
<1>8. e2 = e1
  <2>1. Lay(e1, "nodes", none) =
          [buffer |-> e1.buffer, nodes |-> Over(none, e1.nodes), rowids |-> e1.rowids,
           vectors |-> e1.vectors, lists |-> e1.lists,
           head |-> e1.head, state |-> e1.state,
           pages |-> [nodes |-> Over(PagesFor(e1.top, none), e1.pages.nodes),
                      vectors |-> e1.pages.vectors,
                      lists |-> e1.pages.lists],
           top |-> e1.top + Cardinality(DOMAIN none)]
    BY <1>7, LayNodes
  <2> QED BY <1>2, <1>4, <1>5, <1>6, <2>1 DEF p
<1>9. e3 = e1
  <2>1. e3 = Lay(e1, "vectors", none)
    BY <1>8
  <2> HIDE DEF e3
  <2>2. Lay(e1, "vectors", none) =
          [buffer |-> e1.buffer, nodes |-> e1.nodes, rowids |-> e1.rowids,
           vectors |-> Over(none, e1.vectors), lists |-> e1.lists,
           head |-> e1.head, state |-> e1.state,
           pages |-> [nodes |-> e1.pages.nodes,
                      vectors |-> Over(PagesFor(e1.top, none), e1.pages.vectors),
                      lists |-> e1.pages.lists],
           top |-> e1.top + Cardinality(DOMAIN none)]
    BY <1>7, LayVectors
  <2> QED BY <1>2, <1>4, <1>5, <1>6, <2>1, <2>2 DEF p
<1>10. z = e1
  <2>1. z = Lay(e1, "lists", none)
    BY <1>9
  <2> HIDE DEF z
  <2>2. Lay(e1, "lists", none) =
          [buffer |-> e1.buffer, nodes |-> e1.nodes, rowids |-> e1.rowids,
           vectors |-> e1.vectors, lists |-> Over(none, e1.lists),
           head |-> e1.head, state |-> e1.state,
           pages |-> [nodes |-> e1.pages.nodes,
                      vectors |-> e1.pages.vectors,
                      lists |-> Over(PagesFor(e1.top, none), e1.pages.lists)],
           top |-> e1.top + Cardinality(DOMAIN none)]
    BY <1>7, LayLists
  <2> QED BY <1>2, <1>4, <1>5, <1>6, <2>1, <2>2 DEF p
<1> HIDE DEF z
<1> QED BY <1>3, <1>6, <1>10 DEF NoRows, p, none

LEMMA VacuumStep == TableInv /\ Vacuum => TableInv'
<1> SUFFICES ASSUME TableInv, Vacuum PROVE TableInv'
  OBVIOUS
<1> DEFINE z == VacuumFile(work)
           h == HeadNow(work, mem)
           now == mem.hints
<1>1. /\ mem.built /\ ~tx /\ Idle
      /\ work' = z /\ mem' = mem /\ disk' = z /\ moved' = now
      /\ UNCHANGED << layout, tx, auto >>
  BY DEF Vacuum, Effect
<1>2. /\ layout \in {"graph", "ivf"} /\ moved \in BOOLEAN /\ MemType(mem) /\ AutoType(auto)
      /\ FileGood(layout, work, mem, h, moved) /\ auto.pc = "idle"
  BY <1>1, BuiltFacts DEF TableInv
<1>3. /\ Shape(work) /\ now \in BOOLEAN /\ mem.next \in Nat
      /\ Good(layout, work, mem.next, h, now, moved) /\ (work.state.built \/ NoRows(work))
      /\ work.state.built => /\ Good(layout, work, work.state.next, work.head, now, moved)
                             /\ work.state.hints = now /\ work.state.next <= mem.next
                             /\ work.state.next \in Nat
  <2>1. /\ Shape(work) /\ Good(layout, work, mem.next, h, now, moved) /\ (work.state.built \/ NoRows(work))
        /\ work.state.built => /\ Good(layout, work, work.state.next, work.head, work.state.hints, moved)
                               /\ work.state.hints = now /\ work.state.next <= mem.next
    BY <1>1, <1>2 DEF FileGood
  <2>2. now \in BOOLEAN /\ mem.next \in Nat /\ work.state.next \in Nat
    BY <1>2, <2>1 DEF MemType, Shape
  <2> QED BY <2>1, <2>2
<1> HIDE DEF h, now
<1>4. /\ Shape(z) /\ z.state = work.state /\ z.head = work.head
      /\ Good(layout, z, mem.next, h, now, now)
  BY <1>2, <1>3, VacuumGood
<1>5. work.state.built => Good(layout, z, work.state.next, work.head, now, now)
  BY <1>2, <1>3, VacuumGood
<1>6. work.state.built \/ NoRows(z)
  BY <1>3, VacuumNothing
<1> HIDE DEF z
<1>7. FileGood(layout, z, mem, h, now)
  BY <1>1, <1>3, <1>4, <1>5, <1>6 DEF FileGood, now
<1>8. HeadNow(z, mem) = h
  BY <1>4 DEF HeadNow, h
<1>9. tx \in BOOLEAN
  BY DEF TableInv, TableGood
<1>10. TableGood(layout, z, z, tx, mem, now, auto)
  BY <1>1, <1>2, <1>3, <1>7, <1>8, <1>9 DEF TableGood
<1> QED BY <1>1, <1>10 DEF TableInv

-----------------------------------------------------------------------------
(***************************************************************************)
(* Transactions, and the end of a connection.                              *)
(***************************************************************************)
LEMMA BeginStep == TableInv /\ Begin => TableInv'
<1> SUFFICES ASSUME TableInv, Begin PROVE TableInv'
  OBVIOUS
<1> DEFINE yes == TRUE
<1>1. /\ auto.pc = "idle" /\ tx' = yes /\ UNCHANGED << layout, disk, work, mem, moved, auto >>
  BY DEF Begin, Idle
<1>2. yes \in BOOLEAN /\ yes
  OBVIOUS
<1> HIDE DEF yes
<1>3. /\ layout \in {"graph", "ivf"} /\ moved \in BOOLEAN /\ MemType(mem) /\ AutoType(auto)
      /\ FileGood(layout, work, mem, HeadNow(work, mem), moved)
      /\ FileGood(layout, disk, mem, HeadNow(work, mem), moved)
      /\ (mem.built /\ ~mem.loaded => work.head = disk.head)
      /\ (~mem.built => NotBuilt(layout, disk, work, tx, moved, auto))
  BY DEF TableInv, TableGood
<1>4. ~mem.built => NotBuilt(layout, disk, work, yes, moved, auto)
  BY <1>1, <1>3 DEF NotBuilt
<1>5. TableGood(layout, disk, work, yes, mem, moved, auto)
  BY <1>1, <1>2, <1>3, <1>4 DEF TableGood
<1> QED BY <1>1, <1>5 DEF TableInv

(* Afterwards the two files are one of the two.                            *)
LEMMA EndStep ==
  ASSUME TableInv, Idle, NEW t \in {work, disk},
         work' = t, disk' = t, tx' = FALSE, UNCHANGED << layout, mem, moved, auto >>
  PROVE  TableInv'
<1> DEFINE no == FALSE
           h == HeadNow(work, mem)
<1>1. no \in BOOLEAN /\ ~no /\ tx' = no
  OBVIOUS
<1> HIDE DEF no
<1>2. /\ layout \in {"graph", "ivf"} /\ moved \in BOOLEAN /\ MemType(mem) /\ AutoType(auto)
      /\ FileGood(layout, t, mem, h, moved)
      /\ (mem.built /\ ~mem.loaded => work.head = disk.head)
      /\ (~mem.built => NotBuilt(layout, disk, work, tx, moved, auto))
  BY DEF TableInv, TableGood
<1>3. FileGood(layout, t, mem, HeadNow(t, mem), moved)
  <2>1. CASE mem.built
    <3>1. HeadNow(t, mem) = h
      BY <1>2, <2>1 DEF HeadNow
    <3> QED BY <1>2, <3>1
  <2>2. CASE ~mem.built
    BY <1>2, <2>2, UnbuiltFile
  <2> QED BY <2>1, <2>2
<1>4. ~mem.built => NotBuilt(layout, t, t, no, moved, auto)
  BY <1>2 DEF NotBuilt, Idle
<1>5. TableGood(layout, t, t, no, mem, moved, auto)
  BY <1>1, <1>2, <1>3, <1>4 DEF TableGood, Idle
<1> QED BY <1>1, <1>5 DEF TableInv

LEMMA CommitStep == TableInv /\ Commit => TableInv'
<1> SUFFICES ASSUME TableInv, Commit PROVE TableInv'
  OBVIOUS
<1>1. /\ Idle /\ work' = work /\ disk' = work /\ tx' = FALSE /\ UNCHANGED << layout, mem, moved, auto >>
  BY DEF Commit
<1>2. work \in {work, disk}
  OBVIOUS
<1> QED BY <1>1, <1>2, EndStep

LEMMA RollbackStep == TableInv /\ Rollback => TableInv'
<1> SUFFICES ASSUME TableInv, Rollback PROVE TableInv'
  OBVIOUS
<1>1. /\ Idle /\ work' = disk /\ disk' = disk /\ tx' = FALSE /\ UNCHANGED << layout, mem, moved, auto >>
  BY DEF Rollback
<1>2. disk \in {work, disk}
  OBVIOUS
<1> QED BY <1>1, <1>2, EndStep

(* A new connection on a file.                                             *)
LEMMA ConnectedFacts ==
  ASSUME NEW lay \in {"graph", "ivf"}, NEW d, Shape(d), NEW mv \in BOOLEAN,
         d.state.built => Good(lay, d, d.state.next, d.head, d.state.hints, mv),
         ~d.state.built /\ Bare(d) => NoRows(d)
  PROVE  TableGood(lay, d, d, FALSE, Connected(d), mv, NoBuild)
<1> DEFINE no == FALSE
           k == Connected(d)
<1>1. no \in BOOLEAN /\ ~no
  OBVIOUS
<1>2. k = [built |-> d.state.built, next |-> d.state.next, hints |-> d.state.hints,
           loaded |-> no, head |-> << >>]
  BY DEF Connected
<1> HIDE DEF k, no
<1>3. /\ k.built = d.state.built /\ k.next = d.state.next /\ k.hints = d.state.hints
      /\ k.loaded = no
  BY <1>2
<1>4. /\ d.state.built \in BOOLEAN /\ d.state.next \in Nat /\ d.state.hints \in BOOLEAN
  BY DEF Shape
<1>5. MemType(k)
  <2>1. k = [built |-> k.built, next |-> k.next, hints |-> k.hints, loaded |-> k.loaded, head |-> k.head]
    BY <1>2
  <2> QED BY <1>1, <1>3, <1>4, <2>1 DEF MemType
<1>6. HeadNow(d, k) = d.head
  BY <1>1, <1>3 DEF HeadNow
<1>7. FileGood(lay, d, k, d.head, mv)
  BY <1>3, <1>4 DEF FileGood
<1>8. AutoType(NoBuild) /\ NoBuild.pc = "idle"
  BY DEF NoBuild, AutoType
<1>9. ~k.built => NotBuilt(lay, d, d, no, mv, NoBuild)
  BY <1>3, <1>8 DEF NotBuilt
<1>10. TableGood(lay, d, d, no, k, mv, NoBuild)
  BY <1>1, <1>5, <1>6, <1>7, <1>8, <1>9 DEF TableGood
<1> QED BY <1>10 DEF k, no

LEMMA ReopenStep == TableInv /\ Reopen => TableInv'
<1> SUFFICES ASSUME TableInv, Reopen PROVE TableInv'
  OBVIOUS
<1>1. /\ work' = disk /\ disk' = disk /\ tx' = FALSE /\ mem' = Connected(disk) /\ auto' = NoBuild
      /\ UNCHANGED << layout, moved >>
  BY DEF Reopen
<1>2. /\ layout \in {"graph", "ivf"} /\ moved \in BOOLEAN /\ AutoType(auto)
      /\ FileGood(layout, disk, mem, HeadNow(work, mem), moved)
      /\ (~tx => disk = work) /\ (~mem.built => NotBuilt(layout, disk, work, tx, moved, auto))
  BY DEF TableInv, TableGood
<1>3. /\ Shape(disk)
      /\ disk.state.built => Good(layout, disk, disk.state.next, disk.head, disk.state.hints, moved)
      /\ mem.built => disk.state.built \/ NoRows(disk)
  BY <1>2 DEF FileGood
<1>4. ~disk.state.built /\ Bare(disk) => NoRows(disk)
  <2>1. CASE mem.built
    BY <1>3, <2>1
  <2>2. CASE ~mem.built
    <3>1. auto.pc \in {"idle", "fallback", "train", "state"}
      BY <1>2 DEF AutoType
    <3> QED BY <1>2, <2>2, <3>1 DEF NotBuilt
  <2> QED BY <2>1, <2>2
<1>5. TableGood(layout, disk, disk, FALSE, Connected(disk), moved, NoBuild)
  BY <1>2, <1>3, <1>4, ConnectedFacts
<1> QED BY <1>1, <1>5 DEF TableInv

LEMMA StartGood == Init => TableInv
<1> SUFFICES ASSUME Init PROVE TableInv
  OBVIOUS
<1> DEFINE none == << >>
           no == FALSE
           e == EmptyFile
<1>1. layout \in {"graph", "ivf"}
  BY TableAssumption DEF Init
<1>2. e = [buffer |-> none, nodes |-> none, rowids |-> none, vectors |-> none, lists |-> none,
           head |-> none, state |-> [built |-> no, next |-> 0, hints |-> no],
           pages |-> [nodes |-> none, vectors |-> none, lists |-> none], top |-> 0]
  BY DEF EmptyFile
<1>3. DOMAIN none = {} /\ no \in BOOLEAN /\ ~no
  OBVIOUS
<1>4. /\ disk = e /\ work = e /\ tx = no /\ mem = Connected(e) /\ moved = no /\ auto = NoBuild
  BY DEF Init
<1> HIDE DEF none, no, e
<1> DEFINE st == [built |-> no, next |-> 0, hints |-> no]
           p == [nodes |-> none, vectors |-> none, lists |-> none]
<1>5. /\ st \in [built : BOOLEAN, next : Nat, hints : BOOLEAN] /\ ~st.built
      /\ p.nodes = none /\ p.vectors = none /\ p.lists = none
  BY <1>3
<1>6. /\ e.buffer = none /\ e.nodes = none /\ e.rowids = none /\ e.vectors = none /\ e.lists = none
      /\ e.head = none /\ e.state = st /\ e.pages = p /\ e.top = 0
  BY <1>2
<1>7. Buffer(none)
  BY <1>3 DEF Buffer
<1>8. NoRows(e)
  BY <1>6 DEF NoRows, none
<1>9. Shape(e)
  <2> HIDE DEF st
  <2>1. e = [buffer |-> e.buffer, nodes |-> e.nodes, rowids |-> e.rowids,
             vectors |-> e.vectors, lists |-> e.lists, head |-> e.head,
             state |-> e.state, pages |-> e.pages, top |-> e.top]
    BY <1>2
  <2>2. p = [nodes |-> p.nodes, vectors |-> p.vectors, lists |-> p.lists]
    BY <1>5
  <2> QED BY <1>5, <1>6, <1>7, <2>1, <2>2 DEF Shape
<1>10. ~e.state.built
  BY <1>5, <1>6
<1>11. TableGood(layout, e, e, FALSE, Connected(e), no, NoBuild)
  BY <1>1, <1>3, <1>8, <1>9, <1>10, ConnectedFacts
<1> QED BY <1>4, <1>11 DEF TableInv, no

-----------------------------------------------------------------------------
(***************************************************************************)
(* The invariant is kept.                                                  *)
(***************************************************************************)
LEMMA StepGood == TableInv /\ [Next]_vars => TableInv'
<1> SUFFICES ASSUME TableInv, [Next]_vars PROVE TableInv'
  OBVIOUS
<1>1. CASE Build
  BY <1>1, BuildStep
<1>2. CASE AutoStart
  BY <1>2, AutoStartStep
<1>3. CASE AutoRows
  BY <1>3, AutoRowsStep
<1>4. CASE AutoState
  BY <1>4, AutoStateStep
<1>5. CASE AutoFails \/ FallbackDone
  BY <1>5, AutoEndStep
<1>6. CASE Query
  BY <1>6, QueryStep DEF Query
<1>7. CASE \E r \in RowIds, v \in Vecs : Insert(r, v) \/ InsertUndone(r, v)
  BY <1>7, InsertStep, InsertUndoneStep
<1>8. CASE \E r \in RowIds : Delete(r) \/ UpdateRefused(r)
  BY <1>8, DeleteStep, UpdateRefusedStep
<1>9. CASE \E r, to \in RowIds, v \in Vecs : Update(r, to, v)
  BY <1>9, UpdateStep
<1>10. CASE Finalize
  BY <1>10, FinalizeStep
<1>11. CASE Vacuum
  BY <1>11, VacuumStep
<1>12. CASE Begin
  BY <1>12, BeginStep
<1>13. CASE Commit
  BY <1>13, CommitStep
<1>14. CASE Rollback
  BY <1>14, RollbackStep
<1>15. CASE Reopen
  BY <1>15, ReopenStep
<1>16. CASE UNCHANGED vars
  <2>1. /\ layout' = layout /\ disk' = disk /\ work' = work /\ tx' = tx
        /\ mem' = mem /\ moved' = moved /\ auto' = auto
    BY <1>16 DEF vars
  <2> QED BY <2>1 DEF TableInv
<1> QED BY <1>1, <1>2, <1>3, <1>4, <1>5, <1>6, <1>7, <1>8, <1>9, <1>10, <1>11, <1>12,
           <1>13, <1>14, <1>15, <1>16 DEF Next

-----------------------------------------------------------------------------
(***************************************************************************)
(* Pages.  No two rows share a page, whatever table they are of; the       *)
(* ranges of a list directory are page numbers.                            *)
(***************************************************************************)
Apart(p, top) ==
  /\ \A u \in Tables : IsFiniteSet(DOMAIN p[u]) /\ DOMAIN p[u] \subseteq Nat
  /\ \A u \in Tables : \A k \in DOMAIN p[u] : p[u][k] \in 1 .. top
  /\ \A u, w \in Tables : \A k \in DOMAIN p[u], l \in DOMAIN p[w] :
       p[u][k] = p[w][l] => u = w /\ k = l

HeadPages(head) ==
  \A L \in DOMAIN head : head[L] \in [n : Nat, first : Nat, last : Nat]

IsFile(t) ==
  /\ t = [buffer |-> t.buffer, nodes |-> t.nodes, rowids |-> t.rowids,
          vectors |-> t.vectors, lists |-> t.lists, head |-> t.head,
          state |-> t.state, pages |-> t.pages, top |-> t.top]
  /\ t.pages = [nodes |-> t.pages.nodes, vectors |-> t.pages.vectors, lists |-> t.pages.lists]
  /\ t.top \in Nat

Paged(lay, t) ==
  /\ IsFile(t) /\ Apart(t.pages, t.top)
  /\ \A u \in Tables : DOMAIN t.pages[u] = DOMAIN t[u]
  /\ lay = "ivf" => HeadPages(t.head)

PagedMem(lay, m) == lay = "ivf" /\ m.loaded => HeadPages(m.head)

PagesInv == Paged(layout, disk) /\ Paged(layout, work) /\ PagedMem(layout, mem)

(* Pages of one table given out anew, some taken from the table itself.    *)
LEMMA ApartStays ==
  ASSUME NEW p, NEW top \in Nat, Apart(p, top), NEW tab \in Tables, NEW q, NEW new \in Nat,
         top <= new, \A u \in Tables : u # tab => q[u] = p[u],
         IsFiniteSet(DOMAIN q[tab]), DOMAIN q[tab] \subseteq Nat,
         \A k \in DOMAIN q[tab] :
           \/ \E l \in DOMAIN p[tab] : q[tab][k] = p[tab][l]
           \/ q[tab][k] \in top + 1 .. new,
         \A k, l \in DOMAIN q[tab] : q[tab][k] = q[tab][l] => k = l
  PROVE  Apart(q, new)
<1>1. /\ \A u \in Tables : IsFiniteSet(DOMAIN p[u]) /\ DOMAIN p[u] \subseteq Nat
      /\ \A u \in Tables : \A k \in DOMAIN p[u] : p[u][k] \in 1 .. top
      /\ \A u, w \in Tables : \A k \in DOMAIN p[u], l \in DOMAIN p[w] :
           p[u][k] = p[w][l] => u = w /\ k = l
  BY DEF Apart
<1>2. \A u \in Tables : IsFiniteSet(DOMAIN q[u]) /\ DOMAIN q[u] \subseteq Nat
  BY <1>1
<1>3. \A k \in DOMAIN q[tab] : q[tab][k] \in 1 .. new
  BY <1>1
<1>4. \A u \in Tables : \A k \in DOMAIN q[u] : q[u][k] \in 1 .. new
  <2> TAKE u \in Tables
  <2> TAKE k \in DOMAIN q[u]
  <2>1. CASE u = tab
    BY <1>3, <2>1
  <2>2. CASE u # tab
    <3>1. q[u] = p[u]
      BY <2>2
    <3>2. k \in DOMAIN p[u] /\ p[u][k] \in 1 .. top
      BY <1>1, <3>1
    <3> QED BY <3>1, <3>2
  <2> QED BY <2>1, <2>2
<1>5. ASSUME NEW w \in Tables, w # tab, NEW k \in DOMAIN q[tab], NEW l \in DOMAIN q[w]
      PROVE  q[tab][k] # q[w][l]
  <2>1. q[w] = p[w]
    BY <1>5
  <2>2. l \in DOMAIN p[w] /\ p[w][l] \in 1 .. top
    BY <1>1, <2>1
  <2>3. CASE \E j \in DOMAIN p[tab] : q[tab][k] = p[tab][j]
    BY <1>1, <1>5, <2>1, <2>2, <2>3
  <2>4. CASE q[tab][k] \in top + 1 .. new
    BY <2>1, <2>2, <2>4
  <2> QED BY <2>3, <2>4
<1>6. \A u, w \in Tables : \A k \in DOMAIN q[u], l \in DOMAIN q[w] :
        q[u][k] = q[w][l] => u = w /\ k = l
  <2> TAKE u, w \in Tables
  <2> TAKE k \in DOMAIN q[u], l \in DOMAIN q[w]
  <2> HAVE q[u][k] = q[w][l]
  <2>1. CASE u = tab /\ w = tab
    BY <2>1
  <2>2. CASE u = tab /\ w # tab
    BY <1>5, <2>2
  <2>3. CASE u # tab /\ w = tab
    BY <1>5, <2>3
  <2>4. CASE u # tab /\ w # tab
    <3>1. q[u] = p[u] /\ q[w] = p[w]
      BY <2>4
    <3> QED BY <1>1, <3>1
  <2> QED BY <2>1, <2>2, <2>3, <2>4
<1> QED BY <1>2, <1>4, <1>6 DEF Apart

(* A file with another table, and pages and head to go with it.            *)
WithTable(t, tab, rows, page, top) ==
  [t EXCEPT ![tab] = rows, !.pages[tab] = page, !.top = top]

LEMMA FileWith ==
  ASSUME NEW t, IsFile(t), NEW tab \in Tables, NEW rows, NEW page, NEW top \in Nat
  PROVE  LET z == WithTable(t, tab, rows, page, top)
         IN  /\ IsFile(z) /\ z.top = top /\ z.head = t.head /\ z.rowids = t.rowids
             /\ z[tab] = rows /\ z.pages[tab] = page
             /\ \A u \in Tables : u # tab => z[u] = t[u] /\ z.pages[u] = t.pages[u]
<1> DEFINE z == WithTable(t, tab, rows, page, top)
           nodes == IF tab = "nodes" THEN rows ELSE t.nodes
           vectors == IF tab = "vectors" THEN rows ELSE t.vectors
           lists == IF tab = "lists" THEN rows ELSE t.lists
           pages == [nodes |-> IF tab = "nodes" THEN page ELSE t.pages.nodes,
                     vectors |-> IF tab = "vectors" THEN page ELSE t.pages.vectors,
                     lists |-> IF tab = "lists" THEN page ELSE t.pages.lists]
<1>1. tab = "nodes" \/ tab = "vectors" \/ tab = "lists"
  BY DEF Tables
<1>2. [t.pages EXCEPT ![tab] = page] = pages
  BY <1>1 DEF IsFile
<1>3. z = [t EXCEPT ![tab] = rows, !.pages = [t.pages EXCEPT ![tab] = page], !.top = top]
  BY <1>1 DEF WithTable
<1> HIDE DEF z, pages
<1>4. z = [t EXCEPT ![tab] = rows, !.pages = pages, !.top = top]
  BY <1>2, <1>3
<1>5. z = [buffer |-> t.buffer, nodes |-> nodes, rowids |-> t.rowids,
           vectors |-> vectors, lists |-> lists, head |-> t.head,
           state |-> t.state, pages |-> pages, top |-> top]
  BY <1>1, <1>4 DEF IsFile
<1> HIDE DEF nodes, vectors, lists
<1>6. /\ z.buffer = t.buffer /\ z.nodes = nodes /\ z.rowids = t.rowids
      /\ z.vectors = vectors /\ z.lists = lists /\ z.head = t.head
      /\ z.state = t.state /\ z.pages = pages /\ z.top = top
  BY <1>5
<1>7. /\ pages.nodes = IF tab = "nodes" THEN page ELSE t.pages.nodes
      /\ pages.vectors = IF tab = "vectors" THEN page ELSE t.pages.vectors
      /\ pages.lists = IF tab = "lists" THEN page ELSE t.pages.lists
      /\ pages = [nodes |-> pages.nodes, vectors |-> pages.vectors, lists |-> pages.lists]
  BY DEF pages
<1>8. IsFile(z)
  BY <1>5, <1>6, <1>7 DEF IsFile
<1>9. z[tab] = rows /\ z.pages[tab] = page
  BY <1>1, <1>6, <1>7 DEF nodes, vectors, lists
<1>10. ASSUME NEW u \in Tables, u # tab
       PROVE  z[u] = t[u] /\ z.pages[u] = t.pages[u]
  <2>1. u = "nodes" \/ u = "vectors" \/ u = "lists"
    BY DEF Tables
  <2> QED BY <1>6, <1>7, <1>10, <2>1 DEF nodes, vectors, lists
<1> QED BY <1>6, <1>8, <1>9, <1>10 DEF z

(* InsertRow gives out one new page, and the pages of a few rows anew.     *)
LEMMA FreePages ==
  ASSUME NEW S, IsFiniteSet(S), NEW f, \A k, l \in S : f[k] = f[l] => k = l,
         NEW top, \A k \in S : f[k] # top,
         NEW free, \A x : x \in free <=> x = top \/ \E k \in S : x = f[k]
  PROVE  IsFiniteSet(free) /\ Cardinality(free) = Cardinality(S) + 1
<1> DEFINE T == {f[k] : k \in S}
           g == [k \in S |-> f[k]]
<1>0. free = T \cup {top}
  OBVIOUS
<1>1. g \in Bijection(S, T)
  BY DEF Bijection, Injection, IsInjective, Surjection
<1>2. ExistsBijection(S, T)
  BY <1>1 DEF ExistsBijection
<1>3. IsFiniteSet(T) /\ Cardinality(T) = Cardinality(S) /\ top \notin T
  BY <1>2, FS_Bijection
<1> HIDE DEF T
<1>4. IsFiniteSet(T \cup {top}) /\ Cardinality(T \cup {top}) = Cardinality(T) + 1
  BY <1>3, FS_AddElement
<1> QED BY <1>0, <1>3, <1>4

LEMMA SpreadPages ==
  ASSUME NEW p, NEW top \in Nat, Apart(p, top), NEW tab \in Tables,
         NEW key \in Nat, NEW window \in SUBSET DOMAIN p[tab]
  PROVE  LET W    == window \cup {key}
             free == {p[tab][k] : k \in window} \cup {top + 1}
             page == [k \in W |-> Nth(free, Place(W, k))]
         IN  /\ \A k \in W : page[k] \in free
             /\ \A k, l \in W : page[k] = page[l] => k = l
             /\ IsFiniteSet(W) /\ W \subseteq Nat
<1> DEFINE W    == window \cup {key}
           free == {p[tab][k] : k \in window} \cup {top + 1}
           page == [k \in W |-> Nth(free, Place(W, k))]
<1>1. /\ IsFiniteSet(DOMAIN p[tab]) /\ DOMAIN p[tab] \subseteq Nat
      /\ \A k \in DOMAIN p[tab] : p[tab][k] \in 1 .. top
      /\ \A k, l \in DOMAIN p[tab] : p[tab][k] = p[tab][l] => k = l
  BY DEF Apart
<1>2. /\ IsFiniteSet(window) /\ window \subseteq Nat
      /\ \A k, l \in window : p[tab][k] = p[tab][l] => k = l
      /\ \A k \in window : p[tab][k] # top + 1 /\ p[tab][k] \in Nat
  BY <1>1, FS_Subset
<1>3. /\ IsFiniteSet(W) /\ W \subseteq Nat
      /\ Cardinality(W) = IF key \in window THEN Cardinality(window) ELSE Cardinality(window) + 1
  BY <1>2, FS_AddElement
<1>4. IsFiniteSet(free) /\ Cardinality(free) = Cardinality(window) + 1 /\ free \subseteq Nat
  <2> DEFINE f == p[tab]
             one == top + 1
  <2>1. /\ \A k, l \in window : f[k] = f[l] => k = l
        /\ \A k \in window : f[k] # one /\ f[k] \in Nat
    BY <1>2
  <2>2. (\A x : x \in free <=> x = one \/ \E k \in window : x = f[k]) /\ one \in Nat
    OBVIOUS
  <2> HIDE DEF f, free, one
  <2>3. \A k \in window : f[k] # one
    BY <2>1
  <2>4. \A x : x \in free <=> x = one \/ \E k \in window : x = f[k]
    BY <2>2
  <2>5. IsFiniteSet(free) /\ Cardinality(free) = Cardinality(window) + 1
    <3>1. IsFiniteSet(window)
      BY <1>2
    <3>2. \A k, l \in window : f[k] = f[l] => k = l
      BY <2>1
    <3> QED BY <2>3, <2>4, <3>1, <3>2, FreePages
  <2> QED BY <2>1, <2>2, <2>5
<1>5. Cardinality(window) \in Nat
  BY <1>2, FS_CardinalityType
<1> HIDE DEF W, free
<1>6. /\ Cardinality(W) \in Nat
      /\ \A k \in W : Place(W, k) \in 0 .. Cardinality(W) - 1
      /\ \A k, l \in W : Place(W, k) = Place(W, l) => k = l
  BY <1>3, PlaceFacts
<1>7. \A n \in 0 .. Cardinality(free) - 1 : Nth(free, n) \in free /\ Place(free, Nth(free, n)) = n
  BY <1>4, PlaceFacts
<1>8. \A k \in W : Place(W, k) \in 0 .. Cardinality(free) - 1
  BY <1>3, <1>4, <1>5, <1>6
<1>9. \A k \in W : page[k] \in free /\ Place(free, page[k]) = Place(W, k)
  BY <1>7, <1>8
<1> HIDE DEF page
<1>10. \A k, l \in W : page[k] = page[l] => k = l
  BY <1>6, <1>9
<1> QED BY <1>3, <1>9, <1>10 DEF W, free, page

LEMMA InsertedPages ==
  ASSUME NEW lay, NEW t, Paged(lay, t), NEW tab \in Tables, NEW key \in Nat, NEW row
  PROVE  LET z == InsertRow(t, tab, key, row)
         IN  /\ Paged(lay, z) /\ z.head = t.head /\ z.rowids = t.rowids
             /\ z[tab] = Put(t[tab], key, row)
             /\ \A u \in Tables : u # tab => z[u] = t[u]
<1> DEFINE p      == t.pages
           keys   == DOMAIN t[tab]
           at     == Place(keys, key)
           window == IF \A k \in keys : k < key THEN {}
                     ELSE {k \in keys : Place(keys, k) \in at - 1 .. at + 1}
           W      == window \cup {key}
           free   == {p[tab][k] : k \in window} \cup {t.top + 1}
           page   == [k \in W |-> Nth(free, Place(W, k))]
           q      == Over(page, p[tab])
           rows   == Put(t[tab], key, row)
           z      == InsertRow(t, tab, key, row)
<1>1. z = WithTable(t, tab, rows, q, t.top + 1)
  BY DEF InsertRow, WithTable
<1>2. /\ IsFile(t) /\ Apart(p, t.top) /\ t.top \in Nat /\ t.top + 1 \in Nat
      /\ \A u \in Tables : DOMAIN p[u] = DOMAIN t[u]
      /\ lay = "ivf" => HeadPages(t.head)
  BY DEF Paged, IsFile
<1>3. window \in SUBSET DOMAIN p[tab]
  BY <1>2
<1> HIDE DEF window, q, rows, z, p
<1>4. /\ IsFile(z) /\ z.top = t.top + 1 /\ z.head = t.head /\ z.rowids = t.rowids
      /\ z[tab] = rows /\ z.pages[tab] = q
      /\ \A u \in Tables : u # tab => z[u] = t[u] /\ z.pages[u] = p[u]
  BY <1>1, <1>2, FileWith DEF p
<1>5. /\ \A k \in W : page[k] \in free
      /\ \A k, l \in W : page[k] = page[l] => k = l
      /\ IsFiniteSet(W) /\ W \subseteq Nat
  BY <1>2, <1>3, SpreadPages
<1>6. /\ IsFiniteSet(DOMAIN p[tab]) /\ DOMAIN p[tab] \subseteq Nat
      /\ \A k \in DOMAIN p[tab] : p[tab][k] \in 1 .. t.top
      /\ \A k, l \in DOMAIN p[tab] : p[tab][k] = p[tab][l] => k = l
  BY <1>2 DEF Apart
<1>7. DOMAIN page = W
  OBVIOUS
<1>8. \A k \in W : (\E l \in window : page[k] = p[tab][l]) \/ page[k] = t.top + 1
  BY <1>5
<1> HIDE DEF page
<1>9. /\ DOMAIN q = W \cup DOMAIN p[tab]
      /\ \A k \in W : q[k] = page[k]
      /\ \A k \in DOMAIN p[tab] : k \notin W => q[k] = p[tab][k]
  BY <1>7 DEF q, Over
<1>10. IsFiniteSet(DOMAIN q) /\ DOMAIN q \subseteq Nat
  <2> DEFINE D == DOMAIN p[tab]
  <2>1. IsFiniteSet(D) /\ D \subseteq Nat /\ DOMAIN q = W \cup D
    BY <1>6, <1>9
  <2> HIDE DEF D, W
  <2>2. IsFiniteSet(W \cup D)
    BY <1>5, <2>1, FS_Union
  <2> QED BY <1>5, <2>1, <2>2
<1>11. \A k \in DOMAIN q : (\E l \in DOMAIN p[tab] : q[k] = p[tab][l]) \/ q[k] \in t.top + 1 .. t.top + 1
  <2> TAKE k \in DOMAIN q
  <2>1. CASE k \in W
    BY <1>2, <1>3, <1>8, <1>9, <2>1
  <2>2. CASE k \notin W
    BY <1>9, <2>2
  <2> QED BY <2>1, <2>2
<1>12. \A k, l \in DOMAIN q : q[k] = q[l] => k = l
  <2>1. ASSUME NEW k \in W, NEW l \in DOMAIN p[tab], l \notin W PROVE q[k] # q[l]
    <3>1. q[k] = page[k] /\ q[l] = p[tab][l] /\ p[tab][l] # t.top + 1
      BY <1>2, <1>6, <1>9, <2>1
    <3>2. \A j \in window : p[tab][j] # p[tab][l]
      BY <1>3, <1>6, <2>1
    <3> QED BY <1>8, <3>1, <3>2
  <2>2. \A k, l \in W : q[k] = q[l] => k = l
    BY <1>5, <1>9
  <2>3. \A k, l \in DOMAIN p[tab] : k \notin W /\ l \notin W /\ q[k] = q[l] => k = l
    BY <1>6, <1>9
  <2> QED BY <1>9, <2>1, <2>2, <2>3
<1>13. Apart(z.pages, t.top + 1)
  <2>1. t.top <= t.top + 1
    BY <1>2
  <2>2. \A u \in Tables : u # tab => z.pages[u] = p[u]
    BY <1>4
  <2> HIDE DEF W
  <2> QED BY <1>2, <1>4, <1>10, <1>11, <1>12, <2>1, <2>2, ApartStays
<1>14. DOMAIN q = DOMAIN rows
  <2>1. DOMAIN rows = DOMAIN t[tab] \cup {key}
    BY DEF rows, Put
  <2> QED BY <1>2, <1>3, <1>9, <2>1
<1>15. \A u \in Tables : DOMAIN z.pages[u] = DOMAIN z[u]
  BY <1>2, <1>4, <1>14
<1>16. Paged(lay, z)
  BY <1>2, <1>4, <1>13, <1>15 DEF Paged
<1> QED BY <1>4, <1>16 DEF z, rows

(* Lay gives out pages at the end.                                         *)
LEMMA LaidPages ==
  ASSUME NEW t, IsFile(t), Apart(t.pages, t.top), NEW tab \in Tables, DOMAIN t.pages[tab] = {},
         NEW rows, IsFiniteSet(DOMAIN rows), DOMAIN rows \subseteq Nat
  PROVE  LET z == Lay(t, tab, rows)
         IN  /\ IsFile(z) /\ Apart(z.pages, z.top) /\ z.head = t.head
             /\ z[tab] = Over(rows, t[tab]) /\ DOMAIN z.pages[tab] = DOMAIN rows
             /\ \A u \in Tables : u # tab => z[u] = t[u] /\ z.pages[u] = t.pages[u]
<1> DEFINE p == t.pages
           D == DOMAIN rows
           page == [k \in D |-> t.top + 1 + Place(D, k)]
           q == Over(page, p[tab])
           new == t.top + Cardinality(D)
           over == Over(rows, t[tab])
           z == Lay(t, tab, rows)
<1>1. z = WithTable(t, tab, over, q, new)
  BY DEF Lay, WithTable
<1>2. t.top \in Nat /\ Cardinality(D) \in Nat
  BY FS_CardinalityType DEF IsFile
<1>3. /\ \A k \in D : Place(D, k) \in 0 .. Cardinality(D) - 1
      /\ \A k, l \in D : Place(D, k) = Place(D, l) => k = l
  <2>1. IsFiniteSet(D) /\ D \subseteq Nat
    OBVIOUS
  <2> HIDE DEF D
  <2> QED BY <2>1, PlaceFacts
<1>4. new \in Nat /\ t.top <= new
  BY <1>2
<1>5. DOMAIN q = D /\ \A k \in D : q[k] = t.top + 1 + Place(D, k)
  BY DEF Over
<1> HIDE DEF q, over, z, D, p
<1>6. \A k \in D : q[k] \in t.top + 1 .. new
  BY <1>2, <1>3, <1>5
<1>7. \A k, l \in D : q[k] = q[l] => k = l
  BY <1>2, <1>3, <1>5
<1> HIDE DEF new
<1>8. /\ IsFile(z) /\ z.top = new /\ z.head = t.head
      /\ z[tab] = over /\ z.pages[tab] = q
      /\ \A u \in Tables : u # tab => z[u] = t[u] /\ z.pages[u] = p[u]
  BY <1>1, <1>4, FileWith DEF p
<1>9. Apart(z.pages, new)
  <2>1. IsFiniteSet(DOMAIN q) /\ DOMAIN q \subseteq Nat
    BY <1>5 DEF D
  <2>2. \A u \in Tables : u # tab => z.pages[u] = p[u]
    BY <1>8
  <2>3. Apart(p, t.top)
    BY DEF p
  <2> QED BY <1>2, <1>4, <1>5, <1>6, <1>7, <1>8, <2>1, <2>2, <2>3, ApartStays
<1> QED BY <1>5, <1>8, <1>9 DEF z, over, p, D

NoPages == [nodes |-> << >>, vectors |-> << >>, lists |-> << >>]

LEMMA ApartNone == ASSUME NEW top PROVE Apart(NoPages, top)
<1> DEFINE none == << >>
<1>1. DOMAIN none = {} /\ IsFiniteSet({})
  BY FS_EmptySet
<1> HIDE DEF none
<1>2. \A u \in Tables : NoPages[u] = none
  BY DEF NoPages, Tables, none
<1> HIDE DEF none
<1> QED BY <1>1, <1>2 DEF Apart

LEMMA VacuumedPages ==
  ASSUME NEW lay, NEW t, Paged(lay, t) PROVE Paged(lay, VacuumFile(t))
<1> DEFINE e1 == [t EXCEPT !.pages = EmptyFile.pages, !.top = 0]
           e2 == Lay(e1, "nodes", t.nodes)
           e3 == Lay(e2, "vectors", t.vectors)
           z == Lay(e3, "lists", t.lists)
           zero == 0
<1>1. VacuumFile(t) = z /\ EmptyFile.pages = NoPages
  BY DEF VacuumFile, EmptyFile, NoPages
<1>2. /\ IsFile(t) /\ (lay = "ivf" => HeadPages(t.head))
      /\ \A u \in Tables : IsFiniteSet(DOMAIN t[u]) /\ DOMAIN t[u] \subseteq Nat
  BY DEF Paged, Apart
<1>3. \A u \in Tables : NoPages[u] = << >> /\ DOMAIN NoPages[u] = {}
  BY DEF NoPages, Tables
<1>4. "nodes" \in Tables /\ "vectors" \in Tables /\ "lists" \in Tables
  BY DEF Tables
<1>5. /\ \A u \in Tables : e1[u] = t[u]
      /\ e1.pages = NoPages /\ e1.top = 0 /\ e1.head = t.head /\ IsFile(e1)
  <2> DEFINE none == EmptyFile.pages
  <2>1. e1 = [t EXCEPT !.pages = none, !.top = zero]
    OBVIOUS
  <2> HIDE DEF none, e1
  <2>2. e1 = [buffer |-> t.buffer, nodes |-> t.nodes, rowids |-> t.rowids,
              vectors |-> t.vectors, lists |-> t.lists, head |-> t.head,
              state |-> t.state, pages |-> none, top |-> zero]
    BY <1>2, <2>1 DEF IsFile
  <2>3. /\ e1.buffer = t.buffer /\ e1.nodes = t.nodes /\ e1.rowids = t.rowids
        /\ e1.vectors = t.vectors /\ e1.lists = t.lists /\ e1.head = t.head
        /\ e1.state = t.state /\ e1.pages = none /\ e1.top = zero
    BY <2>2
  <2>4. none = [nodes |-> none.nodes, vectors |-> none.vectors, lists |-> none.lists]
    BY <1>1 DEF none, NoPages
  <2>5. IsFile(e1)
    BY <2>2, <2>3, <2>4 DEF IsFile
  <2>6. \A u \in Tables : e1[u] = t[u]
    BY <2>3 DEF Tables
  <2> QED BY <1>1, <2>3, <2>5, <2>6 DEF none
<1> HIDE DEF e1, zero
<1>6. Apart(e1.pages, e1.top)
  BY <1>5, ApartNone
<1>7. /\ IsFile(e2) /\ Apart(e2.pages, e2.top) /\ e2.head = t.head
      /\ e2.nodes = Over(t.nodes, t.nodes) /\ DOMAIN e2.pages.nodes = DOMAIN t.nodes
      /\ e2.vectors = t.vectors /\ e2.lists = t.lists
      /\ DOMAIN e2.pages.vectors = {} /\ DOMAIN e2.pages.lists = {}
  <2> DEFINE tab == "nodes"
             rows == t.nodes
  <2>1. tab \in Tables /\ DOMAIN e1.pages[tab] = {} /\ e1[tab] = rows
    BY <1>3, <1>4, <1>5
  <2>2. IsFiniteSet(DOMAIN rows) /\ DOMAIN rows \subseteq Nat
    BY <1>2, <1>4
  <2>3. e2 = Lay(e1, tab, rows)
    OBVIOUS
  <2>4. "vectors" # tab /\ "lists" # tab
    OBVIOUS
  <2> HIDE DEF e2, rows, tab
  <2>5. /\ IsFile(e2) /\ Apart(e2.pages, e2.top) /\ e2.head = e1.head
        /\ e2[tab] = Over(rows, e1[tab]) /\ DOMAIN e2.pages[tab] = DOMAIN rows
        /\ \A u \in Tables : u # tab => e2[u] = e1[u] /\ e2.pages[u] = e1.pages[u]
    BY <1>5, <1>6, <2>1, <2>2, <2>3, LaidPages
  <2>6. e2[tab] = Over(rows, rows) /\ DOMAIN e2.pages[tab] = DOMAIN rows
    BY <2>1, <2>5
  <2>7. e2.vectors = t.vectors /\ e2.lists = t.lists
        /\ DOMAIN e2.pages.vectors = {} /\ DOMAIN e2.pages.lists = {}
    BY <1>3, <1>4, <1>5, <2>4, <2>5
  <2> QED BY <1>5, <2>5, <2>6, <2>7 DEF tab, rows
<1> HIDE DEF e2
<1>8. /\ IsFile(e3) /\ Apart(e3.pages, e3.top) /\ e3.head = t.head
      /\ e3.vectors = Over(t.vectors, t.vectors) /\ DOMAIN e3.pages.vectors = DOMAIN t.vectors
      /\ e3.nodes = e2.nodes /\ DOMAIN e3.pages.nodes = DOMAIN t.nodes
      /\ e3.lists = t.lists /\ DOMAIN e3.pages.lists = {}
  <2> DEFINE tab == "vectors"
             rows == t.vectors
  <2>1. tab \in Tables /\ DOMAIN e2.pages[tab] = {} /\ e2[tab] = rows
    BY <1>4, <1>7
  <2>2. IsFiniteSet(DOMAIN rows) /\ DOMAIN rows \subseteq Nat
    BY <1>2, <1>4
  <2>3. e3 = Lay(e2, tab, rows)
    OBVIOUS
  <2>4. "nodes" # tab /\ "lists" # tab
    OBVIOUS
  <2> HIDE DEF e3, rows, tab
  <2>5. /\ IsFile(e3) /\ Apart(e3.pages, e3.top) /\ e3.head = e2.head
        /\ e3[tab] = Over(rows, e2[tab]) /\ DOMAIN e3.pages[tab] = DOMAIN rows
        /\ \A u \in Tables : u # tab => e3[u] = e2[u] /\ e3.pages[u] = e2.pages[u]
    BY <1>7, <2>1, <2>2, <2>3, LaidPages
  <2>6. e3[tab] = Over(rows, rows) /\ DOMAIN e3.pages[tab] = DOMAIN rows
    BY <2>1, <2>5
  <2>7. e3.nodes = e2.nodes /\ e3.lists = t.lists
        /\ DOMAIN e3.pages.nodes = DOMAIN t.nodes /\ DOMAIN e3.pages.lists = {}
    BY <1>4, <1>7, <2>4, <2>5
  <2> QED BY <1>7, <2>5, <2>6, <2>7 DEF tab, rows
<1> HIDE DEF e3
<1>9. /\ IsFile(z) /\ Apart(z.pages, z.top) /\ z.head = t.head
      /\ z.lists = Over(t.lists, t.lists) /\ DOMAIN z.pages.lists = DOMAIN t.lists
      /\ z.nodes = e2.nodes /\ DOMAIN z.pages.nodes = DOMAIN t.nodes
      /\ z.vectors = e3.vectors /\ DOMAIN z.pages.vectors = DOMAIN t.vectors
  <2> DEFINE tab == "lists"
             rows == t.lists
  <2>1. tab \in Tables /\ DOMAIN e3.pages[tab] = {} /\ e3[tab] = rows
    BY <1>4, <1>8
  <2>2. IsFiniteSet(DOMAIN rows) /\ DOMAIN rows \subseteq Nat
    BY <1>2, <1>4
  <2>3. z = Lay(e3, tab, rows)
    OBVIOUS
  <2>4. "nodes" # tab /\ "vectors" # tab
    OBVIOUS
  <2> HIDE DEF z, rows, tab
  <2>5. /\ IsFile(z) /\ Apart(z.pages, z.top) /\ z.head = e3.head
        /\ z[tab] = Over(rows, e3[tab]) /\ DOMAIN z.pages[tab] = DOMAIN rows
        /\ \A u \in Tables : u # tab => z[u] = e3[u] /\ z.pages[u] = e3.pages[u]
    BY <1>8, <2>1, <2>2, <2>3, LaidPages
  <2>6. z[tab] = Over(rows, rows) /\ DOMAIN z.pages[tab] = DOMAIN rows
    BY <2>1, <2>5
  <2>7. z.nodes = e2.nodes /\ z.vectors = e3.vectors
        /\ DOMAIN z.pages.nodes = DOMAIN t.nodes /\ DOMAIN z.pages.vectors = DOMAIN t.vectors
    BY <1>4, <1>8, <2>4, <2>5
  <2> QED BY <1>8, <2>5, <2>6, <2>7 DEF tab, rows
<1> HIDE DEF z
<1>10. \A u \in Tables : DOMAIN z.pages[u] = DOMAIN z[u]
  <2>1. DOMAIN z.pages.nodes = DOMAIN z.nodes
    BY <1>7, <1>9, OverSame
  <2>2. DOMAIN z.pages.vectors = DOMAIN z.vectors
    BY <1>8, <1>9, OverSame
  <2>3. DOMAIN z.pages.lists = DOMAIN z.lists
    BY <1>9, OverSame
  <2> QED BY <2>1, <2>2, <2>3 DEF Tables
<1> QED BY <1>1, <1>2, <1>9, <1>10 DEF Paged

(* What changes no key and no page keeps the pages apart.                  *)
Filled(t, buffer, nodes, rowids, lists, head, state) ==
  [buffer |-> buffer, nodes |-> nodes, rowids |-> rowids, vectors |-> t.vectors,
   lists |-> lists, head |-> head, state |-> state, pages |-> t.pages, top |-> t.top]

LEMMA FilledPages ==
  ASSUME NEW lay, NEW t, Paged(lay, t), NEW buffer, NEW nodes, DOMAIN nodes = DOMAIN t.nodes,
         NEW rowids, NEW lists, DOMAIN lists = DOMAIN t.lists,
         NEW head, lay = "ivf" => HeadPages(head), NEW state
  PROVE  LET z == Filled(t, buffer, nodes, rowids, lists, head, state)
         IN Paged(lay, z) /\ z.head = head
<1> DEFINE z == Filled(t, buffer, nodes, rowids, lists, head, state)
<1>1. /\ z.buffer = buffer /\ z.nodes = nodes /\ z.rowids = rowids /\ z.vectors = t.vectors
      /\ z.lists = lists /\ z.head = head /\ z.state = state /\ z.pages = t.pages /\ z.top = t.top
      /\ z = [buffer |-> z.buffer, nodes |-> z.nodes, rowids |-> z.rowids,
              vectors |-> z.vectors, lists |-> z.lists, head |-> z.head,
              state |-> z.state, pages |-> z.pages, top |-> z.top]
  BY DEF Filled
<1> HIDE DEF z
<1>2. IsFile(z) /\ Apart(z.pages, z.top)
  BY <1>1 DEF Paged, IsFile
<1>3. \A u \in Tables : DOMAIN z.pages[u] = DOMAIN z[u]
  BY <1>1 DEF Paged, Tables
<1> QED BY <1>1, <1>2, <1>3 DEF Paged, z

LEMMA BufferPages ==
  ASSUME NEW lay, NEW t, Paged(lay, t), NEW b
  PROVE  LET z == [t EXCEPT !.buffer = b] IN Paged(lay, z) /\ z.head = t.head
<1> DEFINE z == [t EXCEPT !.buffer = b]
<1>1. z = Filled(t, b, t.nodes, t.rowids, t.lists, t.head, t.state)
  BY DEF Filled, Paged, IsFile
<1> HIDE DEF z
<1>2. lay = "ivf" => HeadPages(t.head)
  BY DEF Paged
<1>3. Paged(lay, z) /\ z.head = t.head
  BY <1>1, <1>2, FilledPages
<1> QED BY <1>3 DEF z

LEMMA SavedPages ==
  ASSUME NEW lay, NEW t, Paged(lay, t), NEW m
  PROVE  Paged(lay, Saved(t, m)) /\ Saved(t, m).head = t.head
<1> DEFINE st == [built |-> m.built, next |-> m.next, hints |-> m.hints]
           z == Saved(t, m)
<1>1. z = [t EXCEPT !.state = st]
  BY DEF Saved
<1> HIDE DEF z, st
<1>2. z = Filled(t, t.buffer, t.nodes, t.rowids, t.lists, t.head, st)
  BY <1>1 DEF Filled, Paged, IsFile
<1>3. lay = "ivf" => HeadPages(t.head)
  BY DEF Paged
<1>4. Paged(lay, z) /\ z.head = t.head
  BY <1>2, <1>3, FilledPages
<1> QED BY <1>4 DEF z

LEMMA DeletedPages ==
  ASSUME NEW lay, NEW t, Paged(lay, t), NEW r
  PROVE  /\ Paged(lay, DeleteNode(t, r)) /\ Paged(lay, DeleteEntry(t, r))
         /\ DeleteNode(t, r).head = t.head /\ DeleteEntry(t, r).head = t.head
<1> DEFINE R == Restrict(t.rowids, DOMAIN t.rowids \ {r})
           N == [t.nodes EXCEPT ![t.rowids[r]].dead = TRUE]
           y == DeleteNode(t, r)
           z == DeleteEntry(t, r)
<1>1. y = [t EXCEPT !.nodes = N, !.rowids = R] /\ DOMAIN N = DOMAIN t.nodes
  <2>1. y = [t EXCEPT !.nodes = N, !.rowids = R]
    BY DEF DeleteNode
  <2>2. DOMAIN N = DOMAIN t.nodes
    <3>1. \A f, i, c : DOMAIN [f EXCEPT ![i] = c] = DOMAIN f
      OBVIOUS
    <3>2. N = [t.nodes EXCEPT ![t.rowids[r]] = [t.nodes[t.rowids[r]] EXCEPT !.dead = TRUE]]
      OBVIOUS
    <3> HIDE DEF N
    <3> QED BY <3>1, <3>2
  <2> QED BY <2>1, <2>2
<1>2. \E C : z = [t EXCEPT !.rowids = R, !.lists = C] /\ DOMAIN C = DOMAIN t.lists
  <2> DEFINE at == t.rowids[r]
             hit == {k \in KeysOf(t, at.list) :
                       at.slot \in t.lists[k].first .. t.lists[k].first + Len(t.lists[k].ents) - 1}
             Flag(e) == IF e.row = r THEN [e EXCEPT !.dead = TRUE, !.page = 0] ELSE e
             Flagged(c) == [c EXCEPT !.ents[at.slot - c.first + 1] = Flag(@)]
             C == [k \in DOMAIN t.lists |-> IF k \in hit THEN Flagged(t.lists[k]) ELSE t.lists[k]]
  <2>1. z = [t EXCEPT !.rowids = R, !.lists = C]
    BY DEF DeleteEntry
  <2>2. DOMAIN C = DOMAIN t.lists
    OBVIOUS
  <2> HIDE DEF C, R
  <2> QED BY <2>1, <2>2
<1> HIDE DEF R, N, y, z
<1>3. PICK C : z = [t EXCEPT !.rowids = R, !.lists = C] /\ DOMAIN C = DOMAIN t.lists
  BY <1>2
<1>4. y = Filled(t, t.buffer, N, R, t.lists, t.head, t.state)
  BY <1>1 DEF Filled, Paged, IsFile
<1>5. z = Filled(t, t.buffer, t.nodes, R, C, t.head, t.state)
  BY <1>3 DEF Filled, Paged, IsFile
<1>6. lay = "ivf" => HeadPages(t.head)
  BY DEF Paged
<1>7. Paged(lay, y) /\ y.head = t.head
  BY <1>1, <1>4, <1>6, FilledPages
<1>8. Paged(lay, z) /\ z.head = t.head
  BY <1>3, <1>5, <1>6, FilledPages
<1> QED BY <1>7, <1>8 DEF y, z

LEMMA InsertedNodePages ==
  ASSUME NEW lay, NEW t, Paged(lay, t), NEW m, m.next \in Nat, NEW r, NEW v
  PROVE  LET z == InsertNode(t, m, r, v) IN Paged(lay, z) /\ z.head = t.head
<1> DEFINE sel == NewNbrs(t, m, v)
           id == m.next
           new == [row |-> r, dead |-> FALSE, vec |-> v, nbrs |-> Refs(sel)]
           tab == "nodes"
           added == InsertRow(t, tab, id, new)
           back  == {sel[i].id : i \in DOMAIN sel}
           Back(i) == LinkBack(added.nodes[i], Ref(id, 0, v))
           R == Put(added.rowids, r, id)
           N == [i \in DOMAIN added.nodes |-> IF i \in back THEN Back(i) ELSE added.nodes[i]]
           z == InsertNode(t, m, r, v)
<1>1. z = [added EXCEPT !.rowids = R, !.nodes = N]
  BY DEF InsertNode, LinkedNode
<1>2. DOMAIN N = DOMAIN added.nodes
  OBVIOUS
<1>3. tab \in Tables
  BY DEF Tables
<1> HIDE DEF sel, new, back, R, N, z, tab, id
<1>4. Paged(lay, added) /\ added.head = t.head
  BY <1>3, InsertedPages DEF id
<1> HIDE DEF added
<1>5. z = Filled(added, added.buffer, N, R, added.lists, added.head, added.state)
  BY <1>1, <1>4 DEF Filled, Paged, IsFile
<1>6. lay = "ivf" => HeadPages(added.head)
  BY <1>4 DEF Paged
<1>7. Paged(lay, z) /\ z.head = added.head
  BY <1>2, <1>4, <1>5, <1>6, FilledPages
<1> QED BY <1>4, <1>7 DEF z

LEMMA CountedPages ==
  ASSUME NEW head, HeadPages(head), NEW L PROVE HeadPages(CountChunk(head, L))
<1> DEFINE h == CountChunk(head, L)
           D == [n : Nat, first : Nat, last : Nat]
<1>1. DOMAIN h = DOMAIN head /\ \A l \in DOMAIN head : h[l] = IF l = L THEN [head[L] EXCEPT !.n = @ + 1] ELSE head[l]
  BY DEF CountChunk
<1>2. \A c \in D : [c EXCEPT !.n = @ + 1] \in D
  OBVIOUS
<1> HIDE DEF h
<1>3. \A l \in DOMAIN h : h[l] \in D
  BY <1>1, <1>2 DEF HeadPages
<1> QED BY <1>3 DEF HeadPages, h

LEMMA InsertedEntryPages ==
  ASSUME NEW lay, NEW t, Paged(lay, t), NEW m, m.next \in Nat, HeadPages(m.head), NEW r, NEW v,
         ListFor(m.head, v) \in DOMAIN m.head, ListFor(m.head, v) \in Nat
  PROVE  LET z == InsertEntry(t, m, r, v)
         IN Paged(lay, z) /\ HeadPages(z.head)
<1> DEFINE L == ListFor(m.head, v)
           chunk == [first |-> m.next, page |-> 0, ents |-> << Entry(r, v) >>]
           key == ListKey(L, m.head[L].n)
           one == "lists"
           two == "vectors"
           y == InsertRow(t, one, key, chunk)
           put == InsertRow(y, two, m.next, v)
           R == Put(put.rowids, r, [list |-> L, slot |-> m.next])
           H == CountChunk(m.head, L)
           z == InsertEntry(t, m, r, v)
<1>1. z = [put EXCEPT !.rowids = R, !.head = H]
  BY DEF InsertEntry
<1>2. one \in Tables /\ two \in Tables
  BY DEF Tables
<1>3. key \in Nat
  <2>1. m.head[L].n \in Nat
    BY DEF HeadPages
  <2> QED BY <2>1, SMT DEF ListKey, Stride
<1>4. HeadPages(H)
  BY CountedPages
<1> HIDE DEF L, chunk, key, one, two, R, H, z
<1>5. Paged(lay, y)
  BY <1>2, <1>3, InsertedPages
<1> HIDE DEF y
<1>6. Paged(lay, put)
  BY <1>2, <1>5, InsertedPages
<1> HIDE DEF put
<1>7. z = Filled(put, put.buffer, put.nodes, R, put.lists, H, put.state)
  BY <1>1, <1>6 DEF Filled, Paged, IsFile
<1>8. Paged(lay, z) /\ z.head = H
  BY <1>4, <1>6, <1>7, FilledPages
<1> QED BY <1>4, <1>8 DEF z

LEMMA FinalizedGraphPages ==
  ASSUME NEW lay, lay # "ivf", NEW t, Paged(lay, t), NEW m
  PROVE  Paged(lay, FinalizeGraph(t, m))
<1> DEFINE N == [i \in DOMAIN t.nodes |->
                   IF i < m.next
                   THEN [t.nodes[i] EXCEPT !.nbrs = Hinted(t, m.next, @)]
                   ELSE t.nodes[i]]
           H == Hinted(t, m.next, m.head)
           z == FinalizeGraph(t, m)
<1>1. z = [t EXCEPT !.nodes = N, !.head = H]
  BY DEF FinalizeGraph
<1>2. DOMAIN N = DOMAIN t.nodes
  OBVIOUS
<1> HIDE DEF N, H, z
<1>3. z = Filled(t, t.buffer, N, t.rowids, t.lists, H, t.state)
  BY <1>1 DEF Filled, Paged, IsFile
<1>4. Paged(lay, z)
  BY <1>2, <1>3, FilledPages
<1> QED BY <1>4 DEF z

(* The last chunk of a list.                                               *)
LEMMA LastKey ==
  ASSUME NEW t, DOMAIN t.lists \subseteq Nat, NEW L, KeysOf(t, L) # {}
  PROVE  (CHOOSE k \in KeysOf(t, L) : \A l \in KeysOf(t, L) : l <= k) \in KeysOf(t, L)
<1> DEFINE K == KeysOf(t, L)
           b == (L + 1) * Stride
           S == {n \in Nat : \A k \in K : k <= n}
<1>1. K \subseteq Nat /\ \A k \in K : L = ListOfKey(k)
  BY DEF KeysOf
<1>2. PICK one \in K : L = ListOfKey(one)
  BY <1>1
<1>3. L \in Nat
  BY <1>1, <1>2, KeyParts
<1>4. b \in Nat /\ \A k \in K : k <= b
  BY <1>1, <1>3, SMT DEF ListOfKey, Stride
<1> HIDE DEF K, b
<1>5. S \subseteq Nat /\ S # {}
  BY <1>4
<1>6. PICK n \in S : \A y \in S : n <= y
  BY <1>5, LeastNatural
<1>7. n \in K
  <2>1. SUFFICES ASSUME n \notin K PROVE FALSE
    OBVIOUS
  <2>2. one <= n /\ one # n /\ one \in Nat
    BY <1>1, <1>2, <1>6, <2>1
  <2>3. n - 1 \in Nat /\ \A k \in K : k <= n - 1
    BY <1>1, <1>6, <2>1, <2>2
  <2>4. n - 1 \in S /\ ~(n <= n - 1)
    BY <1>6, <2>3
  <2> QED BY <1>6, <2>4
<1>8. \E k \in K : \A l \in K : l <= k
  BY <1>6, <1>7
<1> QED BY <1>8 DEF K

LEMMA FinalizedIvfPages ==
  ASSUME NEW lay, NEW t, Paged(lay, t), NEW m, HeadPages(m.head)
  PROVE  Paged(lay, FinalizeIvf(t, m))
<1> DEFINE C == [k \in DOMAIN t.lists |->
                   IF ListOfKey(k) \in DOMAIN m.head
                   THEN PagedChunk(t, m.next, t.lists[k]) ELSE t.lists[k]]
           H == [L \in DOMAIN m.head |-> Ranged(t, m.head, L)]
           D == [n : Nat, first : Nat, last : Nat]
           z == FinalizeIvf(t, m)
<1>1. z = [t EXCEPT !.head = H, !.lists = C]
  BY DEF FinalizeIvf
<1>2. DOMAIN C = DOMAIN t.lists
  OBVIOUS
<1>3. /\ DOMAIN t.lists \subseteq Nat
      /\ \A k \in DOMAIN t.lists : t.pages.lists[k] \in Nat
  <2>1. "lists" \in Tables
    BY DEF Tables
  <2>2. /\ DOMAIN t.pages.lists = DOMAIN t.lists /\ DOMAIN t.pages.lists \subseteq Nat
        /\ \A k \in DOMAIN t.pages.lists : t.pages.lists[k] \in 1 .. t.top
    BY <2>1 DEF Paged, Apart
  <2> QED BY <2>2 DEF Paged, IsFile
<1>4. ASSUME NEW L \in DOMAIN m.head PROVE Ranged(t, m.head, L) \in D
  <2> DEFINE o == m.head[L]
             keys == KeysOf(t, L)
             top == CHOOSE k \in keys : \A l \in keys : l <= k
             F == IF ListKey(L, 0) \in keys THEN t.pages.lists[ListKey(L, 0)] ELSE o.first
             G == t.pages.lists[top]
             h == Ranged(t, m.head, L)
  <2>1. o \in D
    BY DEF HeadPages
  <2>2. h = o \/ h = [o EXCEPT !.first = 0, !.last = 0] \/ (keys # {} /\ h = [o EXCEPT !.first = F, !.last = G])
    BY DEF Ranged
  <2>3. keys \subseteq DOMAIN t.lists
    BY DEF KeysOf
  <2>4. keys # {} => top \in keys
    BY <1>3, LastKey
  <2> HIDE DEF keys, top, o, h
  <2>5. F \in Nat /\ (keys # {} => G \in Nat)
    BY <1>3, <2>1, <2>3, <2>4
  <2> HIDE DEF F, G
  <2>6. \A f, l \in Nat : [o EXCEPT !.first = f, !.last = l] \in D
    BY <2>1
  <2>7. h \in D
    BY <2>1, <2>2, <2>5, <2>6
  <2> QED BY <2>7 DEF h
<1>5. HeadPages(H)
  BY <1>4 DEF HeadPages
<1> HIDE DEF C, H, z
<1>6. z = Filled(t, t.buffer, t.nodes, t.rowids, C, H, t.state)
  BY <1>1 DEF Filled, Paged, IsFile
<1>7. Paged(lay, z)
  BY <1>2, <1>5, <1>6, FilledPages
<1> QED BY <1>7 DEF z

(* A build lays its rows out in empty tables.                              *)
LEMMA FirstPages ==
  ASSUME NEW lay, NEW t, Paged(lay, t), NEW tab \in Tables, DOMAIN t[tab] = {},
         NEW rows, IsFiniteSet(DOMAIN rows), DOMAIN rows \subseteq Nat
  PROVE  LET z == Lay(t, tab, rows)
         IN  /\ Paged(lay, z) /\ z.head = t.head
             /\ \A u \in Tables : u # tab => z[u] = t[u]
<1> DEFINE z == Lay(t, tab, rows)
<1>1. /\ IsFile(t) /\ Apart(t.pages, t.top) /\ \A u \in Tables : DOMAIN t.pages[u] = DOMAIN t[u]
      /\ lay = "ivf" => HeadPages(t.head)
  BY DEF Paged
<1>2. DOMAIN t.pages[tab] = {}
  BY <1>1
<1>3. /\ IsFile(z) /\ Apart(z.pages, z.top) /\ z.head = t.head
      /\ z[tab] = Over(rows, t[tab]) /\ DOMAIN z.pages[tab] = DOMAIN rows
      /\ \A u \in Tables : u # tab => z[u] = t[u] /\ z.pages[u] = t.pages[u]
  BY <1>1, <1>2, LaidPages
<1> HIDE DEF z
<1>4. DOMAIN z[tab] = DOMAIN rows
  BY <1>3 DEF Over
<1>5. \A u \in Tables : DOMAIN z.pages[u] = DOMAIN z[u]
  BY <1>1, <1>3, <1>4
<1>6. Paged(lay, z)
  BY <1>1, <1>3, <1>5 DEF Paged
<1> QED BY <1>3, <1>6 DEF z

(* An empty file, its pages counted anew.                                  *)
LEMMA BarePages ==
  ASSUME NEW lay, NEW t, IsFile(t), NoRows(t), NEW b, NEW top \in Nat
  PROVE  LET z == [t EXCEPT !.buffer = b, !.top = top]
         IN Paged(lay, z) /\ \A u \in Tables : DOMAIN z[u] = {}
<1> DEFINE z == [t EXCEPT !.buffer = b, !.top = top]
           none == << >>
<1>1. /\ t.nodes = none /\ t.vectors = none /\ t.lists = none /\ t.head = none
      /\ t.pages = NoPages /\ DOMAIN none = {}
  BY DEF NoRows, NoPages
<1>2. NoPages = [nodes |-> none, vectors |-> none, lists |-> none]
  BY DEF NoPages
<1> HIDE DEF none
<1>3. z = [buffer |-> b, nodes |-> t.nodes, rowids |-> t.rowids, vectors |-> t.vectors,
           lists |-> t.lists, head |-> t.head, state |-> t.state, pages |-> t.pages, top |-> top]
  <2>1. z = [t EXCEPT !.buffer = b, !.top = top]
    OBVIOUS
  <2> HIDE DEF z
  <2>2. t = [buffer |-> t.buffer, nodes |-> t.nodes, rowids |-> t.rowids,
             vectors |-> t.vectors, lists |-> t.lists, head |-> t.head,
             state |-> t.state, pages |-> t.pages, top |-> t.top]
    BY DEF IsFile
  <2> QED BY <2>1, <2>2
<1> HIDE DEF z
<1>4. /\ z.buffer = b /\ z.nodes = none /\ z.rowids = t.rowids /\ z.vectors = none
      /\ z.lists = none /\ z.head = none /\ z.state = t.state /\ z.pages = NoPages /\ z.top = top
  BY <1>1, <1>3
<1>5. NoPages.nodes = none /\ NoPages.vectors = none /\ NoPages.lists = none
  BY <1>2
<1>6. IsFile(z)
  BY <1>1, <1>2, <1>3, <1>4, <1>5 DEF IsFile
<1>7. \A u \in Tables : z[u] = none /\ NoPages[u] = none
  BY <1>4, <1>5 DEF Tables
<1>8. Apart(z.pages, z.top)
  BY <1>4, ApartNone
<1>9. HeadPages(z.head)
  BY <1>1, <1>4 DEF HeadPages
<1>10. Paged(lay, z)
  BY <1>4, <1>6, <1>7, <1>8, <1>9 DEF Paged
<1> QED BY <1>1, <1>7, <1>10 DEF z

LEMMA BuiltGraphPages ==
  ASSUME NEW lay, lay # "ivf", NEW t, IsFile(t), NoRows(t),
         NEW rows, Buffer(rows), NEW entries
  PROVE  Paged(lay, BuildGraph(t, rows, entries))
<1> DEFINE ids  == DOMAIN rows
           n    == Cardinality(ids)
           all  == [i \in 1 .. n |-> [id |-> i - 1, page |-> 0, code |-> rows[Nth(ids, i - 1)]]]
           Linked(i) == SelectNbrs(Around(all[i].code, Sub(all, DOMAIN all \ {i})))
           node == [i \in 0 .. n - 1 |->
                      [row |-> Nth(ids, i), dead |-> FALSE, vec |-> rows[Nth(ids, i)],
                       nbrs |-> Coded(Linked(i + 1))]]
           none == << >>
           tab  == "nodes"
           zero == 0
           bare == [t EXCEPT !.buffer = none, !.top = zero]
           laid == Lay(bare, tab, node)
           R    == [r \in ids |-> Place(ids, r)]
           H    == Coded(Sub(all, {i \in DOMAIN all : i - 1 \in entries}))
           z    == BuildGraph(t, rows, entries)
<1>1. z = [laid EXCEPT !.rowids = R, !.head = H]
  BY DEF BuildGraph
<1>2. n \in Nat
  <2>1. IsFiniteSet(ids)
    BY FileAssumption, FS_Subset DEF Buffer
  <2> HIDE DEF ids
  <2> QED BY <2>1, FS_CardinalityType
<1>3. DOMAIN node = 0 .. n - 1
  OBVIOUS
<1>4. tab \in Tables /\ zero \in Nat
  BY DEF Tables
<1>5. Paged(lay, bare) /\ DOMAIN bare[tab] = {}
  <2> HIDE DEF zero, none, tab, node, bare
  <2>1. LET y == [t EXCEPT !.buffer = none, !.top = zero]
        IN Paged(lay, y) /\ \A u \in Tables : DOMAIN y[u] = {}
    BY <1>4, BarePages
  <2> QED BY <1>4, <2>1 DEF bare
<1> HIDE DEF n, node, none, tab, zero, bare, R, H, z
<1>6. IsFiniteSet(DOMAIN node) /\ DOMAIN node \subseteq Nat
  BY <1>2, <1>3, IntervalSize
<1>7. Paged(lay, laid)
  BY <1>4, <1>5, <1>6, FirstPages
<1> HIDE DEF laid
<1>8. z = Filled(laid, laid.buffer, laid.nodes, R, laid.lists, H, laid.state)
  BY <1>1, <1>7 DEF Filled, Paged, IsFile
<1>9. Paged(lay, z)
  BY <1>7, <1>8, FilledPages
<1> QED BY <1>9 DEF z

LEMMA KeysForFinite ==
  ASSUME NEW rows, Buffer(rows), DOMAIN rows # {}
  PROVE  IsFiniteSet(KeysFor(rows)) /\ KeysFor(rows) \subseteq Nat
<1> DEFINE nl == NumLists(rows)
<1>1. nl \in Nat /\ nl * Stride \in Nat
  <2>1. nl \in 1 .. NLists /\ NLists \in Nat
    BY RowsInLists, IvfAssumption
  <2> QED BY <2>1, SMT DEF Stride
<1>2. \A k \in KeysFor(rows) : k \in Nat /\ k < nl * Stride
  <2> TAKE k \in KeysFor(rows)
  <2>1. k \in Nat /\ ListOfKey(k) \in 0 .. nl - 1
    BY KeysForFacts
  <2> QED BY <1>1, <2>1, SMT DEF ListOfKey, Stride
<1> QED BY <1>1, <1>2, BoundedIsFinite

LEMMA BuiltIvfPages ==
  ASSUME NEW lay, NEW t, IsFile(t), NoRows(t), NEW rows, Buffer(rows), DOMAIN rows # {}
  PROVE  Paged(lay, BuildIvf(t, rows)) /\ HeadPages(BuildIvf(t, rows).head)
<1> DEFINE n     == Cardinality(DOMAIN rows)
           nl    == NumLists(rows)
           lists == ListsFor(rows)
           vecs  == VectorsFor(rows)
           t0    == [t EXCEPT !.top = n]
           one   == Lay(t0, "lists", lists)
           two   == Lay(one, "vectors", vecs)
           R     == [r \in DOMAIN rows |-> [list |-> InList(rows, r), slot |-> SlotIn(rows, r)]]
           H     == [L \in 0 .. nl - 1 |-> [n |-> ChunksOf(rows, L), first |-> 0, last |-> 0]]
           z     == BuildIvf(t, rows)
<1>1. z = [two EXCEPT !.rowids = R, !.head = H]
  BY BuildIvfIs
<1>2. n \in Nat /\ nl \in Nat
  BY RowsInLists, IvfAssumption
<1>3. HeadPages(H)
  <2>1. \A L \in 0 .. nl - 1 : L \in Nat /\ ChunksOf(rows, L) \in Nat
    BY <1>2, ChunksOfFacts
  <2> QED BY <2>1 DEF HeadPages
<1>4. "lists" \in Tables /\ "vectors" \in Tables
  BY DEF Tables
<1>5. /\ IsFiniteSet(DOMAIN lists) /\ DOMAIN lists \subseteq Nat
      /\ IsFiniteSet(DOMAIN vecs) /\ DOMAIN vecs \subseteq Nat
  <2>1. DOMAIN lists = KeysFor(rows)
    BY DEF ListsFor
  <2>2. DOMAIN vecs = 0 .. n - 1
    BY DEF VectorsFor
  <2> HIDE DEF lists, vecs, n
  <2>3. IsFiniteSet(0 .. n - 1) /\ 0 .. n - 1 \subseteq Nat
    BY <1>2, IntervalSize
  <2> QED BY <2>1, <2>2, <2>3, KeysForFinite
<1> HIDE DEF n, nl, lists, vecs, R, H, z
<1>6. Paged(lay, t0) /\ \A u \in Tables : DOMAIN t0[u] = {}
  <2> DEFINE b == t.buffer
             y == [t EXCEPT !.buffer = b, !.top = n]
  <2>1. Paged(lay, y) /\ \A u \in Tables : DOMAIN y[u] = {}
    <3> HIDE DEF b
    <3> QED BY <1>2, BarePages
  <2>2. y = t0
    BY DEF IsFile
  <2> QED BY <2>1, <2>2
<1> HIDE DEF t0
<1>7. Paged(lay, one) /\ DOMAIN one.vectors = {}
  <2> DEFINE tab == "lists"
  <2>1. tab \in Tables /\ "vectors" # tab
    BY <1>4
  <2>2. one = Lay(t0, tab, lists)
    OBVIOUS
  <2> HIDE DEF one, tab
  <2>3. Paged(lay, one) /\ \A u \in Tables : u # tab => one[u] = t0[u]
    BY <1>5, <1>6, <2>1, <2>2, FirstPages
  <2> QED BY <1>4, <1>6, <2>1, <2>3
<1> HIDE DEF one
<1>8. Paged(lay, two)
  <2> DEFINE tab == "vectors"
  <2>1. tab \in Tables /\ DOMAIN one[tab] = {}
    BY <1>4, <1>7
  <2>2. two = Lay(one, tab, vecs)
    OBVIOUS
  <2> HIDE DEF two, tab
  <2> QED BY <1>5, <1>7, <2>1, <2>2, FirstPages
<1> HIDE DEF two
<1>9. z = Filled(two, two.buffer, two.nodes, R, two.lists, H, two.state)
  BY <1>1, <1>8 DEF Filled, Paged, IsFile
<1>10. Paged(lay, z) /\ z.head = H
  BY <1>3, <1>8, <1>9, FilledPages
<1> QED BY <1>3, <1>10 DEF z

-----------------------------------------------------------------------------
(***************************************************************************)
(* Every step keeps the pages apart.                                       *)
(***************************************************************************)
LEMMA EffectPages ==
  ASSUME PagesInv, NEW z, NEW k, Effect(z, k), Paged(layout, z), PagedMem(layout, k)
  PROVE  PagesInv'
<1>1. /\ work' = z /\ mem' = k /\ layout' = layout
      /\ disk' = IF tx THEN disk ELSE z
  BY DEF Effect
<1>2. Paged(layout, disk')
  BY <1>1 DEF PagesInv
<1> QED BY <1>1, <1>2 DEF PagesInv

LEMMA StatementPages ==
  ASSUME PagesInv, NEW z, NEW k, Statement(z, k), Paged(layout, z), PagedMem(layout, k)
  PROVE  PagesInv'
<1>1. Effect(z, k)
  BY DEF Statement
<1> QED BY <1>1, EffectPages

LEMMA LoadedPages ==
  ASSUME NEW lay, NEW t, Paged(lay, t), NEW m, MemType(m), PagedMem(lay, m)
  PROVE  PagedMem(lay, Loaded(t, m)) /\ (lay = "ivf" => HeadPages(Loaded(t, m).head))
<1> DEFINE k == Loaded(t, m)
<1>1. k.loaded /\ k.head = HeadNow(t, m)
  BY LoadedFacts
<1> HIDE DEF k
<1>2. lay = "ivf" => HeadPages(t.head)
  BY DEF Paged
<1>3. lay = "ivf" => HeadPages(k.head)
  BY <1>1, <1>2 DEF HeadNow, PagedMem
<1> QED BY <1>3 DEF PagedMem, k

LEMMA TypeNow == TableInv => MemType(mem) /\ layout \in {"graph", "ivf"}
BY DEF TableInv, TableGood

LEMMA ReadyPages ==
  ASSUME TableInv, PagesInv
  PROVE  /\ MemType(Ready(work, mem)) /\ PagedMem(layout, Ready(work, mem))
         /\ Ready(work, mem).built = mem.built
         /\ layout = "ivf" /\ mem.built => HeadPages(Ready(work, mem).head)
<1> DEFINE k == Loaded(work, mem)
<1>1. MemType(mem) /\ Paged(layout, work) /\ PagedMem(layout, mem)
  BY TypeNow DEF PagesInv
<1>2. MemType(k) /\ k.built = mem.built
  BY <1>1, LoadedFacts
<1>3. PagedMem(layout, k) /\ (layout = "ivf" => HeadPages(k.head))
  BY <1>1, LoadedPages
<1> HIDE DEF k
<1>4. Ready(work, mem) = IF mem.built THEN k ELSE mem
  BY DEF Ready, k
<1> QED BY <1>1, <1>2, <1>3, <1>4

LEMMA HeadList ==
  ASSUME NEW t, NEW next, NEW head, IvfHead(t, next, head), NEW v \in Vecs
  PROVE  ListFor(head, v) \in DOMAIN head /\ ListFor(head, v) \in Nat
<1>1. PICK nl \in 1 .. NLists : Directory(head, nl, next)
  BY DEF IvfHead
<1>2. nl \in Nat /\ DOMAIN head = 0 .. nl - 1 /\ nl \in 1 .. NLists
  BY <1>1, IvfAssumption DEF Directory
<1>3. Cardinality(0 .. nl - 1) = nl
  BY <1>2, IntervalSize
<1>4. ListOf[nl] \in [Vecs -> 0 .. nl - 1]
  BY <1>2, IvfAssumption
<1>5. ListFor(head, v) = ListOf[nl][v]
  BY <1>2, <1>3 DEF ListFor
<1> QED BY <1>2, <1>4, <1>5

LEMMA AddedPages ==
  ASSUME TableInv, PagesInv, NEW t, Paged(layout, t), NEW r, NEW v \in Vecs
  PROVE  LET m == Ready(work, mem)
             y == AddedFile(t, m, r, v)
             k == AddedMem(y, m)
         IN  /\ Paged(layout, IF m.built THEN Saved(y, k) ELSE y)
             /\ PagedMem(layout, k) /\ PagedMem(layout, [k EXCEPT !.next = m.next])
<1> DEFINE m == Ready(work, mem)
           y == AddedFile(t, m, r, v)
           k == AddedMem(y, m)
           l == [k EXCEPT !.next = m.next]
<1>1. /\ MemType(m) /\ PagedMem(layout, m) /\ m.built = mem.built
      /\ layout = "ivf" /\ mem.built => HeadPages(m.head)
  BY ReadyPages
<1>2. ASSUME mem.built, layout = "ivf"
      PROVE  ListFor(m.head, v) \in DOMAIN m.head /\ ListFor(m.head, v) \in Nat
  <2>1. m = Loaded(work, mem)
    BY <1>2 DEF Ready
  <2> DEFINE n == Loaded(work, mem)
  <2>2. n.built /\ FileGood(layout, work, n, n.head, moved)
    BY <1>2, ReadyFacts DEF TableInv
  <2> HIDE DEF n
  <2>3. IvfHead(work, n.next, n.head)
    BY <1>2, <2>2 DEF FileGood, Good
  <2> QED BY <2>1, <2>3, HeadList DEF n
<1> HIDE DEF m
<1>3. CASE ~m.built
  <2> DEFINE b == Put(t.buffer, r, v)
  <2>1. y = [t EXCEPT !.buffer = b]
    BY <1>3 DEF AddedFile
  <2> HIDE DEF b, y
  <2>2. Paged(layout, y)
    BY <2>1, BufferPages
  <2>3. k = m
    BY <1>3 DEF AddedMem
  <2> HIDE DEF k
  <2>4. l.loaded = m.loaded /\ l.head = m.head
    BY <1>1, <2>3 DEF MemType
  <2> HIDE DEF l
  <2>5. PagedMem(layout, k) /\ PagedMem(layout, l)
    BY <1>1, <2>3, <2>4 DEF PagedMem
  <2> QED BY <1>3, <2>2, <2>5 DEF m, y, k, l
<1>4. CASE m.built
  <2>1. m.next \in Nat
    BY <1>1 DEF MemType
  <2>2. Paged(layout, y) /\ (layout = "ivf" => HeadPages(y.head))
    <3>1. CASE layout = "ivf"
      <4>1. y = InsertEntry(t, m, r, v)
        BY <1>4, <3>1 DEF AddedFile
      <4> HIDE DEF y
      <4> QED BY <1>1, <1>2, <1>4, <2>1, <3>1, <4>1, InsertedEntryPages
    <3>2. CASE layout # "ivf"
      <4>1. y = InsertNode(t, m, r, v)
        BY <1>4, <3>2 DEF AddedFile
      <4> HIDE DEF y
      <4> QED BY <2>1, <3>2, <4>1, InsertedNodePages
    <3> QED BY <3>1, <3>2
  <2> DEFINE h == IF layout = "ivf" THEN y.head ELSE m.head
  <2>3. k = [m EXCEPT !.next = @ + 1, !.head = h]
    BY <1>4 DEF AddedMem
  <2> HIDE DEF y, k, h
  <2>4. k = [built |-> m.built, next |-> m.next + 1, hints |-> m.hints, loaded |-> m.loaded, head |-> h]
    BY <1>1, <2>3 DEF MemType
  <2>5. k.head = h /\ l.head = h
    BY <2>4
  <2>6. layout = "ivf" => HeadPages(h)
    BY <2>2 DEF h
  <2> HIDE DEF l
  <2>7. PagedMem(layout, k) /\ PagedMem(layout, l)
    BY <2>5, <2>6 DEF PagedMem
  <2>8. Paged(layout, Saved(y, k))
    BY <2>2, SavedPages
  <2> QED BY <1>4, <2>7, <2>8 DEF m, y, k, l
<1> QED BY <1>3, <1>4

LEMMA RemovedPages ==
  ASSUME NEW t, Paged(layout, t), NEW m, NEW r PROVE Paged(layout, Removed(t, m, r))
<1> DEFINE b == Restrict(t.buffer, DOMAIN t.buffer \ {r})
           z == Removed(t, m, r)
           d == IF layout = "ivf" THEN DeleteEntry(t, r) ELSE DeleteNode(t, r)
<1>1. z = [t EXCEPT !.buffer = b] \/ z = t \/ z = Saved(d, m)
  BY DEF Removed
<1>2. Paged(layout, d)
  BY DeletedPages
<1> HIDE DEF b, z, d
<1>3. Paged(layout, z)
  BY <1>1, <1>2, BufferPages, SavedPages
<1> QED BY <1>3 DEF z

LEMMA BuiltPages ==
  ASSUME layout \in {"graph", "ivf"}, NEW t, Paged(layout, t), NoRows(t),
         NEW rows, Buffer(rows), DOMAIN rows # {}, NEW E
  PROVE  Paged(layout, BuildRows(t, rows, E))
<1>1. IsFile(t)
  BY DEF Paged
<1>2. CASE layout = "ivf"
  BY <1>1, <1>2, BuiltIvfPages DEF BuildRows
<1>3. CASE layout # "ivf"
  BY <1>1, <1>3, BuiltGraphPages DEF BuildRows
<1> QED BY <1>2, <1>3

LEMMA FinishedPages ==
  ASSUME NEW t, Paged(layout, t), NEW rows
  PROVE  Paged(layout, Finished(t, rows)) /\ PagedMem(layout, BuiltState(t, rows))
<1> DEFINE none == << >>
           b == [t EXCEPT !.buffer = none]
           k == BuiltState(t, rows)
<1>1. Finished(t, rows) = Saved(b, k)
  BY DEF Finished
<1>2. Paged(layout, b)
  <2> HIDE DEF none
  <2> QED BY BufferPages
<1>3. k.head = t.head
  BY DEF BuiltState
<1> HIDE DEF b, k
<1>4. layout = "ivf" => HeadPages(t.head)
  BY DEF Paged
<1>5. PagedMem(layout, k)
  BY <1>3, <1>4 DEF PagedMem
<1> QED BY <1>1, <1>2, <1>5, SavedPages DEF k

LEMMA BuildPages == TableInv /\ PagesInv /\ Build => PagesInv'
<1> SUFFICES ASSUME TableInv, PagesInv, Build PROVE PagesInv'
  OBVIOUS
<1> DEFINE rows == work.buffer
<1>1. /\ ~mem.built /\ DOMAIN rows # {} /\ Bare(work) /\ Idle
  BY DEF Build, Buildable, Statement, Bare
<1>2. layout \in {"graph", "ivf"} /\ Shape(work) /\ NotBuilt(layout, disk, work, tx, moved, auto)
  BY <1>1, UnbuiltFacts DEF TableInv
<1>3. NoRows(work) /\ Buffer(rows)
  BY <1>1, <1>2 DEF NotBuilt, Idle, Shape
<1>4. PICK E \in EntrySets(rows) :
        Statement(Finished(BuildRows(work, rows, E), rows), BuiltState(BuildRows(work, rows, E), rows))
  BY DEF Build
<1> DEFINE t == BuildRows(work, rows, E)
           z == Finished(t, rows)
           k == BuiltState(t, rows)
<1>5. Paged(layout, work)
  BY DEF PagesInv
<1> HIDE DEF rows
<1>6. Paged(layout, t)
  BY <1>1, <1>2, <1>3, <1>5, BuiltPages
<1> HIDE DEF t
<1>7. Paged(layout, z) /\ PagedMem(layout, k)
  BY <1>6, FinishedPages
<1>8. Statement(z, k)
  BY <1>4 DEF t
<1> HIDE DEF z, k
<1> QED BY <1>7, <1>8, StatementPages

LEMMA AutoStartPages == TableInv /\ PagesInv /\ AutoStart => PagesInv'
<1> SUFFICES ASSUME PagesInv, AutoStart PROVE PagesInv'
  OBVIOUS
<1> DEFINE none == << >>
           b == [work EXCEPT !.buffer = none]
           t == IF layout = "ivf" THEN work ELSE b
<1>1. Effect(t, mem)
  BY DEF AutoStart
<1>2. Paged(layout, work) /\ PagedMem(layout, mem)
  BY DEF PagesInv
<1>3. Paged(layout, b)
  <2> HIDE DEF none
  <2> QED BY <1>2, BufferPages
<1> HIDE DEF b
<1>4. Paged(layout, t)
  BY <1>2, <1>3
<1> HIDE DEF t
<1> QED BY <1>1, <1>2, <1>4, EffectPages

LEMMA AutoRowsPages == TableInv /\ PagesInv /\ AutoRows => PagesInv'
<1> SUFFICES ASSUME TableInv, PagesInv, AutoRows PROVE PagesInv'
  OBVIOUS
<1>1. PICK E \in EntrySets(auto.rows) :
        auto.pc = "train" /\ Effect(BuildRows(work, auto.rows, E), mem)
  BY DEF AutoRows
<1>2. ~mem.built
  BY <1>1 DEF TableInv, TableGood
<1>3. layout \in {"graph", "ivf"} /\ NotBuilt(layout, disk, work, tx, moved, auto)
  BY <1>2, UnbuiltFacts DEF TableInv
<1>4. NoRows(work) /\ Buffer(auto.rows) /\ DOMAIN auto.rows # {}
  BY <1>1, <1>3 DEF NotBuilt
<1>5. Paged(layout, work) /\ PagedMem(layout, mem)
  BY DEF PagesInv
<1> DEFINE t == BuildRows(work, auto.rows, E)
<1>6. Paged(layout, t)
  BY <1>3, <1>4, <1>5, BuiltPages
<1>7. Effect(t, mem)
  BY <1>1
<1> HIDE DEF t
<1> QED BY <1>5, <1>6, <1>7, EffectPages

LEMMA AutoStatePages == TableInv /\ PagesInv /\ AutoState => PagesInv'
<1> SUFFICES ASSUME PagesInv, AutoState PROVE PagesInv'
  OBVIOUS
<1> DEFINE z == Finished(work, auto.rows)
           k == BuiltState(work, auto.rows)
<1>1. Effect(z, k)
  BY DEF AutoState
<1>2. Paged(layout, work)
  BY DEF PagesInv
<1>3. Paged(layout, z) /\ PagedMem(layout, k)
  BY <1>2, FinishedPages
<1> HIDE DEF z, k
<1> QED BY <1>1, <1>3, EffectPages

LEMMA QueryPages == TableInv /\ PagesInv /\ Query => PagesInv'
<1> SUFFICES ASSUME TableInv, PagesInv, Query PROVE PagesInv'
  OBVIOUS
<1> DEFINE k == Loaded(work, mem)
<1>1. Statement(work, k)
  BY DEF Query
<1>2. Paged(layout, work) /\ PagedMem(layout, mem) /\ MemType(mem)
  BY TypeNow DEF PagesInv
<1>3. PagedMem(layout, k)
  BY <1>2, LoadedPages
<1> HIDE DEF k
<1> QED BY <1>1, <1>2, <1>3, StatementPages

LEMMA InsertPages ==
  ASSUME TableInv, PagesInv, NEW r, NEW v \in Vecs, Insert(r, v) PROVE PagesInv'
<1> DEFINE m == Ready(work, mem)
           y == AddedFile(work, m, r, v)
           k == AddedMem(y, m)
           z == IF m.built THEN Saved(y, k) ELSE y
<1>1. Statement(z, k)
  BY DEF Insert
<1>2. Paged(layout, work)
  BY DEF PagesInv
<1>3. Paged(layout, z) /\ PagedMem(layout, k)
  BY <1>2, AddedPages
<1> HIDE DEF z, k
<1> QED BY <1>1, <1>3, StatementPages

LEMMA InsertUndonePages ==
  ASSUME TableInv, PagesInv, NEW r, NEW v \in Vecs, InsertUndone(r, v) PROVE PagesInv'
<1> DEFINE m == Ready(work, mem)
           y == AddedFile(work, m, r, v)
           k == AddedMem(y, m)
           l == [k EXCEPT !.next = m.next]
<1>1. Statement(work, k) \/ Statement(work, l)
  BY DEF InsertUndone
<1>2. Paged(layout, work)
  BY DEF PagesInv
<1>3. PagedMem(layout, k) /\ PagedMem(layout, l)
  BY <1>2, AddedPages
<1> HIDE DEF k, l
<1> QED BY <1>1, <1>2, <1>3, StatementPages

LEMMA DeletePages == ASSUME PagesInv, NEW r, Delete(r) PROVE PagesInv'
<1> DEFINE z == Removed(work, mem, r)
<1>1. Statement(z, mem)
  BY DEF Delete
<1>2. Paged(layout, work) /\ PagedMem(layout, mem)
  BY DEF PagesInv
<1>3. Paged(layout, z)
  BY <1>2, RemovedPages
<1> HIDE DEF z
<1> QED BY <1>1, <1>2, <1>3, StatementPages

LEMMA UpdateRefusedPages ==
  ASSUME TableInv, PagesInv, NEW r, UpdateRefused(r) PROVE PagesInv'
<1> DEFINE z == Removed(work, mem, r)
           k == Ready(work, mem)
<1>1. Statement(z, k) \/ Statement(work, k)
  BY DEF UpdateRefused
<1>2. Paged(layout, work)
  BY DEF PagesInv
<1>3. Paged(layout, z) /\ PagedMem(layout, k)
  BY <1>2, RemovedPages, ReadyPages
<1> HIDE DEF z, k
<1> QED BY <1>1, <1>2, <1>3, StatementPages

LEMMA UpdatePages ==
  ASSUME TableInv, PagesInv, NEW r, NEW to, NEW v \in Vecs, Update(r, to, v) PROVE PagesInv'
<1> DEFINE m == Ready(work, mem)
           t == Removed(work, m, r)
           y == AddedFile(t, m, to, v)
           k == AddedMem(y, m)
           z == IF m.built THEN Saved(y, k) ELSE y
<1>1. Statement(z, k)
  BY DEF Update
<1>2. Paged(layout, work)
  BY DEF PagesInv
<1>3. Paged(layout, t)
  BY <1>2, RemovedPages
<1>4. Paged(layout, z) /\ PagedMem(layout, k)
  <2> HIDE DEF t
  <2> QED BY <1>3, AddedPages
<1> HIDE DEF z, k
<1> QED BY <1>1, <1>4, StatementPages

LEMMA FinalizePages == TableInv /\ PagesInv /\ Finalize => PagesInv'
<1> SUFFICES ASSUME TableInv, PagesInv, Finalize PROVE PagesInv'
  OBVIOUS
<1> DEFINE m == Loaded(work, mem)
           t == IF layout = "ivf" THEN FinalizeIvf(work, m) ELSE FinalizeGraph(work, m)
           yes == TRUE
           no == FALSE
           done == [m EXCEPT !.hints = yes, !.loaded = no]
           z == Saved(t, done)
<1>1. Effect(z, done)
  BY DEF Finalize
<1>2. Paged(layout, work) /\ PagedMem(layout, mem) /\ MemType(mem)
  BY TypeNow DEF PagesInv
<1>3. MemType(m) /\ (layout = "ivf" => HeadPages(m.head))
  BY <1>2, LoadedFacts, LoadedPages
<1>4. ~no
  OBVIOUS
<1> HIDE DEF m, no, yes
<1>5. Paged(layout, t)
  <2>1. CASE layout = "ivf"
    BY <1>2, <1>3, <2>1, FinalizedIvfPages
  <2>2. CASE layout # "ivf"
    BY <1>2, <2>2, FinalizedGraphPages
  <2> QED BY <2>1, <2>2
<1> HIDE DEF t
<1>6. done.loaded = no
  <2>1. done = [m EXCEPT !.hints = yes, !.loaded = no]
    OBVIOUS
  <2> HIDE DEF done
  <2>2. done = [built |-> m.built, next |-> m.next, hints |-> yes, loaded |-> no, head |-> m.head]
    BY <1>3, <2>1 DEF MemType
  <2> QED BY <2>2
<1> HIDE DEF done
<1>7. Paged(layout, z)
  BY <1>5, SavedPages
<1>8. PagedMem(layout, done)
  BY <1>4, <1>6 DEF PagedMem
<1> HIDE DEF z
<1> QED BY <1>1, <1>7, <1>8, EffectPages

LEMMA VacuumPages == PagesInv /\ Vacuum => PagesInv'
<1> SUFFICES ASSUME PagesInv, Vacuum PROVE PagesInv'
  OBVIOUS
<1> DEFINE z == VacuumFile(work)
<1>1. Effect(z, mem)
  BY DEF Vacuum
<1>2. Paged(layout, work) /\ PagedMem(layout, mem)
  BY DEF PagesInv
<1>3. Paged(layout, z)
  BY <1>2, VacuumedPages
<1> HIDE DEF z
<1> QED BY <1>1, <1>2, <1>3, EffectPages

LEMMA ReopenPages == PagesInv /\ Reopen => PagesInv'
<1> SUFFICES ASSUME PagesInv, Reopen PROVE PagesInv'
  OBVIOUS
<1>1. work' = disk /\ disk' = disk /\ layout' = layout /\ mem' = Connected(disk)
  BY DEF Reopen
<1>2. ~mem'.loaded
  BY <1>1 DEF Connected
<1> QED BY <1>1, <1>2 DEF PagesInv, PagedMem

LEMMA StartPages == Init => PagesInv
<1> SUFFICES ASSUME Init PROVE PagesInv
  OBVIOUS
<1> DEFINE none == << >>
           no == FALSE
           e == EmptyFile
           st == [built |-> no, next |-> 0, hints |-> no]
<1>1. disk = e /\ work = e /\ mem = Connected(e)
  BY DEF Init
<1>2. e = [buffer |-> none, nodes |-> none, rowids |-> none, vectors |-> none, lists |-> none,
           head |-> none, state |-> st, pages |-> NoPages, top |-> 0]
  BY DEF EmptyFile, NoPages
<1>3. DOMAIN none = {} /\ ~no
  OBVIOUS
<1>4. mem.loaded = no
  BY <1>1 DEF Connected
<1>5. /\ NoPages.nodes = none /\ NoPages.vectors = none /\ NoPages.lists = none
      /\ NoPages = [nodes |-> none, vectors |-> none, lists |-> none]
  BY DEF NoPages
<1> HIDE DEF none, no, e, st
<1>6. IsFile(e)
  BY <1>2, <1>5 DEF IsFile
<1>7. Apart(e.pages, e.top)
  BY <1>2, ApartNone
<1>8. \A u \in Tables : DOMAIN e.pages[u] = DOMAIN e[u]
  BY <1>2, <1>5 DEF Tables
<1>9. HeadPages(e.head)
  BY <1>2, <1>3 DEF HeadPages
<1>10. Paged(layout, e)
  BY <1>6, <1>7, <1>8, <1>9 DEF Paged
<1> QED BY <1>1, <1>3, <1>4, <1>10 DEF PagesInv, PagedMem

LEMMA StepPages == TableInv /\ PagesInv /\ [Next]_vars => PagesInv'
<1> SUFFICES ASSUME TableInv, PagesInv, [Next]_vars PROVE PagesInv'
  OBVIOUS
<1>1. CASE Build
  BY <1>1, BuildPages
<1>2. CASE AutoStart
  BY <1>2, AutoStartPages
<1>3. CASE AutoRows
  BY <1>3, AutoRowsPages
<1>4. CASE AutoState
  BY <1>4, AutoStatePages
<1>5. CASE AutoFails \/ FallbackDone \/ Begin \/ UNCHANGED vars
  <2>1. UNCHANGED << layout, disk, work, mem >>
    BY <1>5 DEF AutoFails, FallbackDone, Begin, vars
  <2> QED BY <2>1 DEF PagesInv
<1>6. CASE Query
  BY <1>6, QueryPages
<1>7. CASE \E r \in RowIds, v \in Vecs : Insert(r, v) \/ InsertUndone(r, v)
  BY <1>7, InsertPages, InsertUndonePages
<1>8. CASE \E r \in RowIds : Delete(r) \/ UpdateRefused(r)
  BY <1>8, DeletePages, UpdateRefusedPages
<1>9. CASE \E r, to \in RowIds, v \in Vecs : Update(r, to, v)
  BY <1>9, UpdatePages
<1>10. CASE Finalize
  BY <1>10, FinalizePages
<1>11. CASE Vacuum
  BY <1>11, VacuumPages
<1>12. CASE Commit \/ Rollback
  <2>1. /\ layout' = layout /\ mem' = mem
        /\ work' \in {work, disk} /\ disk' \in {work, disk}
    BY <1>12 DEF Commit, Rollback
  <2> QED BY <2>1 DEF PagesInv
<1>13. CASE Reopen
  BY <1>13, ReopenPages
<1> QED BY <1>1, <1>2, <1>3, <1>4, <1>5, <1>6, <1>7, <1>8, <1>9, <1>10, <1>11, <1>12, <1>13 DEF Next

-----------------------------------------------------------------------------
(***************************************************************************)
(* What follows from the invariant.                                        *)
(***************************************************************************)
(* What the connection may see of a built table.                           *)
LEMMA SeenFacts ==
  ASSUME TableInv, mem.built
  PROVE  /\ layout \in {"graph", "ivf"} /\ MemType(Now) /\ Now.hints = mem.hints
         /\ Good(layout, work, Now.next, Now.head, Now.hints, moved)
         /\ Good(layout, disk, Now.next, Now.head, Now.hints, moved)
<1> DEFINE k == Loaded(work, mem)
<1>1. /\ MemType(k) /\ k.built /\ k.hints = mem.hints
      /\ FileGood(layout, work, k, k.head, moved) /\ FileGood(layout, disk, k, k.head, moved)
  BY ReadyFacts DEF TableInv
<1>2. Now = k /\ layout \in {"graph", "ivf"}
  BY DEF Now, TableInv, TableGood
<1> HIDE DEF k
<1> QED BY <1>1, <1>2 DEF FileGood

LEMMA GoodIsAbove ==
  ASSUME NEW t, NEW m, NEW hints, NEW mv, Good(layout, t, m.next, m.head, hints, mv)
  PROVE  Above(t, m)
<1> DEFINE none == << >>
<1>1. DOMAIN none = {}
  OBVIOUS
<1> HIDE DEF none
<1>2. CASE layout = "ivf"
  <2>1. /\ t.nodes = none /\ \A s \in DOMAIN t.vectors : s < m.next
        /\ \A k \in DOMAIN t.lists : k % Stride < m.head[ListOfKey(k)].n
    BY <1>2 DEF Good, IvfBase, IvfHead, none
  <2> QED BY <1>1, <1>2, <2>1 DEF Above
<1>3. CASE layout # "ivf"
  <2>1. t.vectors = none /\ \A i \in DOMAIN t.nodes : i < m.next
    BY <1>3 DEF Good, GraphBase, none
  <2> QED BY <1>1, <1>3, <2>1 DEF Above
<1> QED BY <1>2, <1>3

LEMMA FreshFollows == TableInv => IdsFresh
<1> SUFFICES ASSUME TableInv PROVE IdsFresh
  OBVIOUS
<1>1. mem.built => Above(work, Now) /\ Above(disk, Now)
  <2> SUFFICES ASSUME mem.built PROVE Above(work, Now) /\ Above(disk, Now)
    OBVIOUS
  <2>1. /\ Good(layout, work, Now.next, Now.head, Now.hints, moved)
        /\ Good(layout, disk, Now.next, Now.head, Now.hints, moved)
    BY SeenFacts
  <2> QED BY <2>1, GoodIsAbove
<1>2. disk.state.built => Above(disk, Loaded(disk, Connected(disk)))
  <2> SUFFICES ASSUME disk.state.built PROVE Above(disk, Loaded(disk, Connected(disk)))
    OBVIOUS
  <2> DEFINE k == Loaded(disk, Connected(disk))
             no == FALSE
             c == Connected(disk)
  <2>1. FileGood(layout, disk, mem, HeadNow(work, mem), moved)
    BY DEF TableInv, TableGood
  <2>2. Shape(disk) /\ Good(layout, disk, disk.state.next, disk.head, disk.state.hints, moved)
    BY <2>1 DEF FileGood
  <2>3. c = [built |-> disk.state.built, next |-> disk.state.next, hints |-> disk.state.hints,
             loaded |-> no, head |-> << >>]
    BY DEF Connected
  <2>4. k = Loaded(disk, c) /\ ~no
    OBVIOUS
  <2> HIDE DEF c, no, k
  <2>5. c.next = disk.state.next /\ c.loaded = no
    BY <2>3
  <2> DEFINE yes == TRUE
  <2>6. k = [c EXCEPT !.loaded = yes, !.head = disk.head]
    BY <2>4, <2>5 DEF Loaded
  <2> HIDE DEF yes
  <2>7. k.next = disk.state.next /\ k.head = disk.head
    BY <2>3, <2>5, <2>6
  <2>8. Good(layout, disk, k.next, k.head, disk.state.hints, moved)
    BY <2>2, <2>7
  <2>9. Above(disk, k)
    BY <2>8, GoodIsAbove
  <2> QED BY <2>9 DEF k
<1> QED BY <1>1, <1>2 DEF IdsFresh

LEMMA WholeFollows == TableInv => LinksWhole
<1> SUFFICES ASSUME TableInv, mem.built
             PROVE  IF layout = "ivf" THEN IvfWhole(work) ELSE GraphWhole(work)
  BY DEF LinksWhole
<1>1. Good(layout, work, Now.next, Now.head, Now.hints, moved)
  BY SeenFacts
<1> QED BY <1>1 DEF Good, IvfBase, GraphBase

LEMMA HintsFollow == TableInv => HintsRight
<1> SUFFICES ASSUME TableInv, mem.built, ~moved
             PROVE  IF layout = "ivf"
                    THEN \A x \in Entries(work) :
                           work.lists[x[1]].ents[x[2]].page \in {0, PageOf(work, "vectors", SlotOf(work, x))}
                    ELSE /\ \A i \in DOMAIN work.nodes : \A a \in DOMAIN work.nodes[i].nbrs :
                              RefHint(work, work.nodes[i].nbrs[a])
                         /\ \A a \in DOMAIN Now.head : RefHint(work, Now.head[a])
  BY DEF HintsRight
<1> DEFINE h == Now.hints
           next == Now.next
           head == Now.head
<1>1. Good(layout, work, next, head, h, moved)
  BY SeenFacts
<1> HIDE DEF h, next
<1>2. CASE layout = "ivf"
  <2>1. IvfBase(work, next, h, moved)
    BY <1>1, <1>2 DEF Good
  <2>2. \A x \in Entries(work) :
          work.lists[x[1]].ents[x[2]].page \in {0, PageOf(work, "vectors", SlotOf(work, x))}
    <3> TAKE x \in Entries(work)
    <3>1. PICK k \in DOMAIN work.lists : \E e \in DOMAIN work.lists[k].ents : x = << k, e >>
      BY EntriesAre
    <3>2. PICK e \in DOMAIN work.lists[k].ents : x = << k, e >>
      BY <3>1
    <3>3. HintOK(work, "vectors", work.lists[k].first + e - 1, work.lists[k].ents[e].page, h, moved)
      BY <2>1, <3>2 DEF IvfBase
    <3>4. x[1] = k /\ x[2] = e
      BY <3>2
    <3> QED BY <3>3, <3>4 DEF HintOK, SlotOf
  <2> QED BY <1>2, <2>2
<1>3. CASE layout # "ivf"
  <2>1. GraphBase(work, next, h, moved) /\ head \in Seq(GoodRefs(work, h, moved))
    BY <1>1, <1>3 DEF Good
  <2>2. ASSUME NEW refs \in Seq(GoodRefs(work, h, moved)), NEW a \in DOMAIN refs
        PROVE  RefHint(work, refs[a])
    <3>1. refs[a] \in GoodRefs(work, h, moved)
      BY <2>2, ElementOfSeq
    <3> QED BY <3>1 DEF GoodRefs, HintOK, RefHint
  <2> HIDE DEF head
  <2>3. \A i \in DOMAIN work.nodes : work.nodes[i].nbrs \in Seq(GoodRefs(work, h, moved))
    BY <2>1 DEF GraphBase
  <2>4. \A i \in DOMAIN work.nodes : \A a \in DOMAIN work.nodes[i].nbrs :
          RefHint(work, work.nodes[i].nbrs[a])
    BY <2>2, <2>3
  <2>5. \A a \in DOMAIN head : RefHint(work, head[a])
    BY <2>1, <2>2
  <2> QED BY <1>3, <2>4, <2>5 DEF head
<1> QED BY <1>2, <1>3

-----------------------------------------------------------------------------
(***************************************************************************)
(* Searches, by SQL or off hinted pages.  A list is read chunk by chunk:   *)
(* every chunk there is under one of the numbers the directory counts.     *)
(***************************************************************************)
Chunk(k) == << "lists", k >>
ChunkSources(t) == {Chunk(k) : k \in DOMAIN t.lists}

(* The chunk under one number, if there is one.                            *)
ChunkUnder(t, L, j) == {Chunk(k) : k \in {ListKey(L, j)} \cap DOMAIN t.lists}

ReadFrom(dir) == {dir.first} \cup {g \in Nat : dir.first <= g}

(* What a raw read relies on: a range of page numbers, with the pages of   *)
(* lists only in it.                                                       *)
OwnRange(t, dir) ==
  /\ dir.first \in Nat /\ dir.last \in Nat /\ DOMAIN t.pages.lists = DOMAIN t.lists
  /\ \A u \in {"nodes", "vectors"} : \A k \in DOMAIN t.pages[u] :
       t.pages[u][k] \notin dir.first .. dir.last

AddsChunks(t, dir, L, raw, s, j) ==
  LET y == ReadChunk(t, dir, L, raw, s, j)
  IN y = [g |-> y.g, got |-> s.got \cup ChunkUnder(t, L, j)] /\ y.g \in ReadFrom(dir)

(* The key of a chunk survives the cast of ivf_search in the lists a word  *)
(* has numbers for.                                                        *)
LEMMA WordKeeps ==
  ASSUME NEW L \in 0 .. WordLists - 1, NEW j
  PROVE  WordKey(L, j) = ListKey(L, j)
<1>1. WordLists \in Nat \ {0}
  BY IvfAssumption
<1>2. L % WordLists = L
  BY <1>1, SMT
<1> QED BY <1>2 DEF WordKey

LEMMA ReadChunkFacts ==
  ASSUME NEW t, NEW dir, NEW L \in 0 .. WordLists - 1,
         NEW raw \in BOOLEAN, raw => OwnRange(t, dir),
         NEW s, s.g \in ReadFrom(dir), NEW j
  PROVE  AddsChunks(t, dir, L, raw, s, j)
<1> DEFINE key == ListKey(L, j)
           Raw == {p \in s.g .. dir.last : OnPage(t, key, p) # {}}
           hits == IF raw /\ dir.first # 0 THEN Raw ELSE {}
           p == CHOOSE h \in hits : \A o \in hits : h <= o
           Got(S) == {<< u, key >> : u \in S}
           y == ReadChunk(t, dir, L, raw, s, j)
<1>1. Got({"lists"}) = {Chunk(key)} /\ Got({}) = {}
  BY DEF Chunk
<1>2. ChunkUnder(t, L, j) = IF key \in DOMAIN t.lists THEN {Chunk(key)} ELSE {}
  BY DEF ChunkUnder
<1>3. Source(t, "lists", key, 0, FALSE) = IF key \in DOMAIN t.lists THEN {"lists"} ELSE {}
  BY DEF Source
<1>4. y = IF hits = {} THEN [g |-> dir.first, got |-> s.got \cup Got(Source(t, "lists", key, 0, FALSE))]
          ELSE [g |-> p, got |-> s.got \cup Got(OnPage(t, key, p))]
  BY WordKeeps DEF ReadChunk
<1>5. ASSUME NEW h \in hits
      PROVE  /\ h \in Nat /\ dir.first <= h /\ OnPage(t, key, h) = {"lists"} /\ key \in DOMAIN t.lists
  <2>1. OwnRange(t, dir) /\ h \in s.g .. dir.last /\ OnPage(t, key, h) # {}
    OBVIOUS
  <2>2. /\ dir.first \in Nat /\ dir.last \in Nat /\ DOMAIN t.pages.lists = DOMAIN t.lists
        /\ \A u \in {"nodes", "vectors"} : \A k \in DOMAIN t.pages[u] :
             t.pages[u][k] \notin dir.first .. dir.last
    BY <2>1 DEF OwnRange
  <2>3. s.g \in Nat /\ dir.first <= s.g
    BY <2>2 DEF ReadFrom
  <2>4. h \in Nat /\ h \in dir.first .. dir.last
    BY <2>1, <2>2, <2>3
  <2>5. \A u \in OnPage(t, key, h) : u = "lists"
    BY <2>2, <2>4 DEF OnPage, Tables
  <2>6. OnPage(t, key, h) = {"lists"}
    BY <2>1, <2>5
  <2>7. key \in DOMAIN t.pages.lists
    BY <2>6 DEF OnPage
  <2> QED BY <2>2, <2>4, <2>6, <2>7
<1> HIDE DEF hits, Got, key, y
<1>6. CASE hits = {}
  <2>1. y = [g |-> dir.first, got |-> s.got \cup ChunkUnder(t, L, j)]
    BY <1>1, <1>2, <1>3, <1>4, <1>6
  <2>2. y.g = dir.first
    BY <2>1
  <2> QED BY <2>1, <2>2 DEF AddsChunks, ReadFrom, y
<1>7. CASE hits # {}
  <2>1. hits \subseteq Nat
    BY <1>5
  <2>2. \E h \in hits : \A o \in hits : h <= o
    BY <1>7, <2>1, LeastNatural
  <2>3. p \in hits
    BY <2>2
  <2> HIDE DEF p
  <2>4. y = [g |-> p, got |-> s.got \cup ChunkUnder(t, L, j)]
    BY <1>1, <1>2, <1>4, <1>5, <1>7, <2>3
  <2>5. y.g = p
    BY <2>4
  <2> QED BY <1>5, <2>3, <2>4, <2>5 DEF AddsChunks, ReadFrom, y
<1> QED BY <1>6, <1>7

LEMMA ListRead ==
  ASSUME NEW t, NEW m, NEW L \in 0 .. WordLists - 1, m.head[L].n \in Nat,
         NEW raw \in BOOLEAN, raw => OwnRange(t, m.head[L])
  PROVE  /\ ChunksRead(t, m, L, raw) \subseteq ChunkSources(t)
         /\ \A j \in 0 .. m.head[L].n - 1 :
              ListKey(L, j) \in DOMAIN t.lists => Chunk(ListKey(L, j)) \in ChunksRead(t, m, L, raw)
<1> DEFINE dir == m.head[L]
           n == dir.n
           V == [g : ReadFrom(dir), got : SUBSET ChunkSources(t)]
           X(s, i) == ReadChunk(t, dir, L, raw, s, i - 1)
           base == [g |-> dir.first, got |-> {}]
           F == [p \in (1 .. n) \X V |-> X(p[2], p[1])]
           read == CHOOSE f : f = [i \in 0 .. n |->
                     IF i = 0 THEN base ELSE X(f[i - 1], i)]
           New(i) == ChunkUnder(t, L, i - 1)
<1>1. n \in Nat /\ base \in V
  BY DEF ReadFrom
<1>2. \A s \in V, i \in 1 .. n :
        X(s, i) = [g |-> X(s, i).g, got |-> s.got \cup New(i)] /\ X(s, i).g \in ReadFrom(dir)
  <2> TAKE s \in V, i \in 1 .. n
  <2>1. s.g \in ReadFrom(dir)
    OBVIOUS
  <2>2. AddsChunks(t, dir, L, raw, s, i - 1)
    BY <2>1, ReadChunkFacts
  <2> QED BY <2>2 DEF AddsChunks
<1>3. \A i \in 1 .. n : New(i) \subseteq ChunkSources(t)
  BY DEF ChunkSources, ChunkUnder
<1>9. ChunksRead(t, m, L, raw) = read[n].got
  BY DEF ChunksRead
<1> HIDE DEF X, New
<1>4. \A s \in V, i \in 1 .. n : X(s, i) \in V /\ X(s, i).got = s.got \cup New(i)
  <2> TAKE s \in V, i \in 1 .. n
  <2> DEFINE y == X(s, i)
             set == s.got \cup New(i)
  <2>1. y = [g |-> y.g, got |-> set] /\ y.g \in ReadFrom(dir)
    BY <1>2
  <2>2. set \in SUBSET ChunkSources(t)
    BY <1>3
  <2> HIDE DEF y, set
  <2>3. y \in [g : ReadFrom(dir), got : SUBSET ChunkSources(t)] /\ y.got = set
    BY <2>1, <2>2
  <2> QED BY <2>3 DEF y, set
<1>5. base.got = {} /\ \A s \in V : s.got \subseteq ChunkSources(t)
  OBVIOUS
<1> HIDE DEF V, n, base
<1>10. F \in [(1 .. n) \X V -> V]
  BY <1>4
<1>11. \A i \in 1 .. n, s \in V : F[<< i, s >>] = X(s, i)
  OBVIOUS
<1> HIDE DEF F
<1>12. PICK f \in [0 .. n -> V] : f[0] = base /\ \A i \in 1 .. n : f[i] = F[<< i, f[i - 1] >>]
  <2>1. StepsIn(F, n, V)
    BY <1>10 DEF StepsIn
  <2>2. HasIterates(base, n, F, V)
    BY <1>1, <2>1, Recursion
  <2> QED BY <2>2 DEF HasIterates, Iterates
<1>13. \A i \in 1 .. n : i - 1 \in 0 .. n /\ f[i - 1] \in V /\ f[i] = X(f[i - 1], i)
  <2> TAKE i \in 1 .. n
  <2>1. i - 1 \in 0 .. n /\ f[i - 1] \in V
    BY <1>1, <1>12
  <2> QED BY <1>11, <1>12, <2>1
<1>14. f = [i \in 0 .. n |-> IF i = 0 THEN base ELSE X(f[i - 1], i)]
  BY <1>1, <1>12, <1>13
<1>15. read = [i \in 0 .. n |-> IF i = 0 THEN base ELSE X(read[i - 1], i)]
  BY <1>14
<1> HIDE DEF read
<1> DEFINE S == {i \in 0 .. n : read[i] \in V /\ \A j \in 1 .. i : New(j) \subseteq read[i].got}
<1>16. 0 \in S
  BY <1>1, <1>15
<1>17. \A i \in 1 .. n : i - 1 \in S => i \in S
  <2> SUFFICES ASSUME NEW i \in 1 .. n, i - 1 \in S PROVE i \in S
    OBVIOUS
  <2>1. /\ i - 1 \in 0 .. n /\ read[i - 1] \in V
        /\ \A j \in 1 .. i - 1 : New(j) \subseteq read[i - 1].got
    OBVIOUS
  <2>2. i \in 0 .. n /\ read[i] = X(read[i - 1], i)
    BY <1>1, <1>15
  <2>3. read[i] \in V /\ read[i].got = read[i - 1].got \cup New(i)
    BY <1>4, <2>1, <2>2
  <2>4. \A j \in 1 .. i : j \in 1 .. i - 1 \/ j = i
    BY <1>1
  <2>5. \A j \in 1 .. i : New(j) \subseteq read[i].got
    BY <2>1, <2>3, <2>4
  <2> QED BY <2>2, <2>3, <2>5
<1>18. n \in S
  <2> HIDE DEF S
  <2>1. \A i \in 0 .. n : i \in S
    BY <1>1, <1>16, <1>17, UpTo
  <2> QED BY <1>1, <2>1
<1>19. read[n].got \subseteq ChunkSources(t)
  BY <1>5, <1>18
<1>20. \A j \in 0 .. n - 1 : ListKey(L, j) \in DOMAIN t.lists => Chunk(ListKey(L, j)) \in read[n].got
  <2> SUFFICES ASSUME NEW j \in 0 .. n - 1, ListKey(L, j) \in DOMAIN t.lists
               PROVE  Chunk(ListKey(L, j)) \in read[n].got
    OBVIOUS
  <2>1. j + 1 \in 1 .. n /\ (j + 1) - 1 = j
    BY <1>1
  <2>2. Chunk(ListKey(L, j)) \in New(j + 1)
    BY <2>1 DEF New, ChunkUnder
  <2> QED BY <1>18, <2>1, <2>2
<1> QED BY <1>9, <1>19, <1>20 DEF n

(* Every chunk is read, by its list and its number in the list, if the     *)
(* keys fit in a word.                                                     *)
ReadOf(t, m, raw) == UNION {ChunksRead(t, m, L, raw) : L \in DOMAIN m.head}

LEMMA EveryChunkRead ==
  ASSUME KeysFit, NEW t, NEW m, NEW next, IvfHead(t, next, m.head),
         \A k \in DOMAIN t.lists : k \in Nat,
         NEW raw \in BOOLEAN, \A L \in DOMAIN m.head : raw => OwnRange(t, m.head[L])
  PROVE  ReadOf(t, m, raw) = ChunkSources(t)
<1>1. PICK nl \in 1 .. NLists : Directory(m.head, nl, next)
  BY DEF IvfHead
<1>2. \A L \in DOMAIN m.head : m.head[L].n \in Nat /\ L \in 0 .. WordLists - 1
  <2>1. NLists \in Nat /\ WordLists \in Nat /\ nl \in Nat /\ nl <= WordLists
    BY IvfAssumption DEF KeysFit
  <2>2. DOMAIN m.head = 0 .. nl - 1
    BY <1>1 DEF Directory
  <2>3. \A L \in DOMAIN m.head : m.head[L].n \in Nat
    BY <1>1 DEF Directory
  <2> QED BY <2>1, <2>2, <2>3
<1>3. ReadOf(t, m, raw) \subseteq ChunkSources(t)
  BY <1>2, ListRead DEF ReadOf
<1>4. ASSUME NEW k \in DOMAIN t.lists PROVE Chunk(k) \in ReadOf(t, m, raw)
  <2> DEFINE L == ListOfKey(k)
             j == k % Stride
  <2>1. j \in Nat /\ ListKey(L, j) = k
    BY KeyParts
  <2>2. L \in DOMAIN m.head /\ j < m.head[L].n
    BY DEF IvfHead
  <2> HIDE DEF L, j
  <2>3. m.head[L].n \in Nat /\ j \in 0 .. m.head[L].n - 1 /\ L \in 0 .. WordLists - 1
    BY <1>2, <2>1, <2>2
  <2>4. Chunk(k) \in ChunksRead(t, m, L, raw)
    BY <2>1, <2>2, <2>3, ListRead
  <2> QED BY <2>2, <2>4 DEF ReadOf
<1> QED BY <1>3, <1>4 DEF ChunkSources

(* What the chunks hold: the live entries, and so the rows.                *)
Cand(t, x) == [row |-> Ent(t, x).row, slot |-> SlotOf(t, x), page |-> Ent(t, x).page]
LiveEntries(t) == {x \in Entries(t) : ~Ent(t, x).dead}

LEMMA ScanFacts ==
  ASSUME NEW t
  PROVE  UNION {Scan(t, s) : s \in ChunkSources(t)} = {Cand(t, x) : x \in LiveEntries(t)}
<1> DEFINE Pair(k, e) == << k, e >>
           Made(c, e) == [row |-> c.ents[e].row, slot |-> c.first + e - 1, page |-> c.ents[e].page]
<1>1. \A k : Scan(t, Chunk(k)) = {Made(t.lists[k], e) : e \in {e \in DOMAIN t.lists[k].ents : ~t.lists[k].ents[e].dead}}
  BY DEF Scan, Chunk
<1>2. \A k, e : Cand(t, Pair(k, e)) = Made(t.lists[k], e) /\ Ent(t, Pair(k, e)) = t.lists[k].ents[e]
  BY DEF Cand, Ent, SlotOf
<1>3. \A x : x \in Entries(t) <=>
        \E k \in DOMAIN t.lists : \E e \in DOMAIN t.lists[k].ents : x = Pair(k, e)
  BY EntriesAre
<1> HIDE DEF Pair, Made
<1>4. ASSUME NEW k \in DOMAIN t.lists, NEW c \in Scan(t, Chunk(k))
      PROVE  c \in {Cand(t, x) : x \in LiveEntries(t)}
  <2>1. PICK e \in DOMAIN t.lists[k].ents : ~t.lists[k].ents[e].dead /\ c = Made(t.lists[k], e)
    BY <1>1, <1>4
  <2>2. Pair(k, e) \in LiveEntries(t)
    BY <1>2, <1>3, <2>1 DEF LiveEntries
  <2> QED BY <1>2, <2>1, <2>2
<1>5. ASSUME NEW x \in LiveEntries(t)
      PROVE  Cand(t, x) \in UNION {Scan(t, s) : s \in ChunkSources(t)}
  <2>1. PICK k \in DOMAIN t.lists : \E e \in DOMAIN t.lists[k].ents : x = Pair(k, e)
    BY <1>3 DEF LiveEntries
  <2>2. PICK e \in DOMAIN t.lists[k].ents : x = Pair(k, e)
    BY <2>1
  <2>3. ~t.lists[k].ents[e].dead
    BY <1>2, <2>2 DEF LiveEntries
  <2>4. Cand(t, x) \in Scan(t, Chunk(k))
    BY <1>1, <1>2, <2>2, <2>3
  <2> QED BY <2>4 DEF ChunkSources
<1> QED BY <1>4, <1>5 DEF ChunkSources

LEMMA LiveRows ==
  ASSUME NEW t, IvfWhole(t)
  PROVE  /\ \A x \in LiveEntries(t) :
              /\ SlotOf(t, x) \in DOMAIN t.vectors /\ Ent(t, x).row \in DOMAIN t.rowids
              /\ t.rowids[Ent(t, x).row].slot = SlotOf(t, x)
         /\ \A r \in DOMAIN t.rowids : \E x \in LiveEntries(t) : Ent(t, x).row = r
<1> DEFINE At(x) == [list |-> ListOfKey(x[1]), slot |-> SlotOf(t, x)]
<1>1. /\ \A x \in Entries(t) :
           /\ SlotOf(t, x) \in DOMAIN t.vectors
           /\ ~Ent(t, x).dead => /\ Ent(t, x).row \in DOMAIN t.rowids
                                 /\ t.rowids[Ent(t, x).row] = At(x)
      /\ \A r \in DOMAIN t.rowids : \E x \in Entries(t) : Ent(t, x).row = r /\ ~Ent(t, x).dead
  BY DEF IvfWhole, Ent
<1>2. \A x : At(x).slot = SlotOf(t, x)
  OBVIOUS
<1> HIDE DEF At
<1> QED BY <1>1, <1>2 DEF LiveEntries

(* The rows of a table with their distances, in either layout.             *)
IvfRows(t, q) == {[row |-> r, d |-> Dist(q, VecOfSlot(t, r))] : r \in DOMAIN t.rowids}
GraphRows(t, q) == {[row |-> r, d |-> Dist(q, VecOfNode(t, r))] : r \in DOMAIN t.rowids}

(* The stored vector of a live entry is found by SQL, and at its hint.     *)
LEMMA VectorSource ==
  ASSUME NEW t, NEW slot \in DOMAIN t.vectors, NEW page, NEW raw \in BOOLEAN,
         raw => Paged("ivf", t) /\ page \in {0, PageOf(t, "vectors", slot)}
  PROVE  Source(t, "vectors", slot, page, raw) = {"vectors"}
<1> DEFINE on == OnPage(t, slot, page)
<1>1. Source(t, "vectors", slot, page, raw) = IF raw /\ on # {} THEN on ELSE {"vectors"}
  BY DEF Source
<1>2. ASSUME raw PROVE on \subseteq {"vectors"}
  <2>1. /\ \A u \in Tables : \A k \in DOMAIN t.pages[u] : t.pages[u][k] \in 1 .. t.top
        /\ \A u, w \in Tables : \A k \in DOMAIN t.pages[u], l \in DOMAIN t.pages[w] :
             t.pages[u][k] = t.pages[w][l] => u = w /\ k = l
        /\ DOMAIN t.pages["vectors"] = DOMAIN t["vectors"] /\ t.top \in Nat
    BY <1>2 DEF Paged, Apart, Tables, IsFile
  <2>2. slot \in DOMAIN t.pages["vectors"]
    BY <2>1
  <2>3. page \in {0, t.pages["vectors"][slot]}
    BY <1>2, <2>2 DEF PageOf
  <2> SUFFICES ASSUME NEW u \in on PROVE u = "vectors"
    OBVIOUS
  <2>4. u \in Tables /\ slot \in DOMAIN t.pages[u] /\ t.pages[u][slot] = page
    BY DEF OnPage
  <2>5. t.pages[u][slot] # 0
    BY <2>1, <2>4
  <2>6. t.pages[u][slot] = t.pages["vectors"][slot] /\ "vectors" \in Tables
    BY <2>3, <2>4, <2>5 DEF Tables
  <2> QED BY <2>1, <2>2, <2>4, <2>6
<1> QED BY <1>1, <1>2

RawReads(t, head, mv) ==
  ~mv /\ Paged("ivf", t) /\ \A L \in DOMAIN head : OwnRange(t, head[L])

LEMMA IvfFinds ==
  ASSUME KeysFit, NEW t, NEW m, NEW next, NEW hints, NEW mv, NEW q,
         IvfBase(t, next, hints, mv), IvfHead(t, next, m.head),
         NEW raw \in BOOLEAN, raw => RawReads(t, m.head, mv)
  PROVE  IvfSearch(t, m, q, raw) = IvfRows(t, q)
<1> DEFINE Row(r) == [row |-> r, d |-> Dist(q, VecOfSlot(t, r))]
<1>0. /\ raw => ~mv /\ Paged("ivf", t)
      /\ \A L \in DOMAIN m.head : raw => OwnRange(t, m.head[L])
  BY DEF RawReads
<1>1. IvfWhole(t) /\ \A k \in DOMAIN t.lists : k \in Nat
  BY DEF IvfBase
<1>2. ReadOf(t, m, raw) = ChunkSources(t)
  BY <1>0, <1>1, EveryChunkRead
<1>3. /\ \A x \in LiveEntries(t) :
           /\ SlotOf(t, x) \in DOMAIN t.vectors /\ Ent(t, x).row \in DOMAIN t.rowids
           /\ t.rowids[Ent(t, x).row].slot = SlotOf(t, x)
      /\ \A r \in DOMAIN t.rowids : \E x \in LiveEntries(t) : Ent(t, x).row = r
  BY <1>1, LiveRows
<1>4. IvfSearch(t, m, q, raw) =
        {Rescored(t, q, c, raw) : c \in UNION {Scan(t, s) : s \in ReadOf(t, m, raw)}}
  BY DEF IvfSearch, ReadOf
<1>5. \A x \in LiveEntries(t) : raw => Ent(t, x).page \in {0, PageOf(t, "vectors", SlotOf(t, x))}
  <2> SUFFICES ASSUME NEW x \in LiveEntries(t), raw
               PROVE  Ent(t, x).page \in {0, PageOf(t, "vectors", SlotOf(t, x))}
    OBVIOUS
  <2>1. PICK k \in DOMAIN t.lists : \E e \in DOMAIN t.lists[k].ents : x = << k, e >>
    BY EntriesAre DEF LiveEntries
  <2>2. PICK e \in DOMAIN t.lists[k].ents : x = << k, e >>
    BY <2>1
  <2>3. HintOK(t, "vectors", t.lists[k].first + e - 1, t.lists[k].ents[e].page, hints, mv)
    BY <2>2 DEF IvfBase
  <2>4. x[1] = k /\ x[2] = e
    BY <2>2
  <2> QED BY <1>0, <2>3, <2>4 DEF HintOK, SlotOf, Ent
<1>6. UNION {Scan(t, s) : s \in ChunkSources(t)} = {Cand(t, x) : x \in LiveEntries(t)}
  BY ScanFacts
<1>8. ASSUME NEW x \in LiveEntries(t)
      PROVE  Rescored(t, q, Cand(t, x), raw) = Row(Ent(t, x).row)
  <2> DEFINE c == Cand(t, x)
             s == SlotOf(t, x)
             page == Ent(t, x).page
             from == Source(t, "vectors", s, page, raw)
  <2>1. c.row = Ent(t, x).row /\ c.slot = s /\ c.page = page
    BY DEF Cand
  <2>2. s \in DOMAIN t.vectors /\ (raw => page \in {0, PageOf(t, "vectors", s)})
    BY <1>3, <1>5
  <2> HIDE DEF s, page
  <2>3. from = {"vectors"}
    BY <1>0, <2>2, VectorSource
  <2> HIDE DEF c, from
  <2>4. Rescored(t, q, c, raw) = [row |-> c.row, d |-> Dist(q, t.vectors[s])]
    <3>1. Rescored(t, q, c, raw) =
            [row |-> c.row, d |-> IF from = {} THEN Far ELSE IF from # {"vectors"} THEN Garbage
                                  ELSE Dist(q, t.vectors[s])]
      BY <2>1 DEF Rescored, from
    <3> QED BY <2>3, <3>1
  <2>5. t.vectors[s] = VecOfSlot(t, Ent(t, x).row)
    BY <1>3 DEF VecOfSlot, s
  <2> QED BY <2>1, <2>4, <2>5 DEF c
<1> HIDE DEF Row
<1>9. IvfSearch(t, m, q, raw) = {Rescored(t, q, Cand(t, x), raw) : x \in LiveEntries(t)}
  BY <1>2, <1>4, <1>6
<1> DEFINE Hit(x) == Rescored(t, q, Cand(t, x), raw)
<1>12. {Hit(x) : x \in LiveEntries(t)} = {Row(r) : r \in DOMAIN t.rowids}
  <2>1. \A x \in LiveEntries(t) : Hit(x) = Row(Ent(t, x).row)
    BY <1>8
  <2> HIDE DEF Hit
  <2> QED BY <1>3, <2>1
<1>13. {Row(r) : r \in DOMAIN t.rowids} = IvfRows(t, q)
  BY DEF Row, IvfRows
<1> QED BY <1>9, <1>12, <1>13

LEMMA IvfExactRows ==
  ASSUME NEW t, IvfWhole(t) PROVE IvfExact(t) = DOMAIN t.rowids
<1>1. /\ \A x \in LiveEntries(t) : Ent(t, x).row \in DOMAIN t.rowids
      /\ \A r \in DOMAIN t.rowids : \E x \in LiveEntries(t) : Ent(t, x).row = r
  BY LiveRows
<1>2. {Scan(t, << "lists", k >>) : k \in DOMAIN t.lists} = {Scan(t, s) : s \in ChunkSources(t)}
  BY DEF ChunkSources, Chunk
<1>3. IvfExact(t) = {c.row : c \in UNION {Scan(t, s) : s \in ChunkSources(t)}}
  BY <1>2 DEF IvfExact
<1>4. UNION {Scan(t, s) : s \in ChunkSources(t)} = {Cand(t, x) : x \in LiveEntries(t)}
  BY ScanFacts
<1>5. \A x : Cand(t, x).row = Ent(t, x).row
  BY DEF Cand
<1>6. IvfExact(t) = {Ent(t, x).row : x \in LiveEntries(t)}
  BY <1>3, <1>4, <1>5
<1>7. {Ent(t, x).row : x \in LiveEntries(t)} = DOMAIN t.rowids
  BY <1>1
<1> QED BY <1>6, <1>7

(* A graph search returns live nodes, each under its row.                  *)
LEMMA GraphSound ==
  ASSUME NEW t, NEW m, NEW next, NEW hints \in BOOLEAN, NEW mv \in BOOLEAN, NEW q \in Nat,
         GraphBase(t, next, hints, mv), m.head \in Seq(GoodRefs(t, hints, mv))
  PROVE  AnnSearch(t, m, q, FALSE) \subseteq GraphRows(t, q)
<1> DEFINE found == AnnCore(t, m, q, Ef, 2, FALSE)
<1>1. GoodNodes(t, hints, mv) /\ GraphWhole(t)
  BY DEF GraphBase, GoodNodes
<1>2. Ef \in Nat \ {0}
  BY GraphAssumption
<1>3. found \in Searches(t, hints, mv)
  BY <1>1, <1>2, AnnCoreFacts
<1>4. found.exp \subseteq Seen(t, hints, mv)
  BY <1>3 DEF Searches
<1> HIDE DEF found
<1> SUFFICES ASSUME NEW a \in AnnSearch(t, m, q, FALSE)
             PROVE  a \in GraphRows(t, q)
  OBVIOUS
<1>5. PICK n \in UNION {c.row : c \in found.exp} : ~n.dead /\ a = [row |-> n.row, d |-> Dist(q, n.vec)]
  BY DEF AnnSearch, found
<1>6. PICK c \in found.exp : n \in c.row
  BY <1>5
<1>7. c.row \subseteq {t.nodes[i] : i \in {c.id} \cap DOMAIN t.nodes}
  BY <1>4 DEF Seen
<1>8. PICK i \in DOMAIN t.nodes : n = t.nodes[i]
  BY <1>6, <1>7
<1>9. n.row \in DOMAIN t.rowids /\ t.rowids[n.row] = i
  BY <1>1, <1>5, <1>8 DEF GraphWhole
<1>10. VecOfNode(t, n.row) = n.vec
  BY <1>8, <1>9 DEF VecOfNode
<1> QED BY <1>5, <1>9, <1>10 DEF GraphRows

(* In the graph layout only node rows lie on pages, so that a page with a  *)
(* row of that id holds the node SQL would have found, hinted or not.      *)
LEMMA NodeSource ==
  ASSUME NEW t, Paged("graph", t), t.vectors = << >>, t.lists = << >>, NEW id, NEW page
  PROVE  Source(t, "nodes", id, page, TRUE) = Source(t, "nodes", id, page, FALSE)
<1> DEFINE none == << >>
<1>1. DOMAIN none = {} /\ t.vectors = none /\ t.lists = none
  OBVIOUS
<1> HIDE DEF none
<1>2. /\ DOMAIN t.pages["nodes"] = DOMAIN t["nodes"]
      /\ DOMAIN t.pages["vectors"] = {} /\ DOMAIN t.pages["lists"] = {}
  BY <1>1 DEF Paged, Tables
<1>3. \A u \in OnPage(t, id, page) : u = "nodes" /\ id \in DOMAIN t["nodes"]
  BY <1>2 DEF OnPage, Tables
<1>4. Source(t, "nodes", id, page, FALSE) = IF id \in DOMAIN t["nodes"] THEN {"nodes"} ELSE {}
  BY DEF Source
<1>5. CASE OnPage(t, id, page) = {}
  BY <1>5 DEF Source
<1>6. CASE OnPage(t, id, page) # {}
  <2>1. OnPage(t, id, page) = {"nodes"} /\ id \in DOMAIN t["nodes"]
    BY <1>3, <1>6
  <2>2. Source(t, "nodes", id, page, TRUE) = OnPage(t, id, page)
    BY <1>6 DEF Source
  <2> QED BY <1>4, <2>1, <2>2
<1> QED BY <1>5, <1>6

LEMMA SameFetch ==
  ASSUME NEW t, Paged("graph", t), t.vectors = << >>, t.lists = << >>, NEW W, NEW s
  PROVE  Fetch(t, W, TRUE, s) = Fetch(t, W, FALSE, s)
<1> DEFINE B == Batch(s, W)
           Row(c, raw) == {t[u][c.id] : u \in Source(t, "nodes", c.id, c.page, raw)}
           Done(c, raw) == [c EXCEPT !.done = TRUE, !.row = Row(c, raw)]
           Rows(raw) == [i \in DOMAIN s.L |-> IF i \in B THEN Done(s.L[i], raw) ELSE s.L[i]]
<1>1. \A c : Row(c, TRUE) = Row(c, FALSE)
  BY NodeSource
<1>2. \A c : Done(c, TRUE) = Done(c, FALSE)
  <2> HIDE DEF Row
  <2> QED BY <1>1
<1>3. Fetch(t, W, TRUE, s) = Fetched(s, B, Rows(TRUE)) /\ Fetch(t, W, FALSE, s) = Fetched(s, B, Rows(FALSE))
  BY DEF Fetch
<1>4. Rows(TRUE) = Rows(FALSE)
  <2> HIDE DEF Done
  <2> QED BY <1>2
<1> QED BY <1>3, <1>4

LEMMA SameSearch ==
  ASSUME NEW t, Paged("graph", t), t.vectors = << >>, t.lists = << >>, NEW m, NEW q
  PROVE  AnnSearch(t, m, q, TRUE) = AnnSearch(t, m, q, FALSE)
<1> DEFINE X(raw, s) == Expand(t, q, Ef, 2, raw, s)
           base == VisitAll([L |-> << >>, vis |-> {}, exp |-> {}], q, Ef, m.head)
           Is(raw, f) == f = [n \in 0 .. MaxNodes |-> IF n = 0 THEN base ELSE X(raw, f[n - 1])]
           core(raw) == AnnCore(t, m, q, Ef, 2, raw)
<1>1. \A s : X(TRUE, s) = X(FALSE, s)
  BY SameFetch DEF Expand
<1>2. \A raw : core(raw) = (CHOOSE f : Is(raw, f))[MaxNodes]
  BY DEF AnnCore
<1>3. \A f : Is(TRUE, f) <=> Is(FALSE, f)
  <2> HIDE DEF X, base
  <2> QED BY <1>1
<1> HIDE DEF Is, core
<1>4. (CHOOSE f : Is(TRUE, f)) = (CHOOSE f : Is(FALSE, f))
  BY <1>3
<1>5. core(TRUE) = core(FALSE)
  BY <1>2, <1>4
<1> QED BY <1>5 DEF AnnSearch, core

LEMMA SoundFollows == ASSUME KeysFit PROVE TableInv => SearchSound
<1> SUFFICES ASSUME TableInv, mem.built
             PROVE  /\ \A q \in Vecs : Found(q, FALSE) \subseteq Right(q)
                    /\ layout = "ivf" =>
                         /\ \A q \in Vecs : Right(q) \subseteq Found(q, FALSE)
                         /\ IvfExact(work) = DOMAIN work.rowids
  BY DEF SearchSound
<1> DEFINE m == Now
           h == m.hints
<1>1. Good(layout, work, m.next, m.head, h, moved) /\ h \in BOOLEAN /\ moved \in BOOLEAN
  BY SeenFacts DEF MemType, TableInv, TableGood
<1>2. \A q \in Vecs : q \in Nat
  BY CodeIsNat
<1>3. \A q : Found(q, FALSE) =
        IF layout = "ivf" THEN IvfSearch(work, m, q, FALSE) ELSE AnnSearch(work, m, q, FALSE)
  BY DEF Found
<1> HIDE DEF m, h
<1>4. CASE layout = "ivf"
  <2>1. IvfBase(work, m.next, h, moved) /\ IvfHead(work, m.next, m.head)
    BY <1>1, <1>4 DEF Good
  <2>2. \A q : Right(q) = IvfRows(work, q)
    BY <1>4 DEF Right, VecOf, IvfRows
  <2>3. \A q : IvfSearch(work, m, q, FALSE) = IvfRows(work, q)
    <3> DEFINE raw == FALSE
    <3>1. raw \in BOOLEAN /\ ~raw
      OBVIOUS
    <3> HIDE DEF raw
    <3>2. \A q : IvfSearch(work, m, q, raw) = IvfRows(work, q)
      BY <2>1, <3>1, IvfFinds
    <3> QED BY <3>2 DEF raw
  <2>5. \A q : Found(q, FALSE) = Right(q)
    BY <1>3, <1>4, <2>2, <2>3
  <2>4. IvfExact(work) = DOMAIN work.rowids
    BY <2>1, IvfExactRows DEF IvfBase
  <2> QED BY <2>4, <2>5
<1>5. CASE layout # "ivf"
  <2>1. GraphBase(work, m.next, h, moved) /\ m.head \in Seq(GoodRefs(work, h, moved))
    BY <1>1, <1>5 DEF Good
  <2>2. \A q : Right(q) = GraphRows(work, q)
    BY <1>5 DEF Right, VecOf, GraphRows
  <2>3. \A q \in Vecs : Found(q, FALSE) \subseteq Right(q)
    <3> TAKE q \in Vecs
    <3>1. q \in Nat
      BY <1>2
    <3>2. AnnSearch(work, m, q, FALSE) \subseteq GraphRows(work, q)
      BY <1>1, <2>1, <3>1, GraphSound
    <3> QED BY <1>3, <1>5, <2>2, <3>2
  <2> QED BY <1>5, <2>3
<1> QED BY <1>4, <1>5

LEMMA RawFollows == ASSUME KeysFit PROVE TableInv /\ PagesInv => RawSameAsSql
<1> SUFFICES ASSUME TableInv, PagesInv, mem.built, ~moved,
                    layout = "ivf" => \A L \in DOMAIN Now.head : OwnPages(L),
                    NEW q \in Vecs
             PROVE  Found(q, TRUE) = Found(q, FALSE)
  BY DEF RawSameAsSql
<1> DEFINE m == Now
           h == m.hints
<1>1. Good(layout, work, m.next, m.head, h, moved) /\ layout \in {"graph", "ivf"}
  BY SeenFacts
<1>2. Paged(layout, work) /\ PagedMem(layout, mem) /\ MemType(mem)
  BY TypeNow DEF PagesInv
<1>3. layout = "ivf" => HeadPages(m.head)
  BY <1>2, LoadedPages DEF Now
<1>4. \A raw : Found(q, raw) =
        IF layout = "ivf" THEN IvfSearch(work, m, q, raw) ELSE AnnSearch(work, m, q, raw)
  BY DEF Found
<1>5. layout = "ivf" =>
        \A L \in DOMAIN m.head : \A u \in {"nodes", "vectors"} : \A k \in DOMAIN work.pages[u] :
          work.pages[u][k] \notin m.head[L].first .. m.head[L].last
  BY DEF OwnPages
<1> HIDE DEF m, h
<1>6. CASE layout = "ivf"
  <2>1. IvfBase(work, m.next, h, moved) /\ IvfHead(work, m.next, m.head)
    BY <1>1, <1>6 DEF Good
  <2>2. \A L \in DOMAIN m.head : OwnRange(work, m.head[L])
    <3> TAKE L \in DOMAIN m.head
    <3>1. m.head[L].first \in Nat /\ m.head[L].last \in Nat
      BY <1>3, <1>6 DEF HeadPages
    <3>2. DOMAIN work.pages.lists = DOMAIN work.lists
      BY <1>2 DEF Paged, Tables
    <3> QED BY <1>5, <1>6, <3>1, <3>2 DEF OwnRange
  <2>3. \A raw \in BOOLEAN : IvfSearch(work, m, q, raw) = IvfRows(work, q)
    <3> TAKE raw \in BOOLEAN
    <3>1. RawReads(work, m.head, moved)
      BY <1>2, <1>6, <2>2 DEF RawReads
    <3> QED BY <2>1, <3>1, IvfFinds
  <2>4. TRUE \in BOOLEAN /\ FALSE \in BOOLEAN
    OBVIOUS
  <2> QED BY <1>4, <1>6, <2>3, <2>4
<1>7. CASE layout # "ivf"
  <2>1. GraphBase(work, m.next, h, moved) /\ Paged("graph", work)
    BY <1>1, <1>2, <1>7 DEF Good
  <2>2. work.vectors = << >> /\ work.lists = << >>
    BY <2>1 DEF GraphBase
  <2>3. AnnSearch(work, m, q, TRUE) = AnnSearch(work, m, q, FALSE)
    BY <2>1, <2>2, SameSearch
  <2> QED BY <1>4, <1>7, <2>3
<1> QED BY <1>6, <1>7

-----------------------------------------------------------------------------
(* The invariant holds in every state (dense_ann.c: do_build, dense_update,*)
(* do_finalize, save_state, load_config, ensure_loaded).                   *)
THEOREM TableInvariant == Spec => []TableInv
<1>1. Init => TableInv
  BY StartGood
<1>2. TableInv /\ [Next]_vars => TableInv'
  BY StepGood
<1> QED BY <1>1, <1>2, PTL DEF Spec

(* No two rows of either file share a page, in every reachable state.      *)
THEOREM TablePages == Spec => [](TableInv /\ PagesInv)
<1>1. Init => TableInv /\ PagesInv
  BY StartGood, StartPages
<1>2. TableInv /\ PagesInv /\ [Next]_vars => (TableInv /\ PagesInv)'
  BY StepGood, StepPages
<1> QED BY <1>1, <1>2, PTL DEF Spec

(* The id that the connection, or the one after it, gives out next is      *)
(* above every node, slot and chunk of the tables and of the committed     *)
(* file, whatever failed or was rolled back (next_id in insert_built, nch  *)
(* in insert_ivf, save_state).                                             *)
THEOREM DenseIdsFresh == Spec => []IdsFresh
<1>1. TableInv => IdsFresh
  BY FreshFollows
<1> QED BY <1>1, TableInvariant, PTL

(* The links of a built table are whole: neighbours exist and are distinct,*)
(* references and entries carry the code of what they name, and the rowid  *)
(* map and the live rows name each other (insert_built, insert_ivf,        *)
(* delete_row, delete_ivf, do_build, build_ivf).                           *)
THEOREM DenseLinksWhole == Spec => []LinksWhole
<1>1. TableInv => LinksWhole
  BY WholeFollows
<1> QED BY <1>1, TableInvariant, PTL

(* Until VACUUM moves the rows every hint is absent or names the page of   *)
(* its row, after insertions, pruned lists, deletions and rollbacks        *)
(* (do_finalize, finalize_ivf, insert_built).                              *)
THEOREM DenseHintsRight == Spec => []HintsRight
<1>1. TableInv => HintsRight
  BY HintsFollow
<1> QED BY <1>1, TableInvariant, PTL

(* A search by SQL over a built table returns rows of the table with their *)
(* own distances, never a deleted or replaced one; over an IVF index with  *)
(* every list probed, or over its codes, it returns every row (ann_search, *)
(* ivf_search, ivf_exact_pq).  There may be no more lists than a 32-bit id *)
(* has numbers for: ivf_search casts the id of a chunk to uint32_t.        *)
THEOREM DenseSearchSound ==
  ASSUME KeysFit
  PROVE  Spec => []SearchSound
<1>1. TableInv => SearchSound
  BY SoundFollows
<1> QED BY <1>1, TableInvariant, PTL

(* In autocommit, with hints that VACUUM has not moved, a search of a      *)
(* built table gives the same rows and distances whether it reads them off *)
(* hinted pages or by SQL, after any insertions, page splits, deletions,   *)
(* failures and rollbacks, as long as the page range of a list holds pages *)
(* of lists only and no more lists are asked for than a 32-bit id has      *)
(* numbers for, as only the read by SQL casts the id of a chunk to that    *)
(* width (q_fetch, qc_row_on_page, ivf_search).                            *)
THEOREM DenseRawSameAsSql ==
  ASSUME KeysFit
  PROVE  Spec => []RawSameAsSql
<1>1. TableInv /\ PagesInv => RawSameAsSql
  BY RawFollows
<1> QED BY <1>1, TablePages, PTL

-----------------------------------------------------------------------------
(***************************************************************************)
(* The table implements SqlTable.  What SQL sees of the states of memory   *)
(* and of a build started by a query: the memory knows of the build what   *)
(* the tables say, and a query's build keeps the rows it has found.        *)
(***************************************************************************)
IsFunction(f) == f = [r \in DOMAIN f |-> f[r]]

SqlInv ==
  /\ work.state.built = mem.built
  /\ ~mem.built => IsFunction(work.buffer)
  /\ ~disk.state.built => IsFunction(disk.buffer)
  /\ IsFunction(auto.rows)
  /\ auto.pc = "fallback" => layout = "ivf"
  /\ auto.pc \in {"train", "fallback"} /\ layout = "ivf" => work.buffer = auto.rows
  /\ auto.pc = "state" => RowsOf(work) = auto.rows

(* The rows and the committed rows that ImplementsSql substitutes.         *)
SqlRows  == IF Idle THEN View(work, mem.built) ELSE auto.rows
SqlSaved == IF Idle \/ tx THEN View(disk, disk.state.built) ELSE auto.rows

(* The committed rows stay in a transaction, and else follow.              *)
Carried == tx' = tx /\ SqlSaved' = IF tx THEN SqlSaved ELSE SqlRows'

(* The steps: one of SqlTable, or none.                                    *)
SqlStays == UNCHANGED << SqlRows, SqlSaved, tx >>
SqlStep  == Sql!SqlNext \/ SqlStays

LEMMA SqlPuts ==
  ASSUME NEW r \in RowIds, NEW v \in Vecs, r \notin DOMAIN SqlRows,
         SqlRows' = Put(SqlRows, r, v), Carried
  PROVE  Sql!SqlNext
<1>1. Sql!Put(r, v)
  BY DEF Sql!Put, Sql!Write, Sql!With, Put, Carried, SqlRows, SqlSaved
<1> QED BY <1>1 DEF Sql!SqlNext

LEMMA SqlRemoves ==
  ASSUME NEW r \in RowIds, SqlRows' = Less(SqlRows, r), Carried
  PROVE  Sql!SqlNext
<1>1. Sql!Remove(r)
  BY DEF Sql!Remove, Sql!Without, Sql!Write, Less, Carried, SqlRows, SqlSaved
<1> QED BY <1>1 DEF Sql!SqlNext

LEMMA SqlChanges ==
  ASSUME NEW r \in RowIds, NEW to \in RowIds, NEW v \in Vecs,
         r \in DOMAIN SqlRows, to \notin DOMAIN SqlRows \ {r},
         SqlRows' = Put(Less(SqlRows, r), to, v), Carried
  PROVE  Sql!SqlNext
<1>1. Sql!Change(r, to, v)
  BY DEF Sql!Change, Sql!Without, Sql!Write, Sql!With, Put, Less, Carried, SqlRows, SqlSaved
<1> QED BY <1>1 DEF Sql!SqlNext

LEMMA SqlCrashes ==
  ASSUME SqlRows' = SqlSaved, SqlSaved' = SqlSaved, tx' = FALSE
  PROVE  Sql!SqlNext
<1>1. Sql!Crash
  BY DEF Sql!Crash, SqlRows, SqlSaved
<1> QED BY <1>1 DEF Sql!SqlNext

LEMMA SqlBegins ==
  ASSUME ~tx, tx' = TRUE, SqlRows' = SqlRows, SqlSaved' = SqlSaved
  PROVE  Sql!SqlNext
<1>1. Sql!Begin
  BY DEF Sql!Begin, SqlRows, SqlSaved
<1> QED BY <1>1 DEF Sql!SqlNext

LEMMA SqlCommits ==
  ASSUME tx, tx' = FALSE, SqlRows' = SqlRows, SqlSaved' = SqlRows
  PROVE  Sql!SqlNext
<1>1. Sql!Commit
  BY DEF Sql!Commit, SqlRows, SqlSaved
<1> QED BY <1>1 DEF Sql!SqlNext

LEMMA SqlRollsBack ==
  ASSUME tx, tx' = FALSE, SqlRows' = SqlSaved, SqlSaved' = SqlSaved
  PROVE  Sql!SqlNext
<1>1. Sql!Rollback
  BY DEF Sql!Rollback, SqlRows, SqlSaved
<1> QED BY <1>1 DEF Sql!SqlNext

-----------------------------------------------------------------------------
(* What SQL sees of a state.                                               *)
LEMMA ViewIs ==
  ASSUME NEW t, NEW built
  PROVE  View(t, built) = IF built THEN RowsOf(t) ELSE t.buffer
BY DEF View, VecOf, RowsOf, IvfView, GraphView

LEMMA RowsKnown == ASSUME NEW t PROVE DOMAIN RowsOf(t) = DOMAIN t.rowids
BY DEF RowsOf, IvfView, GraphView

(* The rows SQL sees after a step.                                         *)
LEMMA SqlAfter ==
  ASSUME NEW w, NEW d, NEW m, NEW a, NEW x, work' = w, disk' = d, mem' = m, auto' = a, tx' = x,
         layout' = layout
  PROVE  /\ SqlRows' = IF a.pc = "idle" THEN View(w, m.built) ELSE a.rows
         /\ SqlSaved' = IF a.pc = "idle" \/ x THEN View(d, d.state.built) ELSE a.rows
BY DEF SqlRows, SqlSaved, Idle, View, VecOf, VecOfSlot, VecOfNode

LEMMA SqlNow ==
  /\ SqlRows = IF auto.pc = "idle" THEN View(work, mem.built) ELSE auto.rows
  /\ SqlSaved = IF auto.pc = "idle" \/ tx THEN View(disk, disk.state.built) ELSE auto.rows
BY DEF SqlRows, SqlSaved, Idle

LEMMA SqlSettled == TableInv /\ SqlInv /\ ~tx => SqlSaved = SqlRows
<1> SUFFICES ASSUME TableInv, SqlInv, ~tx PROVE SqlSaved = SqlRows
  OBVIOUS
<1>1. disk = work /\ work.state.built = mem.built
  BY DEF TableInv, TableGood, SqlInv
<1> QED BY <1>1, SqlNow

LEMMA EmptyIsFunction == IsFunction(<< >>)
<1> DEFINE none == << >>
<1>1. DOMAIN none = {} /\ none = [k \in {} |-> none[k]]
  OBVIOUS
<1> HIDE DEF none
<1>2. IsFunction(none)
  BY <1>1 DEF IsFunction
<1> QED BY <1>2 DEF none

LEMMA PutIsFunction == ASSUME NEW f, NEW r, NEW v PROVE IsFunction(Put(f, r, v))
BY DEF IsFunction, Put

LEMMA WithoutIsLess == ASSUME NEW f, NEW r PROVE Restrict(f, DOMAIN f \ {r}) = Less(f, r)
BY DEF Restrict, Less

LEMMA LessIsFunction == ASSUME NEW f, NEW r PROVE IsFunction(Less(f, r))
BY DEF IsFunction, Less

LEMMA IsFunctionSame == ASSUME NEW f, IsFunction(f) PROVE [r \in DOMAIN f |-> f[r]] = f
BY DEF IsFunction

LEMMA LessAbsent ==
  ASSUME NEW f, IsFunction(f), NEW r, r \notin DOMAIN f PROVE Less(f, r) = f
BY DEF IsFunction, Less

-----------------------------------------------------------------------------
(* A statement.                                                            *)
LEMMA SqlStatement ==
  ASSUME TableInv, SqlInv, NEW t, NEW k, Statement(t, k), t.state.built = k.built,
         ~k.built => IsFunction(t.buffer)
  PROVE  /\ SqlRows = View(work, mem.built) /\ SqlRows' = View(t, k.built) /\ Carried
         /\ SqlInv'
<1> DEFINE e == IF tx THEN disk ELSE t
<1>1. /\ auto.pc = "idle" /\ work' = t /\ mem' = k /\ disk' = e
      /\ layout' = layout /\ tx' = tx /\ auto' = auto
  BY DEF Statement, Effect, Idle
<1> HIDE DEF e
<1>2. SqlRows' = View(t, k.built) /\ SqlSaved' = View(e, e.state.built)
  BY <1>1, SqlAfter
<1>3. SqlRows = View(work, mem.built) /\ SqlSaved = View(disk, disk.state.built)
  BY <1>1, SqlNow
<1>4. Carried
  BY <1>1, <1>2, <1>3 DEF Carried, e
<1>5. ~e.state.built => IsFunction(e.buffer)
  BY DEF SqlInv, e
<1>6. SqlInv'
  <2>1. auto'.pc = "idle" /\ IsFunction(auto'.rows)
    BY <1>1 DEF SqlInv
  <2> QED BY <1>1, <1>5, <2>1 DEF SqlInv
<1> QED BY <1>2, <1>3, <1>4, <1>6

(* One that leaves the rows as they are.                                   *)
LEMMA SqlNoChange ==
  ASSUME TableInv, SqlInv, NEW t, NEW k, Statement(t, k), t.state.built = k.built,
         ~k.built => IsFunction(t.buffer), View(t, k.built) = View(work, mem.built)
  PROVE  SqlStays /\ SqlInv'
<1>1. SqlRows' = SqlRows /\ Carried /\ SqlInv'
  BY SqlStatement
<1>2. ~tx => SqlSaved = SqlRows
  BY SqlSettled
<1> QED BY <1>1, <1>2 DEF SqlStays, Carried

-----------------------------------------------------------------------------
(* A build changes no row, by a statement or by a query.                   *)
LEMMA SqlBuild == TableInv /\ SqlInv /\ Build => SqlStep /\ SqlInv'
<1> SUFFICES ASSUME TableInv, SqlInv, Build PROVE SqlStep /\ SqlInv'
  OBVIOUS
<1> DEFINE rows == work.buffer
<1>1. PICK E \in EntrySets(rows) :
        /\ ~mem.built /\ DOMAIN rows # {} /\ Bare(work) /\ Idle
        /\ Statement(Finished(BuildRows(work, rows, E), rows), BuiltState(BuildRows(work, rows, E), rows))
  BY DEF Build, Buildable, Bare, Statement
<1>2. /\ layout \in {"graph", "ivf"} /\ moved \in BOOLEAN /\ Shape(work)
      /\ NotBuilt(layout, disk, work, tx, moved, auto)
  BY <1>1, UnbuiltFacts DEF TableInv
<1>3. NoRows(work) /\ Buffer(rows) /\ IsFunction(rows)
  BY <1>1, <1>2 DEF NotBuilt, Idle, Shape, SqlInv
<1> DEFINE t == BuildRows(work, rows, E)
           z == Finished(t, rows)
           k == BuiltState(t, rows)
<1>4. /\ Shape(t) /\ Cardinality(DOMAIN rows) \in Nat
      /\ \A no \in BOOLEAN : ~no => Good(layout, t, Cardinality(DOMAIN rows), t.head, no, moved)
      /\ RowsOf(t) = [r \in DOMAIN rows |-> rows[r]]
  BY <1>1, <1>2, <1>3, BuildRowsFacts
<1>5. RowsOf(t) = rows
  BY <1>3, <1>4, IsFunctionSame
<1>6. Statement(z, k)
  BY <1>1
<1>0. View(work, mem.built) = rows
  BY <1>1, ViewIs
<1> HIDE DEF t, rows
<1>7. k.built /\ RowsOf(z) = RowsOf(t) /\ z.state.built = k.built
  BY <1>4, FinishedFacts
<1>8. View(z, k.built) = View(work, mem.built)
  BY <1>0, <1>5, <1>7, ViewIs
<1> HIDE DEF z, k
<1>9. SqlStays /\ SqlInv'
  BY <1>6, <1>7, <1>8, SqlNoChange
<1> QED BY <1>9 DEF SqlStep

LEMMA SqlAutoStart == TableInv /\ SqlInv /\ AutoStart => SqlStep /\ SqlInv'
<1> SUFFICES ASSUME TableInv, SqlInv, AutoStart PROVE SqlStep /\ SqlInv'
  OBVIOUS
<1> DEFINE t == IF layout = "ivf" THEN work ELSE [work EXCEPT !.buffer = << >>]
           b == [pc |-> "train", rows |-> work.buffer]
           e == IF tx THEN disk ELSE t
<1>1. /\ ~mem.built /\ auto.pc = "idle"
      /\ layout' = layout /\ tx' = tx /\ mem' = mem /\ auto' = b /\ work' = t /\ disk' = e
  BY DEF AutoStart, Effect, Idle
<1>2. Shape(work)
  BY <1>1, UnbuiltFacts DEF TableInv
<1>3. /\ t.state = work.state /\ (layout = "ivf" => t.buffer = work.buffer)
      /\ t.buffer \in {work.buffer, << >>}
  <2>1. Buffer(<< >>)
    BY DEF Buffer
  <2> DEFINE z == [work EXCEPT !.buffer = << >>]
  <2>2. z.buffer = << >> /\ z.state = work.state
    BY <1>2, <2>1, BufferFacts
  <2> HIDE DEF z
  <2>3. t = IF layout = "ivf" THEN work ELSE z
    BY DEF z
  <2> QED BY <2>2, <2>3
<1>4. b.pc = "train" /\ b.rows = work.buffer
  OBVIOUS
<1> HIDE DEF t, b, e
<1>5. View(work, mem.built) = work.buffer
  BY <1>1, ViewIs
<1>6. SqlRows' = work.buffer /\ SqlSaved' = IF tx THEN View(e, e.state.built) ELSE work.buffer
  BY <1>1, <1>4, SqlAfter
<1>7. SqlRows = work.buffer /\ SqlSaved = View(disk, disk.state.built)
  BY <1>1, <1>5, SqlNow
<1>8. SqlStays
  <2>1. CASE tx
    BY <1>1, <1>6, <1>7, <2>1 DEF SqlStays, e
  <2>2. CASE ~tx
    BY <1>1, <1>6, <1>7, <2>2, SqlSettled DEF SqlStays
  <2> QED BY <2>1, <2>2
<1>9. IsFunction(t.buffer) /\ IsFunction(work.buffer)
  BY <1>1, <1>3, EmptyIsFunction DEF SqlInv
<1>10. ~e.state.built => IsFunction(e.buffer)
  BY <1>9 DEF SqlInv, e
<1>11. SqlInv'
  BY <1>1, <1>3, <1>4, <1>9, <1>10 DEF SqlInv
<1> QED BY <1>8, <1>11 DEF SqlStep

LEMMA SqlAutoRows == TableInv /\ SqlInv /\ AutoRows => SqlStep /\ SqlInv'
<1> SUFFICES ASSUME TableInv, SqlInv, AutoRows PROVE SqlStep /\ SqlInv'
  OBVIOUS
<1> DEFINE b == [auto EXCEPT !.pc = "state"]
<1>1. PICK E \in EntrySets(auto.rows) :
        /\ auto.pc = "train" /\ auto' = b /\ layout' = layout /\ tx' = tx /\ mem' = mem
        /\ work' = BuildRows(work, auto.rows, E) /\ disk' = IF tx THEN disk ELSE work'
  BY DEF AutoRows, Effect
<1>2. ~mem.built
  BY <1>1 DEF TableInv, TableGood
<1>3. /\ layout \in {"graph", "ivf"} /\ moved \in BOOLEAN /\ AutoType(auto)
      /\ Shape(work) /\ NotBuilt(layout, disk, work, tx, moved, auto)
  BY <1>2, UnbuiltFacts DEF TableInv
<1>4. /\ NoRows(work) /\ Buffer(auto.rows) /\ DOMAIN auto.rows # {} /\ IsFunction(auto.rows)
  BY <1>1, <1>3 DEF NotBuilt, SqlInv
<1> DEFINE t == BuildRows(work, auto.rows, E)
           e == IF tx THEN disk ELSE t
<1>5. /\ t.state = work.state /\ t.buffer \in {work.buffer, << >>}
      /\ RowsOf(t) = [r \in DOMAIN auto.rows |-> auto.rows[r]]
  BY <1>3, <1>4, BuildRowsFacts
<1>6. RowsOf(t) = auto.rows
  BY <1>4, <1>5, IsFunctionSame
<1>7. work' = t /\ disk' = e
  BY <1>1
<1>8. b.pc = "state" /\ b.rows = auto.rows
  BY <1>3 DEF AutoType
<1> HIDE DEF t, b, e
<1>9. SqlRows' = auto.rows /\ SqlSaved' = IF tx THEN View(e, e.state.built) ELSE auto.rows
  BY <1>1, <1>7, <1>8, SqlAfter
<1>10. SqlRows = auto.rows /\ SqlSaved = IF tx THEN View(disk, disk.state.built) ELSE auto.rows
  BY <1>1, SqlNow
<1>11. SqlStays
  BY <1>1, <1>9, <1>10 DEF SqlStays, e
<1>12. IsFunction(t.buffer)
  BY <1>2, <1>5, EmptyIsFunction DEF SqlInv
<1>13. ~e.state.built => IsFunction(e.buffer)
  BY <1>12 DEF SqlInv, e
<1>14. SqlInv'
  <2>1. /\ work'.state.built = mem'.built /\ (~mem'.built => IsFunction(work'.buffer))
        /\ (~disk'.state.built => IsFunction(disk'.buffer)) /\ IsFunction(auto'.rows)
        /\ auto'.pc = "state"
    BY <1>1, <1>5, <1>7, <1>8, <1>12, <1>13 DEF SqlInv
  <2>2. RowsOf(work)' = auto'.rows
    BY <1>1, <1>6, <1>7, <1>8 DEF RowsOf, GraphView, IvfView, VecOfNode, VecOfSlot
  <2> QED BY <2>1, <2>2 DEF SqlInv
<1> QED BY <1>11, <1>14 DEF SqlStep

(* SQL's rows survive all but three things: the rollback of a transaction  *)
(* that has built the index, a process that ends during a query's build,   *)
(* and a graph whose automatic build runs out of memory.                   *)
NothingLost == Faults \subseteq {"undone", "partial"} /\ "graph" \notin NoMemory

LEMMA SqlAutoState == TableInv /\ SqlInv /\ AutoState => SqlStep /\ SqlInv'
<1> SUFFICES ASSUME TableInv, SqlInv, AutoState PROVE SqlStep /\ SqlInv'
  OBVIOUS
<1> DEFINE rows == auto.rows
           z == Finished(work, rows)
           k == BuiltState(work, rows)
           e == IF tx THEN disk ELSE z
           a == NoBuild
<1>1. /\ auto.pc = "state" /\ auto' = a /\ layout' = layout /\ tx' = tx
      /\ work' = z /\ mem' = k /\ disk' = e
  BY DEF AutoState, Effect
<1>2. ~mem.built
  BY <1>1 DEF TableInv, TableGood
<1>3. /\ layout \in {"graph", "ivf"} /\ Shape(work) /\ NotBuilt(layout, disk, work, tx, moved, auto)
  BY <1>2, UnbuiltFacts DEF TableInv
<1>4. /\ Buffer(rows) /\ DOMAIN rows # {}
      /\ \A no \in BOOLEAN : ~no => Good(layout, work, Cardinality(DOMAIN rows), work.head, no, moved)
  BY <1>1, <1>3 DEF NotBuilt
<1>5. Cardinality(DOMAIN rows) \in Nat
  BY <1>4, RowsInLists
<1>6. a.pc = "idle" /\ IsFunction(a.rows)
  BY EmptyIsFunction DEF NoBuild
<1>7. RowsOf(work) = rows /\ (~disk.state.built => IsFunction(disk.buffer))
  BY <1>1 DEF SqlInv
<1>8. /\ SqlRows = rows
      /\ SqlSaved = IF tx THEN View(disk, disk.state.built) ELSE rows
  BY <1>1, SqlNow
<1> HIDE DEF rows, a
<1>9. k.built /\ RowsOf(z) = RowsOf(work) /\ z.state.built = k.built
  BY <1>3, <1>4, <1>5, FinishedFacts
<1> HIDE DEF z, k, e
<1>10. View(z, k.built) = rows /\ View(z, z.state.built) = rows
  BY <1>7, <1>9, ViewIs
<1>11. SqlRows' = rows /\ SqlSaved' = View(e, e.state.built)
  BY <1>1, <1>6, <1>10, SqlAfter
<1>12. SqlStays
  BY <1>1, <1>8, <1>10, <1>11 DEF SqlStays, e
<1>13. ~e.state.built => IsFunction(e.buffer)
  BY <1>7, <1>9 DEF e
<1>14. SqlInv'
  BY <1>1, <1>6, <1>9, <1>13 DEF SqlInv
<1> QED BY <1>12, <1>14 DEF SqlStep

LEMMA SqlAutoFails ==
  ASSUME NothingLost, TableInv, SqlInv, AutoFails
  PROVE  SqlStep /\ SqlInv'
<1> DEFINE a == [auto EXCEPT !.pc = "fallback"]
<1>1. /\ auto.pc = "train" /\ auto' = a /\ layout \in NoMemory
      /\ layout' = layout /\ tx' = tx /\ work' = work /\ mem' = mem /\ disk' = disk
  BY DEF AutoFails
<1>2. layout = "ivf"
  BY <1>1 DEF NothingLost, TableInv, TableGood
<1>3. a.pc = "fallback" /\ a.rows = auto.rows
  BY DEF TableInv, TableGood, AutoType
<1> HIDE DEF a
<1>4. SqlRows' = auto.rows /\ SqlSaved' = IF tx THEN View(disk, disk.state.built) ELSE auto.rows
  BY <1>1, <1>3, SqlAfter
<1>5. SqlRows = auto.rows /\ SqlSaved = IF tx THEN View(disk, disk.state.built) ELSE auto.rows
  BY <1>1, SqlNow
<1>6. SqlInv'
  BY <1>1, <1>2, <1>3 DEF SqlInv
<1> QED BY <1>1, <1>4, <1>5, <1>6 DEF SqlStep, SqlStays

LEMMA SqlFallbackDone == TableInv /\ SqlInv /\ FallbackDone => SqlStep /\ SqlInv'
<1> SUFFICES ASSUME TableInv, SqlInv, FallbackDone PROVE SqlStep /\ SqlInv'
  OBVIOUS
<1> DEFINE a == NoBuild
<1>1. /\ auto.pc = "fallback" /\ auto' = a
      /\ layout' = layout /\ tx' = tx /\ work' = work /\ mem' = mem /\ disk' = disk
  BY DEF FallbackDone
<1>2. a.pc = "idle" /\ IsFunction(a.rows)
  BY EmptyIsFunction DEF NoBuild
<1> HIDE DEF a
<1>3. ~mem.built /\ (~tx => disk = work)
  BY <1>1 DEF TableInv, TableGood
<1>4. work.buffer = auto.rows /\ work.state.built = mem.built
  BY <1>1 DEF SqlInv
<1>5. View(work, mem.built) = auto.rows
  BY <1>3, <1>4, ViewIs
<1>6. SqlRows' = auto.rows /\ SqlSaved' = View(disk, disk.state.built)
  BY <1>1, <1>2, <1>5, SqlAfter
<1>7. SqlRows = auto.rows /\ SqlSaved = IF tx THEN View(disk, disk.state.built) ELSE auto.rows
  BY <1>1, SqlNow
<1>8. SqlStays
  BY <1>1, <1>3, <1>4, <1>5, <1>6, <1>7 DEF SqlStays
<1>9. SqlInv'
  BY <1>1, <1>2 DEF SqlInv
<1> QED BY <1>8, <1>9 DEF SqlStep

LEMMA SqlQuery == TableInv /\ SqlInv /\ Query => SqlStep /\ SqlInv'
<1> SUFFICES ASSUME TableInv, SqlInv, Query PROVE SqlStep /\ SqlInv'
  OBVIOUS
<1> DEFINE k == Loaded(work, mem)
<1>1. mem.built /\ Statement(work, k) /\ MemType(mem)
  BY DEF Query, TableInv, TableGood
<1>2. k.built = mem.built
  BY <1>1, LoadedFacts
<1>3. work.state.built = mem.built
  BY DEF SqlInv
<1> HIDE DEF k
<1>4. SqlStays /\ SqlInv'
  BY <1>1, <1>2, <1>3, SqlNoChange
<1> QED BY <1>4 DEF SqlStep

-----------------------------------------------------------------------------
(* A row added to a built table whose rows are those of t.                 *)
LEMMA AddedRows ==
  ASSUME TableInv, mem.built, NEW r \in RowIds, NEW v \in Vecs, NEW t,
         LET m == Loaded(work, mem)
         IN FileGood(layout, t, m, m.head, moved) /\ r \notin DOMAIN t.rowids /\ m.next < Limit
  PROVE  LET m == Loaded(work, mem)
             y == AddedFile(t, m, r, v)
             k == AddedMem(y, m)
             z == Saved(y, k)
         IN  /\ View(z, k.built) = Put(RowsOf(t), r, v)
             /\ k.built /\ z.state.built = k.built
<1> DEFINE m == Loaded(work, mem)
           y == AddedFile(t, m, r, v)
           k == AddedMem(y, m)
           z == Saved(y, k)
<1>1. layout \in {"graph", "ivf"} /\ moved \in BOOLEAN
  BY DEF TableInv, TableGood
<1>2. /\ MemType(m) /\ m.loaded /\ m.built
  BY ReadyFacts DEF TableInv
<1>3. FileGood(layout, t, m, m.head, moved) /\ r \notin DOMAIN t.rowids /\ m.next < Limit
  OBVIOUS
<1> HIDE DEF m
<1>4. /\ MemType(k) /\ k.built /\ Shape(y)
      /\ RowsOf(z) = Put(RowsOf(t), r, v)
  BY <1>1, <1>2, <1>3, AddedFacts
<1> HIDE DEF y, k
<1>5. IsSaved(z, y, k)
  BY <1>4, SavedFacts
<1> HIDE DEF z
<1>6. z.state.built = k.built
  BY <1>5 DEF IsSaved
<1>7. View(z, k.built) = RowsOf(z)
  BY <1>4, ViewIs
<1> QED BY <1>4, <1>6, <1>7 DEF z, k, y, m

(* dense_update.                                                           *)
LEMMA SqlInsert ==
  ASSUME TableInv, SqlInv, NEW r \in RowIds, NEW v \in Vecs, Insert(r, v)
  PROVE  SqlStep /\ SqlInv'
<1>1. CASE mem.built
  <2> DEFINE m == Loaded(work, mem)
             y == AddedFile(work, m, r, v)
             k == AddedMem(y, m)
             z == Saved(y, k)
  <2>1. m.built /\ FileGood(layout, work, m, m.head, moved)
    BY <1>1, ReadyFacts DEF TableInv
  <2>2. r \notin DOMAIN work.rowids /\ m.next < Limit /\ Statement(z, k)
    <3>1. Ready(work, mem) = m
      BY <1>1 DEF Ready
    <3> HIDE DEF m
    <3> QED BY <1>1, <2>1, <3>1 DEF Insert, Known
  <2>3. View(z, k.built) = Put(RowsOf(work), r, v) /\ k.built /\ z.state.built = k.built
    BY <1>1, <2>1, <2>2, AddedRows
  <2> HIDE DEF m, y, k, z
  <2>4. SqlRows = RowsOf(work) /\ SqlRows' = Put(SqlRows, r, v) /\ Carried /\ SqlInv'
    BY <1>1, <2>2, <2>3, SqlStatement, ViewIs
  <2>5. r \notin DOMAIN SqlRows
    BY <2>2, <2>4, RowsKnown
  <2> QED BY <2>4, <2>5, SqlPuts DEF SqlStep
<1>2. CASE ~mem.built
  <2> DEFINE b == Put(work.buffer, r, v)
             z == [work EXCEPT !.buffer = b]
  <2>1. Statement(z, mem) /\ r \notin DOMAIN work.buffer
    BY <1>2 DEF Insert, Ready, AddedFile, AddedMem, Known
  <2>2. Shape(work) /\ Buffer(work.buffer)
    BY <1>2, UnbuiltBuffer
  <2>3. Buffer(b) /\ IsFunction(b)
    <3>1. IsFunction(b)
      BY PutIsFunction
    <3>2. DOMAIN b = DOMAIN work.buffer \cup {r}
          /\ \A l \in DOMAIN b : b[l] = IF l = r THEN v ELSE work.buffer[l]
      BY DEF Put
    <3> HIDE DEF b
    <3>3. Buffer(b)
      BY <2>2, <3>2 DEF Buffer
    <3> QED BY <3>1, <3>3
  <2>4. b = Put(work.buffer, r, v)
    OBVIOUS
  <2> HIDE DEF b
  <2>5. z.buffer = b /\ z.state = work.state
    BY <2>2, <2>3, BufferFacts
  <2> HIDE DEF z
  <2>6. z.state.built = mem.built
    BY <2>5 DEF SqlInv
  <2>7. View(z, mem.built) = b /\ View(work, mem.built) = work.buffer
    BY <1>2, <2>5, ViewIs
  <2>8. SqlRows = work.buffer /\ SqlRows' = Put(SqlRows, r, v) /\ Carried /\ SqlInv'
    BY <2>1, <2>3, <2>4, <2>5, <2>6, <2>7, SqlStatement
  <2>9. r \notin DOMAIN SqlRows
    BY <2>1, <2>8
  <2> QED BY <2>8, <2>9, SqlPuts DEF SqlStep
<1> QED BY <1>1, <1>2

LEMMA SqlInsertUndone ==
  ASSUME TableInv, SqlInv, NEW r \in RowIds, NEW v \in Vecs, InsertUndone(r, v)
  PROVE  SqlStep /\ SqlInv'
<1> DEFINE m == Loaded(work, mem)
           y == AddedFile(work, m, r, v)
           c == AddedMem(y, m)
           k == [c EXCEPT !.next = m.next]
<1>1. mem.built
  BY DEF InsertUndone
<1>2. /\ layout \in {"graph", "ivf"} /\ moved \in BOOLEAN /\ work.state.built = mem.built
  BY DEF TableInv, TableGood, SqlInv
<1>3. /\ MemType(m) /\ m.loaded /\ m.built /\ FileGood(layout, work, m, m.head, moved)
  BY <1>1, ReadyFacts DEF TableInv
<1>4. /\ r \notin DOMAIN work.rowids /\ m.next < Limit
      /\ Statement(work, c) \/ Statement(work, k)
  <2>1. Ready(work, mem) = m
    BY <1>1 DEF Ready
  <2> HIDE DEF m
  <2> QED BY <1>3, <2>1 DEF InsertUndone, Known
<1> HIDE DEF m
<1>5. MemType(c) /\ c.built
  BY <1>2, <1>3, <1>4, AddedFacts
<1> HIDE DEF y, c
<1>6. k.built = c.built
  BY <1>5 DEF MemType
<1> HIDE DEF k
<1>7. PICK n \in {c, k} : Statement(work, n)
  BY <1>4
<1>8. n.built
  BY <1>5, <1>6, <1>7
<1>9. View(work, n.built) = View(work, mem.built)
  BY <1>1, <1>8, ViewIs
<1>10. work.state.built = n.built
  <2>1. mem.built \in BOOLEAN /\ n.built \in BOOLEAN
    BY <1>5, <1>6, <1>7 DEF MemType, TableInv, TableGood
  <2> QED BY <1>1, <1>2, <1>8, <2>1
<1>11. SqlStays /\ SqlInv'
  BY <1>7, <1>8, <1>9, <1>10, SqlNoChange
<1> QED BY <1>11 DEF SqlStep

(* A row removed.                                                          *)
LEMMA RemovedRows ==
  ASSUME TableInv, SqlInv, NEW r
  PROVE  LET z == Removed(work, mem, r)
         IN  /\ View(z, mem.built) = Less(View(work, mem.built), r)
             /\ z.state.built = mem.built /\ (~mem.built => IsFunction(z.buffer))
<1> DEFINE z == Removed(work, mem, r)
<1>0. work.state.built = mem.built
  BY DEF SqlInv
<1>1. CASE mem.built
  <2>1. /\ layout \in {"graph", "ivf"} /\ moved \in BOOLEAN /\ MemType(mem)
        /\ FileGood(layout, work, mem, HeadNow(work, mem), moved)
    BY <1>1, BuiltFacts DEF TableInv
  <2>2. /\ RowsOf(z) = Less(RowsOf(work), r) /\ (work.state.built => z.state.built)
        /\ FileGood(layout, z, mem, HeadNow(work, mem), moved)
    BY <1>1, <2>1, RemovedFacts
  <2> HIDE DEF z
  <2>3. View(z, mem.built) = RowsOf(z) /\ View(work, mem.built) = RowsOf(work)
    BY <1>1, ViewIs
  <2>4. z.state.built \in BOOLEAN /\ mem.built \in BOOLEAN
    BY <2>1, <2>2 DEF FileGood, Shape, MemType
  <2>5. z.state.built = mem.built
    BY <1>0, <1>1, <2>2, <2>4
  <2> QED BY <1>1, <2>2, <2>3, <2>5 DEF z
<1>2. CASE ~mem.built
  <2> DEFINE b == Restrict(work.buffer, DOMAIN work.buffer \ {r})
  <2>1. z = [work EXCEPT !.buffer = b]
    BY <1>2 DEF Removed
  <2>2. Shape(work) /\ Buffer(work.buffer)
    BY <1>2, UnbuiltBuffer
  <2>3. Buffer(b)
    BY <2>2, BufferWithout
  <2>4. b = Less(work.buffer, r)
    BY WithoutIsLess
  <2> HIDE DEF b, z
  <2>5. z.buffer = b /\ z.state = work.state
    BY <2>1, <2>2, <2>3, BufferFacts
  <2>6. View(z, mem.built) = b /\ View(work, mem.built) = work.buffer
    BY <1>2, <2>5, ViewIs
  <2> QED BY <1>0, <2>4, <2>5, <2>6, LessIsFunction DEF z
<1> QED BY <1>1, <1>2

LEMMA RemovedIsRemoved ==
  ASSUME TableInv, SqlInv, NEW r \in RowIds, NEW k, k.built = mem.built,
         Statement(Removed(work, mem, r), k)
  PROVE  SqlStep /\ SqlInv'
<1> DEFINE z == Removed(work, mem, r)
<1>1. /\ View(z, mem.built) = Less(View(work, mem.built), r)
      /\ z.state.built = mem.built /\ (~mem.built => IsFunction(z.buffer))
  BY RemovedRows
<1>2. Statement(z, k)
  OBVIOUS
<1> HIDE DEF z
<1>3. SqlRows' = Less(SqlRows, r) /\ Carried /\ SqlInv'
  BY <1>1, <1>2, SqlStatement
<1> QED BY <1>3, SqlRemoves DEF SqlStep

LEMMA SqlDelete ==
  ASSUME TableInv, SqlInv, NEW r \in RowIds, Delete(r)
  PROVE  SqlStep /\ SqlInv'
BY RemovedIsRemoved DEF Delete

LEMMA ReadyBuilt == TableInv => Ready(work, mem).built = mem.built
<1> SUFFICES ASSUME TableInv PROVE Ready(work, mem).built = mem.built
  OBVIOUS
<1>1. MemType(mem)
  BY DEF TableInv, TableGood
<1>2. Loaded(work, mem).built = mem.built
  BY <1>1, LoadedFacts
<1> QED BY <1>2 DEF Ready

LEMMA SqlUpdateRefused ==
  ASSUME TableInv, SqlInv, NEW r \in RowIds, UpdateRefused(r)
  PROVE  SqlStep /\ SqlInv'
<1> DEFINE k == Ready(work, mem)
<1>1. k.built = mem.built
  BY ReadyBuilt
<1>2. Statement(Removed(work, mem, r), k) \/ Statement(work, k)
  BY DEF UpdateRefused
<1> HIDE DEF k
<1>3. CASE Statement(Removed(work, mem, r), k)
  BY <1>1, <1>3, RemovedIsRemoved
<1>4. CASE Statement(work, k)
  <2>1. work.state.built = k.built /\ (~k.built => IsFunction(work.buffer))
    BY <1>1 DEF SqlInv
  <2>2. SqlStays /\ SqlInv'
    BY <1>1, <1>4, <2>1, SqlNoChange
  <2> QED BY <2>2 DEF SqlStep
<1> QED BY <1>2, <1>3, <1>4

LEMMA SqlUpdate ==
  ASSUME TableInv, SqlInv, NEW r \in RowIds, NEW to \in RowIds, NEW v \in Vecs, Update(r, to, v)
  PROVE  SqlStep /\ SqlInv'
<1>1. CASE mem.built
  <2> DEFINE m == Loaded(work, mem)
             t == Removed(work, m, r)
             y == AddedFile(t, m, to, v)
             k == AddedMem(y, m)
             z == Saved(y, k)
  <2>1. /\ MemType(m) /\ m.loaded /\ m.built /\ FileGood(layout, work, m, m.head, moved)
    BY <1>1, ReadyFacts DEF TableInv
  <2>2. /\ r \in DOMAIN work.rowids /\ to \notin DOMAIN work.rowids \ {r}
        /\ m.next < Limit /\ Statement(z, k)
    <3>1. Ready(work, mem) = m
      BY <1>1 DEF Ready
    <3> HIDE DEF m
    <3> QED BY <1>1, <2>1, <3>1 DEF Update, Known
  <2>3. layout \in {"graph", "ivf"} /\ moved \in BOOLEAN
    BY DEF TableInv, TableGood
  <2>4. /\ FileGood(layout, t, m, m.head, moved) /\ DOMAIN t.rowids = DOMAIN work.rowids \ {r}
        /\ RowsOf(t) = Less(RowsOf(work), r)
    <3> HIDE DEF m, y, k, z
    <3>1. FileGood(layout, t, m, m.head, moved) /\ DOMAIN t.rowids = DOMAIN work.rowids \ {r}
      BY <2>1, <2>3, RemovedFacts
    <3>2. RowsOf(t) = Less(RowsOf(work), r)
      BY <2>1, <2>3, RemovedFacts
    <3> QED BY <3>1, <3>2
  <2> HIDE DEF t
  <2>5. View(z, k.built) = Put(RowsOf(t), to, v) /\ k.built /\ z.state.built = k.built
    BY <1>1, <2>2, <2>4, AddedRows
  <2> HIDE DEF m, y, k, z
  <2>6. /\ SqlRows = RowsOf(work) /\ SqlRows' = Put(Less(SqlRows, r), to, v)
        /\ Carried /\ SqlInv'
    BY <1>1, <2>2, <2>4, <2>5, SqlStatement, ViewIs
  <2>7. r \in DOMAIN SqlRows /\ to \notin DOMAIN SqlRows \ {r}
    BY <2>2, <2>6, RowsKnown
  <2> QED BY <2>6, <2>7, SqlChanges DEF SqlStep
<1>2. CASE ~mem.built
  <2> DEFINE b == Restrict(work.buffer, DOMAIN work.buffer \ {r})
             one == [work EXCEPT !.buffer = b]
             c == Put(one.buffer, to, v)
             z == [one EXCEPT !.buffer = c]
  <2>1. /\ Statement(z, mem) /\ r \in DOMAIN work.buffer
        /\ to \notin DOMAIN work.buffer \ {r}
    BY <1>2 DEF Update, Ready, Removed, AddedFile, AddedMem, Known
  <2>2. Shape(work) /\ Buffer(work.buffer)
    BY <1>2, UnbuiltBuffer
  <2>3. Buffer(b) /\ b = Less(work.buffer, r)
    BY <2>2, BufferWithout, WithoutIsLess
  <2> HIDE DEF b
  <2>4. Shape(one) /\ one.buffer = b /\ one.state = work.state
    BY <2>2, <2>3, BufferFacts
  <2> HIDE DEF one
  <2>5. Buffer(c) /\ IsFunction(c) /\ c = Put(b, to, v)
    <3>1. c = Put(b, to, v)
      BY <2>4
    <3> HIDE DEF c
    <3>2. Buffer(c)
      BY <2>3, <3>1 DEF Buffer, Put
    <3> QED BY <3>1, <3>2, PutIsFunction
  <2> HIDE DEF c
  <2>6. z.buffer = c /\ z.state = work.state
    BY <2>4, <2>5, BufferFacts
  <2> HIDE DEF z
  <2>7. z.state.built = mem.built
    BY <2>6 DEF SqlInv
  <2>8. View(z, mem.built) = c /\ View(work, mem.built) = work.buffer
    BY <1>2, <2>6, ViewIs
  <2>9. /\ SqlRows = work.buffer /\ SqlRows' = Put(Less(SqlRows, r), to, v)
        /\ Carried /\ SqlInv'
    BY <2>1, <2>3, <2>5, <2>6, <2>7, <2>8, SqlStatement
  <2>10. r \in DOMAIN SqlRows /\ to \notin DOMAIN SqlRows \ {r}
    BY <2>1, <2>9
  <2> QED BY <2>9, <2>10, SqlChanges DEF SqlStep
<1> QED BY <1>1, <1>2

-----------------------------------------------------------------------------
(* The tables rewritten whole, with the rows they had.                     *)
LEMMA SqlReplaced ==
  ASSUME TableInv, SqlInv, mem.built, ~tx, Idle,
         NEW z, NEW k, work' = z, disk' = z, mem' = k, UNCHANGED << layout, tx, auto >>,
         k.built, z.state.built = k.built, RowsOf(z) = RowsOf(work)
  PROVE  SqlStep /\ SqlInv'
<1>1. auto.pc = "idle" /\ IsFunction(auto.rows)
  BY DEF Idle, SqlInv
<1>2. SqlRows' = View(z, k.built) /\ SqlSaved' = View(z, z.state.built)
  BY <1>1, SqlAfter
<1>3. SqlRows = View(work, mem.built) /\ SqlSaved = SqlRows
  BY <1>1, SqlNow, SqlSettled
<1>4. View(z, k.built) = View(work, mem.built)
  BY ViewIs
<1>5. SqlStays
  BY <1>2, <1>3, <1>4 DEF SqlStays
<1>6. SqlInv'
  BY <1>1 DEF SqlInv
<1> QED BY <1>5, <1>6 DEF SqlStep

LEMMA SqlFinalize == TableInv /\ SqlInv /\ Finalize => SqlStep /\ SqlInv'
<1> SUFFICES ASSUME TableInv, SqlInv, Finalize PROVE SqlStep /\ SqlInv'
  OBVIOUS
<1> DEFINE m == Loaded(work, mem)
           t == IF layout = "ivf" THEN FinalizeIvf(work, m) ELSE FinalizeGraph(work, m)
           yes == TRUE
           no == FALSE
           done == [m EXCEPT !.hints = yes, !.loaded = no]
           z == Saved(t, done)
<1>1. /\ mem.built /\ ~tx /\ Idle
      /\ work' = z /\ disk' = z /\ mem' = done /\ UNCHANGED << layout, tx, auto >>
  BY DEF Finalize, Effect
<1>2. layout \in {"graph", "ivf"} /\ moved \in BOOLEAN
  BY DEF TableInv, TableGood
<1>3. /\ MemType(m) /\ m.built /\ FileGood(layout, work, m, m.head, moved)
  BY <1>1, ReadyFacts DEF TableInv
<1>4. yes \in BOOLEAN /\ yes /\ no \in BOOLEAN
  OBVIOUS
<1> HIDE DEF m, yes, no
<1>5. Shape(work) /\ Good(layout, work, m.next, m.head, m.hints, moved) /\ m.next \in Nat
  BY <1>3 DEF FileGood, MemType
<1>6. Shape(t) /\ RowsOf(t) = RowsOf(work)
  <2>1. CASE layout = "ivf"
    <3>1. t = FinalizeIvf(work, m)
      BY <2>1
    <3>2. IvfBase(work, m.next, m.hints, moved) /\ IvfHead(work, m.next, m.head)
      BY <1>5, <2>1 DEF Good
    <3> HIDE DEF t
    <3>3. Shape(t) /\ IvfView(t) = IvfView(work)
      BY <1>2, <1>4, <1>5, <3>1, <3>2, FinalizeIvfFacts
    <3> QED BY <2>1, <3>3 DEF RowsOf
  <2>2. CASE layout # "ivf"
    <3>1. t = FinalizeGraph(work, m)
      BY <2>2
    <3>2. GraphBase(work, m.next, m.hints, moved) /\ m.head \in Seq(GoodRefs(work, m.hints, moved))
      BY <1>5, <2>2 DEF Good
    <3>3. m.head \in Seq(RefType)
      <4>1. GoodRefs(work, m.hints, moved) \subseteq RefType
        BY DEF GoodRefs
      <4> QED BY <3>2, <4>1, SeqMonotonic
    <3> HIDE DEF t
    <3>4. Shape(t) /\ GraphView(t) = GraphView(work)
      BY <1>2, <1>4, <1>5, <3>1, <3>2, <3>3, FinalizeGraphFacts
    <3> QED BY <2>2, <3>4 DEF RowsOf
  <2> QED BY <2>1, <2>2
<1> HIDE DEF t
<1>7. done.built = m.built /\ MemType(done)
  <2>1. done = [m EXCEPT !.hints = yes, !.loaded = no]
    OBVIOUS
  <2> HIDE DEF done, z
  <2>2. done = [built |-> m.built, next |-> m.next, hints |-> yes, loaded |-> no, head |-> m.head]
    BY <1>3, <2>1 DEF MemType
  <2> QED BY <1>3, <1>4, <2>2 DEF MemType
<1> HIDE DEF done
<1>8. IsSaved(z, t, done)
  BY <1>6, <1>7, SavedFacts
<1> HIDE DEF z
<1>9. SameTables(z, t) /\ z.state.built = done.built
  BY <1>8 DEF IsSaved
<1>10. RowsOf(z) = RowsOf(work)
  BY <1>6, <1>9, RowsSame
<1>11. done.built
  BY <1>3, <1>7
<1> QED BY <1>1, <1>9, <1>10, <1>11, SqlReplaced

LEMMA SqlVacuum == TableInv /\ SqlInv /\ Vacuum => SqlStep /\ SqlInv'
<1> SUFFICES ASSUME TableInv, SqlInv, Vacuum PROVE SqlStep /\ SqlInv'
  OBVIOUS
<1> DEFINE z == VacuumFile(work)
           h == HeadNow(work, mem)
           now == mem.hints
<1>1. /\ mem.built /\ ~tx /\ Idle
      /\ work' = z /\ disk' = z /\ mem' = mem /\ UNCHANGED << layout, tx, auto >>
  BY DEF Vacuum, Effect
<1>2. /\ layout \in {"graph", "ivf"} /\ moved \in BOOLEAN /\ MemType(mem)
      /\ FileGood(layout, work, mem, h, moved)
  BY <1>1, BuiltFacts DEF TableInv
<1>3. /\ Shape(work) /\ now \in BOOLEAN /\ mem.next \in Nat
      /\ Good(layout, work, mem.next, h, now, moved)
  BY <1>1, <1>2 DEF FileGood, MemType
<1> HIDE DEF h, now
<1>4. z.state = work.state /\ RowsOf(z) = RowsOf(work)
  BY <1>2, <1>3, VacuumGood
<1> HIDE DEF z
<1>5. z.state.built = mem.built
  BY <1>4 DEF SqlInv
<1> QED BY <1>1, <1>4, <1>5, SqlReplaced

(* Transactions, and the end of a connection.                              *)
LEMMA SqlBegin == TableInv /\ SqlInv /\ Begin => SqlStep /\ SqlInv'
<1> SUFFICES ASSUME TableInv, SqlInv, Begin PROVE SqlStep /\ SqlInv'
  OBVIOUS
<1> DEFINE yes == TRUE
<1>1. /\ auto.pc = "idle" /\ ~tx /\ tx' = yes
      /\ layout' = layout /\ disk' = disk /\ work' = work /\ mem' = mem /\ auto' = auto
  BY DEF Begin, Idle
<1> HIDE DEF yes
<1>2. SqlRows' = SqlRows /\ SqlSaved' = SqlSaved
  BY <1>1, SqlAfter, SqlNow
<1>3. SqlInv'
  BY <1>1 DEF SqlInv
<1>4. tx' = TRUE
  BY <1>1 DEF yes
<1>5. Sql!SqlNext
  BY <1>1, <1>2, <1>4, SqlBegins
<1> QED BY <1>3, <1>5 DEF SqlStep

LEMMA SqlCommit == TableInv /\ SqlInv /\ Commit => SqlStep /\ SqlInv'
<1> SUFFICES ASSUME TableInv, SqlInv, Commit PROVE SqlStep /\ SqlInv'
  OBVIOUS
<1> DEFINE no == FALSE
<1>1. /\ auto.pc = "idle" /\ tx /\ tx' = no
      /\ layout' = layout /\ disk' = work /\ work' = work /\ mem' = mem /\ auto' = auto
  BY DEF Commit, Idle
<1> HIDE DEF no
<1>2. work.state.built = mem.built
  BY DEF SqlInv
<1>3. SqlRows' = SqlRows /\ SqlSaved' = SqlRows
  BY <1>1, <1>2, SqlAfter, SqlNow
<1>4. SqlInv'
  BY <1>1, <1>2 DEF SqlInv
<1>5. tx' = FALSE
  BY <1>1 DEF no
<1>6. Sql!SqlNext
  BY <1>1, <1>3, <1>5, SqlCommits
<1> QED BY <1>4, <1>6 DEF SqlStep

LEMMA SqlRollback ==
  ASSUME NothingLost, TableInv, SqlInv, Rollback
  PROVE  SqlStep /\ SqlInv'
<1> DEFINE no == FALSE
<1>1. /\ auto.pc = "idle" /\ tx /\ tx' = no
      /\ layout' = layout /\ disk' = disk /\ work' = disk /\ mem' = mem /\ auto' = auto
  BY DEF Rollback, Idle
<1> HIDE DEF no
<1>2. mem.built = disk.state.built
  BY DEF Rollback, NothingLost
<1>3. SqlRows' = SqlSaved /\ SqlSaved' = SqlSaved
  BY <1>1, <1>2, SqlAfter, SqlNow
<1>4. SqlInv'
  BY <1>1, <1>2 DEF SqlInv
<1>5. tx' = FALSE
  BY <1>1 DEF no
<1>6. Sql!SqlNext
  BY <1>1, <1>3, <1>5, SqlRollsBack
<1> QED BY <1>4, <1>6 DEF SqlStep

LEMMA SqlReopen ==
  ASSUME NothingLost, TableInv, SqlInv, Reopen
  PROVE  SqlStep /\ SqlInv'
<1> DEFINE no == FALSE
           k == Connected(disk)
           a == NoBuild
<1>1. /\ auto.pc = "idle" \/ tx
      /\ layout' = layout /\ disk' = disk /\ work' = disk /\ mem' = k /\ auto' = a /\ tx' = no
  BY DEF Reopen, Idle, NothingLost
<1>2. k.built = disk.state.built
  BY DEF Connected
<1>3. a.pc = "idle" /\ IsFunction(a.rows)
  BY EmptyIsFunction DEF NoBuild
<1> HIDE DEF no, k, a
<1>4. SqlRows' = SqlSaved /\ SqlSaved' = SqlSaved
  BY <1>1, <1>2, <1>3, SqlAfter, SqlNow
<1>5. SqlInv'
  BY <1>1, <1>2, <1>3 DEF SqlInv
<1>6. tx' = FALSE
  BY <1>1 DEF no
<1>7. Sql!SqlNext
  BY <1>4, <1>6, SqlCrashes
<1> QED BY <1>5, <1>7 DEF SqlStep

LEMMA SqlStart == Init => Sql!SqlInit /\ SqlInv
<1> SUFFICES ASSUME Init PROVE Sql!SqlInit /\ SqlInv
  OBVIOUS
<1> DEFINE none == << >>
           no == FALSE
           e == EmptyFile
           k == Connected(e)
           a == NoBuild
<1>1. disk = e /\ work = e /\ mem = k /\ auto = a /\ tx = no
  BY DEF Init
<1>2. e.buffer = none /\ e.state.built = no /\ ~no /\ k.built = e.state.built
  BY DEF EmptyFile, Connected
<1>3. a.pc = "idle" /\ a.rows = none
  BY DEF NoBuild
<1>4. IsFunction(none)
  BY EmptyIsFunction
<1> HIDE DEF none, no, e, k, a
<1>5. SqlRows = none /\ SqlSaved = none
  BY <1>1, <1>2, <1>3, SqlNow, ViewIs
<1>6. SqlInv
  BY <1>1, <1>2, <1>3, <1>4 DEF SqlInv
<1>7. Sql!SqlInit
  BY <1>1, <1>5 DEF Sql!SqlInit, SqlRows, SqlSaved, none, no
<1> QED BY <1>6, <1>7

LEMMA SqlMoves ==
  ASSUME NothingLost, TableInv, SqlInv, [Next]_vars
  PROVE  SqlStep /\ SqlInv'
<1>1. CASE Build
  BY <1>1, SqlBuild
<1>2. CASE AutoStart
  BY <1>2, SqlAutoStart
<1>3. CASE AutoRows
  BY <1>3, SqlAutoRows
<1>4. CASE AutoState
  BY <1>4, SqlAutoState
<1>5. CASE AutoFails
  BY <1>5, SqlAutoFails
<1>6. CASE FallbackDone
  BY <1>6, SqlFallbackDone
<1>7. CASE Query
  BY <1>7, SqlQuery
<1>8. CASE \E r \in RowIds, v \in Vecs : Insert(r, v) \/ InsertUndone(r, v)
  BY <1>8, SqlInsert, SqlInsertUndone
<1>9. CASE \E r \in RowIds : Delete(r) \/ UpdateRefused(r)
  BY <1>9, SqlDelete, SqlUpdateRefused
<1>10. CASE \E r, to \in RowIds, v \in Vecs : Update(r, to, v)
  BY <1>10, SqlUpdate
<1>11. CASE Finalize
  BY <1>11, SqlFinalize
<1>12. CASE Vacuum
  BY <1>12, SqlVacuum
<1>13. CASE Begin
  BY <1>13, SqlBegin
<1>14. CASE Commit
  BY <1>14, SqlCommit
<1>15. CASE Rollback
  BY <1>15, SqlRollback
<1>16. CASE Reopen
  BY <1>16, SqlReopen
<1>17. CASE UNCHANGED vars
  <2>1. /\ layout' = layout /\ disk' = disk /\ work' = work /\ tx' = tx
        /\ mem' = mem /\ auto' = auto
    BY <1>17 DEF vars
  <2>2. SqlRows' = SqlRows /\ SqlSaved' = SqlSaved
    BY <2>1, SqlAfter, SqlNow
  <2>3. SqlInv'
    <3>1. RowsOf(work)' = RowsOf(work)
      BY <2>1 DEF RowsOf, GraphView, IvfView, VecOfNode, VecOfSlot
    <3> QED BY <2>1, <3>1 DEF SqlInv
  <2> QED BY <2>1, <2>2, <2>3 DEF SqlStep, SqlStays
<1> QED BY <1>1, <1>2, <1>3, <1>4, <1>5, <1>6, <1>7, <1>8, <1>9, <1>10, <1>11, <1>12,
           <1>13, <1>14, <1>15, <1>16, <1>17 DEF Next

LEMMA SqlDeletes == TableInv /\ SqlInv => DeletesCount
<1> SUFFICES ASSUME TableInv, SqlInv, UNCHANGED View(work, mem.built),
                    NEW r \in Known(work, mem), Delete(r)
             PROVE  FALSE
  BY DEF DeletesCount
<1> DEFINE z == Removed(work, mem, r)
           seen == View(work, mem.built)
<1>1. layout' = layout /\ work' = z /\ mem' = mem
  BY DEF Delete, Statement, Effect
<1>2. View(z, mem.built) = Less(seen, r)
  BY RemovedRows
<1>3. r \in DOMAIN seen
  BY ViewIs, RowsKnown DEF Known
<1> HIDE DEF z
<1>4. View(work, mem.built)' = View(z, mem.built)
  BY <1>1 DEF View, VecOf, VecOfSlot, VecOfNode
<1>5. Less(seen, r) = seen
  BY <1>2, <1>4
<1> HIDE DEF seen
<1>6. r \notin DOMAIN Less(seen, r)
  BY DEF Less
<1> QED BY <1>3, <1>5, <1>6

(* The virtual table is a table of SQL: every statement, transaction,      *)
(* build, finalize and VACUUM, and a connection that ends between any two  *)
(* of them, leaves the rows SQL promises, and no deletion leaves its row   *)
(* (dense_update, do_build, dense_filter, do_finalize, load_config).       *)
THEOREM DenseImplementsSql ==
  ASSUME NothingLost
  PROVE  Spec => ImplementsSql
<1>1. Init => Sql!SqlInit /\ SqlInv
  BY SqlStart
<1>2. TableInv /\ SqlInv /\ [Next]_vars =>
        /\ [Sql!SqlNext]_(Sql!sqlVars) /\ SqlInv' /\ [DeletesCount]_vars
  <2> SUFFICES ASSUME TableInv, SqlInv, [Next]_vars
               PROVE  /\ [Sql!SqlNext]_(Sql!sqlVars) /\ SqlInv' /\ [DeletesCount]_vars
    OBVIOUS
  <2>1. SqlStep /\ SqlInv'
    BY SqlMoves
  <2>2. SqlStays => UNCHANGED Sql!sqlVars
    BY DEF SqlStays, SqlRows, SqlSaved, Sql!sqlVars
  <2>3. [DeletesCount]_vars
    BY SqlDeletes
  <2> QED BY <2>1, <2>2, <2>3 DEF SqlStep
<1> QED BY <1>1, <1>2, TableInvariant, PTL DEF Spec, ImplementsSql, Sql!SqlSpec
=============================================================================
