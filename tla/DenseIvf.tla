------------------------------ MODULE DenseIvf ------------------------------
(***************************************************************************)
(* The IVF layout of dense_ann: posting lists stored as chunks, a          *)
(* directory of chunk counts and page ranges kept in memory, vectors by    *)
(* slot.  The quantiser is the constant ListOf.                            *)
(***************************************************************************)
EXTENDS DenseFile

CONSTANTS
  NLists,   \* lists asked for (nlist)
  WordLists, \* lists a 32-bit word has numbers for, 2^32 / Stride: 4096 in the code
  ListOf,   \* ListOf[n][v]: the nearest of n lists to a vector
  Cap       \* entries of a chunk (ivf_chunk_cap)

Stride == 1048576  \* 2^IVF_LIST_SHIFT

\* (The number of a chunk must fit in its key, which the code does not check.)
ASSUME IvfAssumption ==
  /\ {NLists, WordLists, Cap} \subseteq Nat \ {0}
  /\ \A n \in 1 .. NLists : ListOf[n] \in [Vecs -> 0 .. n - 1]
  /\ Cardinality(RowIds) <= Stride /\ 2 * MaxSlots <= Stride

ListKey(L, j) == L * Stride + j
ListOfKey(k) == k \div Stride

\* What (uint32_t) leaves of the key of a chunk.
WordKey(L, j) == ListKey(L % WordLists, j)

\* The lists asked for have keys of their own in a word: nothing checks that.
KeysFit == NLists <= WordLists

KeysOf(t, L) == {k \in DOMAIN t.lists : ListOfKey(k) = L}

Entry(r, v) == [row |-> r, dead |-> FALSE, page |-> 0, code |-> CodeOf[v]]

\* The list a vector goes to, by the centroids in memory.
ListFor(head, v) == ListOf[Cardinality(DOMAIN head)][v]

(***************************************************************************)
(* build_ivf: slots in the order of (list, rowid), each list cut into      *)
(* chunks of Cap entries; the lists are written before the vectors, and    *)
(* both after the pages of the buffer.                                     *)
(***************************************************************************)
BuildIvf(t, rows) ==
  LET ids   == DOMAIN rows
      n     == Cardinality(ids)
      nl    == IF NLists > n THEN n ELSE NLists
      In(r) == ListOf[nl][rows[r]]
      Slot(r) == Cardinality({u \in ids : In(u) < In(r) \/ (In(u) = In(r) /\ u < r)})
      RowIn(s) == CHOOSE r \in ids : Slot(r) = s
      Start(L) == Cardinality({r \in ids : In(r) < L})
      Chunks(L) == (Start(L + 1) - Start(L) + Cap - 1) \div Cap
      Size(L, first) == IF Start(L + 1) - first > Cap THEN Cap ELSE Start(L + 1) - first
      Chunk(L, first) ==
        [first |-> first, page |-> 0,
         ents |-> [e \in 1 .. Size(L, first) |->
                     Entry(RowIn(first + e - 1), rows[RowIn(first + e - 1)])]]
      keys  == UNION {{ListKey(L, j) : j \in 0 .. Chunks(L) - 1} : L \in 0 .. nl - 1}
      lists == [k \in keys |-> Chunk(ListOfKey(k), Start(ListOfKey(k)) + (k % Stride) * Cap)]
      vecs  == [s \in 0 .. n - 1 |-> rows[RowIn(s)]]
  IN [Lay(Lay([t EXCEPT !.top = n], "lists", lists), "vectors", vecs) EXCEPT
        !.rowids = [r \in ids |-> [list |-> In(r), slot |-> Slot(r)]],
        !.head = [L \in 0 .. nl - 1 |-> [n |-> Chunks(L), first |-> 0, last |-> 0]]]

\* insert_ivf: a chunk of one entry under the next number of its list.
CountChunk(head, L) == [head EXCEPT ![L].n = @ + 1]

InsertEntry(t, mem, r, v) ==
  LET L     == ListFor(mem.head, v)
      chunk == [first |-> mem.next, page |-> 0, ents |-> << Entry(r, v) >>]
      put   == InsertRow(InsertRow(t, "lists", ListKey(L, mem.head[L].n), chunk),
                         "vectors", mem.next, v)
  IN [put EXCEPT !.rowids = Put(@, r, [list |-> L, slot |-> mem.next]),
                 !.head = CountChunk(mem.head, L)]

\* Mutant: the rowid map keeps the row.
DeleteEntryMapped(t, r) ==
  [t EXCEPT !.lists = [k \in DOMAIN @ |->
      [@[k] EXCEPT !.ents = [e \in DOMAIN @ |-> [@[e] EXCEPT !.dead = @ \/ t.lists[k].ents[e].row = r]]]]]

\* delete_ivf: the entry is flagged, in the byte that held its page.
DeleteEntry(t, r) ==
  LET at  == t.rowids[r]
      hit == {k \in KeysOf(t, at.list) :
                at.slot \in t.lists[k].first .. t.lists[k].first + Len(t.lists[k].ents) - 1}
      Flag(e) == IF e.row = r THEN [e EXCEPT !.dead = TRUE, !.page = 0] ELSE e
      Flagged(c) == [c EXCEPT !.ents[at.slot - c.first + 1] = Flag(@)]
  IN [t EXCEPT !.rowids = Restrict(@, DOMAIN @ \ {r}),
               !.lists = [k \in DOMAIN t.lists |->
                            IF k \in hit THEN Flagged(t.lists[k]) ELSE t.lists[k]]]

(***************************************************************************)
(* finalize_ivf: the page range of each list, none if its pages do not     *)
(* ascend, and the vector page of every live entry.                        *)
(***************************************************************************)
Ascends(t, L) ==
  \A k, l \in KeysOf(t, L) : k < l => t.pages.lists[k] <= t.pages.lists[l]

Ranged(t, head, L) ==
  LET keys == KeysOf(t, L)
  IN IF keys = {} THEN head[L]
     ELSE IF ~Ascends(t, L) THEN [head[L] EXCEPT !.first = 0, !.last = 0]
     ELSE [head[L] EXCEPT
             !.first = IF ListKey(L, 0) \in keys THEN t.pages.lists[ListKey(L, 0)] ELSE @,
             !.last = t.pages.lists[CHOOSE k \in keys : \A l \in keys : l <= k]]

PagedChunk(t, n, c) ==
  LET Page(slot) == IF slot < n THEN PageOf(t, "vectors", slot) ELSE 0
      fvp == Page(c.first)
      Paged(e) == LET p == Page(c.first + e - 1)
                  IN IF c.ents[e].dead THEN c.ents[e]
                     ELSE [c.ents[e] EXCEPT !.page = IF fvp # 0 /\ p >= fvp THEN p ELSE 0]
  IN [c EXCEPT !.page = fvp, !.ents = [e \in DOMAIN c.ents |-> Paged(e)]]

FinalizeIvf(t, mem) ==
  [t EXCEPT !.head = [L \in DOMAIN mem.head |-> Ranged(t, mem.head, L)],
            !.lists = [k \in DOMAIN t.lists |->
                         IF ListOfKey(k) \in DOMAIN mem.head
                         THEN PagedChunk(t, mem.next, t.lists[k]) ELSE t.lists[k]]]

\* Mutant: within the range there is no fall back to SQL.
ReadChunkHinted(t, dir, L, raw, s, j) ==
  LET key  == ListKey(L, j)
      hits == {p \in s.g .. dir.last : OnPage(t, key, p) # {}}
      word == WordKey(L, j)
      from == IF raw /\ dir.first # 0
              THEN {<< u, key >> : u \in UNION {OnPage(t, key, p) : p \in hits}}
              ELSE {<< u, word >> : u \in Source(t, "lists", word, 0, FALSE)}
  IN [s EXCEPT !.got = @ \cup from]

(***************************************************************************)
(* ivf_search over one list: its chunks in order, on the pages of its      *)
(* range from where the last one was found, or by SQL.  A row of another   *)
(* table with the same id is taken for the chunk.  The request for SQL     *)
(* holds the id in 32 bits, so that far lists ask for the chunk of another *)
(* list.                                                                   *)
(***************************************************************************)
ReadChunk(t, dir, L, raw, s, j) ==
  LET key  == ListKey(L, j)
      hits == IF raw /\ dir.first # 0
              THEN {p \in s.g .. dir.last : OnPage(t, key, p) # {}} ELSE {}
      p    == CHOOSE h \in hits : \A o \in hits : h <= o
      word == WordKey(L, j)
  IN IF hits = {}
     THEN [g |-> dir.first, got |-> s.got \cup {<< u, word >> : u \in Source(t, "lists", word, 0, FALSE)}]
     ELSE [g |-> p, got |-> s.got \cup {<< u, key >> : u \in OnPage(t, key, p)}]

ChunksRead(t, mem, L, raw) ==
  LET dir == mem.head[L]
      read[n \in 0 .. dir.n] ==
        IF n = 0 THEN [g |-> dir.first, got |-> {}]
        ELSE ReadChunk(t, dir, L, raw, read[n - 1], n - 1)
  IN read[dir.n].got

Garbage == -1  \* bytes of another table's row read as rowids and distances

\* ivf_scan_chunk: the live entries of a chunk.
Scan(t, source) ==
  IF source[1] # "lists" THEN {[row |-> Garbage, slot |-> 0, page |-> 0]}
  ELSE LET c == t.lists[source[2]]
       IN {[row |-> c.ents[e].row, slot |-> c.first + e - 1, page |-> c.ents[e].page] :
             e \in {e \in DOMAIN c.ents : ~c.ents[e].dead}}

Far == 10000  \* FLT_MAX: the stored vector is missing

Rescored(t, q, c, raw) ==
  LET from == Source(t, "vectors", c.slot, c.page, raw)
  IN [row |-> c.row,
      d |-> IF from = {} THEN Far ELSE IF from # {"vectors"} THEN Garbage
            ELSE Dist(q, t.vectors[c.slot])]

\* ivf_search with every list probed and room for every candidate.
IvfSearch(t, mem, q, raw) ==
  LET chunks == UNION {ChunksRead(t, mem, L, raw) : L \in DOMAIN mem.head}
  IN {Rescored(t, q, c, raw) : c \in UNION {Scan(t, s) : s \in chunks}}

\* ivf_exact_pq: the entries of every chunk there is.
IvfExact(t) == {c.row : c \in UNION {Scan(t, << "lists", k >>) : k \in DOMAIN t.lists}}

VecOfSlot(t, r) == t.vectors[t.rowids[r].slot]
=============================================================================
