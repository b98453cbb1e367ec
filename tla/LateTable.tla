----------------------------- MODULE LateTable ------------------------------
(***************************************************************************)
(* A late_plaid virtual table under one connection (late_plaid.c): the     *)
(* buffer, builds, 'finalize', searches over lists fetched through page    *)
(* hints, what the connection keeps in memory, transactions, VACUUM, and   *)
(* a connection that ends at any point.                                    *)
(***************************************************************************)
EXTENDS LateIndex

CONSTANTS
  Ids, Docs,  \* user rowids, documents (sequences of tokens)
  Inputs,     \* << rowid, document >> that may be inserted
  Files,      \* inputs of build_npy
  Probes,     \* sets of centroids a search may probe
  MaxTokens,  \* the longest document a plaid layout takes
  Configs,    \* CREATE options to check, and whether pages can be read off the file
  InTx,       \* bound: the configurations in which transactions are opened
  Faults      \* which of the faults below may happen

\* "partial"     a build refused in a transaction leaves the tables cleared
\* "uncommitted" 'finalize' runs on an index that is not committed
ASSUME TableAssumption ==
  /\ Faults \subseteq {"partial", "uncommitted"}
  /\ Configs \subseteq [plaid : BOOLEAN, warp : BOOLEAN, cells : BOOLEAN, raw : BOOLEAN]
  /\ \A c \in Configs : c.plaid \/ c.warp

VARIABLES
  cfg,   \* LtCfg and LpReader.ok
  disk,  \* the committed file: buffer and tree
  work,  \* the file as SQL sees it
  tx,    \* an explicit transaction is open
  mem,   \* LtIndex and the reader's cache
  stale  \* mem may remember pages or an index since replaced

vars == << cfg, disk, work, tx, mem, stale >>

Empty == [buffer |-> << >>, tree |-> EmptyFile]
Nothing == [loaded |-> FALSE, st |-> << >>, got |-> << >>, cache |-> << >>]

Init ==
  /\ cfg \in Configs
  /\ disk = Empty /\ work = Empty /\ tx = FALSE
  /\ mem = Nothing /\ stale = FALSE

Statement(t, m) ==
  /\ work' = t /\ mem' = m
  /\ disk' = IF tx THEN disk ELSE t
  /\ UNCHANGED << cfg, tx >>

-----------------------------------------------------------------------------
(***************************************************************************)
(* Reading.  Pages are read off the committed file; where that cannot be   *)
(* (WAL), everything is read by SQL.                                       *)
(***************************************************************************)
Seen == IF cfg.raw THEN disk.tree ELSE work.tree

Row(m, tab, key, hint) ==
  IF cfg.raw THEN Get(Seen, work.tree, m.cache, tab, key, hint)
  ELSE RowAt(Rows(Seen, tab), key)

\* ix_load: roots, static data; the cells come later.
Load(m) ==
  IF m.loaded THEN m
  ELSE [m EXCEPT !.loaded = TRUE, !.st = Meta(Seen), !.got = << >>]

\* One unit of a stream (fetch_ranges); a missing row makes the query fail.
Corrupt == << -1, -1 >>
Hint(m, tab, x) == RunHint(m.st.runs[tab], x \div Chunk)
Unit(m, tab, x) ==
  LET row == Row(m, tab, x \div Chunk + 1, Hint(m, tab, x))
  IN IF row = << >> \/ Len(row[1]) <= x % Chunk THEN Corrupt ELSE row[1][(x % Chunk) + 1]
Units(m, tab, start, len) == [i \in 1 .. len |-> Unit(m, tab, start + i - 1)]

\* Rows of a range that are not on their hinted leaf: the root is read.
Walks(m, tab, start, len) ==
  \E x \in start .. start + len - 1 :
    ~OnLeaf(Seen, m.cache, Hint(m, tab, x), x \div Chunk + 1)

\* read_round of the tables in T: interior pages stay in the cache.
Walked(m, T) ==
  IF ~cfg.raw THEN m
  ELSE [m EXCEPT !.cache = FoldSet(LAMBDA tab, c : Cached(Seen, c, tab), @, T)]

\* load_cells, cell_install: the blocks of cells S not yet there, unless a
\* row is missing.
BlockAt(m, g) == Units(m, "cells", CellStart[g], CellStart[g + 1] - CellStart[g])
LoadCells(m, S) ==
  LET new  == S \ DOMAIN m.got
      got  == [g \in new |-> BlockAt(m, g)]
      w    == Walked(m, IF \E g \in new : Walks(m, "cells", CellStart[g], CellStart[g + 1] - CellStart[g])
                        THEN {"cells"} ELSE {})
  IN IF \E g \in new : Corrupt \in Range(got[g]) THEN w ELSE [w EXCEPT !.got = got @@ @]

\* ivf_cnt, post_cnt (kind 1, 2) and where the list begins (ix_offsets,
\* cell_install).
Count(m, kind, c) ==
  IF cfg.cells THEN m.got[CellOf(c)][c - CellStart[CellOf(c)] + 1][kind] ELSE m.st.cnt[c][kind]
\* Mutant: the lists of a cell start where the cell does.
StartInCell(m, kind, c) ==
  MapThenSumSet(LAMBDA b : Count(m, kind, b),
                (IF cfg.cells THEN CellStart[CellOf(c)] ELSE 0) .. c - 1)
Start(m, kind, c) ==
  LET before == MapThenSumSet(LAMBDA b : Count(m, kind, b),
                              (IF cfg.cells THEN CellStart[CellOf(c)] ELSE 0) .. c - 1)
  IN IF cfg.cells THEN m.st.base[CellOf(c)][kind] + before ELSE before

-----------------------------------------------------------------------------
(***************************************************************************)
(* Searching (xFilter).  Which cells and centroids score best is any       *)
(* choice; S and P are the chosen ones.                                    *)
(***************************************************************************)
Kinds == {"warp", "rerank", "plaid", "exact"}
Offered(kind) ==
  CASE kind = "warp"   -> cfg.warp
    [] kind = "rerank" -> cfg.warp /\ cfg.plaid
    [] kind = "plaid"  -> cfg.plaid
    [] kind = "exact"  -> cfg.plaid \/ cfg.raw

\* load_all_cells for all but a plain warp search, then q_probe, which takes
\* a few cells as long as some cell, though it be empty, was never loaded.
AllLoaded(m) == Cardinality(DOMAIN m.got) = Len(CellStart) - 1
Prepared(m, kind, S) ==
  IF ~cfg.cells THEN m
  ELSE LET all == IF kind = "warp" THEN m ELSE LoadCells(m, Cells)
       IN IF AllLoaded(all) THEN all ELSE LoadCells(all, S)
Scored(m, kind, S) ==
  IF cfg.cells /\ ~AllLoaded(m) THEN UNION {Members(g) : g \in S} ELSE Centroids

\* fetch_segments
Kind(kind) == IF kind = "plaid" THEN 1 ELSE 2
Stream(kind) == IF kind = "plaid" THEN "ivf" ELSE "post"
List(m, kind, c) == Units(m, Stream(kind), Start(m, Kind(kind), c), Count(m, Kind(kind), c))
Lists(m, kind, P) == UNION {Range(List(m, kind, c)) : c \in P}

\* lpg_scan of the postings (stream_cb), cut into the lists.
Postings(m) ==
  LET leaves == Scan(Seen, m.cache, "post")
      rows(p) == LET keys == InOrder(DOMAIN Seen.page[p]) IN [i \in DOMAIN keys |-> Seen.page[p][keys[i]]]
      all == FlattenSeq(FlattenSeq([i \in DOMAIN leaves |-> rows(leaves[i])]))
  IN {all[i] : i \in DOMAIN all \cap UNION {Start(m, 2, c) + 1 .. Start(m, 2, c) + Count(m, 2, c) : c \in Centroids}}

\* Documents a search ranks, each with the tokens it is scored by.
Doc(m, d) == LET row == Row(m, "docs", d, 0) IN IF row = << >> THEN {} ELSE Range(row[1])
Ranked(m, kind, P) ==
  LET lists == IF kind # "exact" THEN Lists(m, kind, P)
               ELSE IF cfg.plaid THEN {} ELSE Postings(m)
      found == {u[1] : u \in lists}
  IN IF kind \in {"plaid", "rerank"} THEN [d \in found |-> Doc(m, d)]
     ELSE IF kind = "exact" /\ cfg.plaid
     THEN [d \in UNION {DOMAIN Seen.page[p] : p \in Range(Scan(Seen, m.cache, "docs"))} |-> Doc(m, d)]
     ELSE [d \in found |-> {u[2] : u \in {w \in lists : w[1] = d}}]

\* The rowid map; a document it lacks keeps its number.
UserId(m, d) ==
  LET row == Row(m, "rowids", d, 0) IN IF m.st.ident \/ row = << >> THEN d ELSE row[1]
Found(m, kind, P) ==
  LET docs == Ranked(m, kind, P)
  IN {<< UserId(m, d), docs[d] >> : d \in DOMAIN docs}

\* The tables a search walks.
Reads(m, kind, P) ==
  {tab \in {Stream(kind)} :
     IF kind = "exact" THEN ~cfg.plaid
     ELSE \E c \in P : Walks(m, tab, Start(m, Kind(kind), c), Count(m, Kind(kind), c))}
  \cup (IF kind = "warp" THEN {} ELSE {"docs"})
  \cup (IF m.st.ident THEN {} ELSE {"rowids"})

Search(kind, S, P) ==
  LET m == Prepared(Load(mem), kind, S)
  IN /\ Offered(kind) /\ Built(Seen)
     /\ cfg.cells \/ S = {}
     /\ IF cfg.cells /\ ~((IF kind = "warp" THEN S ELSE Cells) \subseteq DOMAIN m.got)
        THEN P = {} /\ Statement(work, m)  \* a row is missing: an error
        ELSE /\ P \subseteq Scored(m, kind, S) /\ P # {}
             /\ Statement(work, Walked(m, Reads(m, kind, P)))
     /\ UNCHANGED stale

\* MATCH 'warm': warm_docs.
Warm ==
  /\ Built(Seen)
  /\ Statement(work, Walked(Load(mem), IF cfg.plaid THEN {"docs"} ELSE {}))
  /\ UNCHANGED stale

-----------------------------------------------------------------------------
(***************************************************************************)
(* Writing (xUpdate).  A DELETE can name only rows that a search found,    *)
(* and takes them from the buffer.                                         *)
(***************************************************************************)
Insert(r, d) ==
  /\ r \notin DOMAIN work.buffer
  /\ Statement([work EXCEPT !.buffer = r :> d @@ @], mem)
  /\ UNCHANGED stale

Delete(r) ==
  LET m == Prepared(Load(mem), "exact", Cells)
  IN /\ Offered("exact") /\ Built(Seen)
     /\ r \in DOMAIN Contents(Seen, cfg)
     /\ Statement([work EXCEPT !.buffer = Restrict(@, DOMAIN @ \ {r})],
                  Walked(m, Reads(m, "exact", Centroids)))
     /\ UNCHANGED stale

Forgotten(m) == [m EXCEPT !.loaded = FALSE, !.st = << >>, !.got = << >>]

Tokens(src) == MapThenSumSet(LAMBDA i : Len(src[i]), DOMAIN src)
TooLong(src) == cfg.plaid /\ \E i \in DOMAIN src : Len(src[i]) > MaxTokens

\* do_build from src; the interior pages in the cache stay.
BuildFrom(src, ids, buffer) ==
  /\ Tokens(src) > 1 /\ ~TooLong(src)
  /\ Statement([buffer |-> buffer, tree |-> BuildTree(work.tree, cfg, src, ids)], Forgotten(mem))
  /\ stale' = IF tx THEN stale /\ mem.cache # << >> ELSE mem.cache # << >>

BufferIds == InOrder(DOMAIN work.buffer)
BufferDocs == [i \in DOMAIN BufferIds |-> work.buffer[BufferIds[i]]]
Build == BuildFrom(BufferDocs, BufferIds, << >>)
BuildNpy(src) == BuildFrom(src, [i \in DOMAIN src |-> i - 1], work.buffer)

\* A document too long is met after the tables were cleared.  SQLite takes
\* that back outside a transaction; in one, an INSERT of one row runs
\* without a statement journal, which the fault "partial" stands for.
BuildRefused ==
  /\ \E src \in Files \cup {BufferDocs} : Tokens(src) > 1 /\ TooLong(src)
  /\ Statement(IF tx /\ "partial" \in Faults
               THEN [work EXCEPT !.tree = FoldSeq(LAMBDA tab, f : Clear(f, tab), @, Tables)]
               ELSE work,
               Forgotten(mem))
  /\ stale' = (stale /\ mem.cache # << >>)

\* The transaction has changed the index, not only the static data.
Replaced == \E tab \in TableSet \ {"meta"} :
              \/ Leaves(disk.tree, tab) # Leaves(work.tree, tab)
              \/ Rows(disk.tree, tab) # Rows(work.tree, tab)

-----------------------------------------------------------------------------
(***************************************************************************)
(* do_finalize: everything is read off the committed file, the static data *)
(* is written again with the leaf of every row of every stream.            *)
(***************************************************************************)
Finalize ==
  LET runs == [tab \in DOMAIN NoRuns |->
                 IF Rows(Seen, tab) = << >> THEN << >> ELSE Runs(Leaves(Seen, tab))]
  IN /\ cfg.raw /\ Built(Seen)
     /\ tx /\ Replaced => "uncommitted" \in Faults
     /\ Statement([work EXCEPT !.tree =
                     Fill(Clear(@, "meta"), "meta", << [Meta(Seen) EXCEPT !.runs = runs] >>)], Nothing)
     /\ stale' = FALSE

\* Without direct reads it loads the index anew and refuses.
FinalizeRefused ==
  /\ ~cfg.raw /\ Built(Seen)
  /\ Statement(work, Load(Nothing)) /\ stale' = FALSE

\* 'drop_cache' and 'reload'
DropCache ==
  /\ Statement(work, [mem EXCEPT !.cache = << >>, !.got = << >>])
  /\ stale' = (stale /\ mem.loaded)
Reload == Statement(work, Nothing) /\ stale' = FALSE

Vacuum ==
  /\ ~tx
  /\ Statement([work EXCEPT !.tree = VacuumFile(@)], mem)
  /\ stale' = (stale \/ mem.cache # << >>)

(***************************************************************************)
(* Transactions: the module has no xBegin, xCommit or xRollback.           *)
(***************************************************************************)
Begin == cfg \in InTx /\ ~tx /\ tx' = TRUE /\ UNCHANGED << cfg, disk, work, mem, stale >>
Commit ==
  /\ tx /\ tx' = FALSE /\ disk' = work
  /\ stale' = (stale \/ (cfg.raw /\ Replaced /\ (mem.loaded \/ mem.cache # << >>)))
  /\ UNCHANGED << cfg, work, mem >>
Rollback ==
  /\ tx /\ tx' = FALSE /\ work' = disk
  /\ stale' = (stale \/ (~cfg.raw /\ Replaced /\ mem.loaded))
  /\ UNCHANGED << cfg, disk, mem >>

\* The connection is closed or the process ends; another opens the file.
Reopen ==
  /\ work' = disk /\ tx' = FALSE /\ mem' = Nothing /\ stale' = FALSE
  /\ UNCHANGED << cfg, disk >>

Next ==
  \/ \E x \in Inputs : Insert(x[1], x[2])
  \/ \E r \in Ids : Delete(r)
  \/ Build \/ (\E src \in Files : BuildNpy(src)) \/ BuildRefused
  \/ \E kind \in Kinds, S \in SUBSET Cells, P \in Probes \cup {{}} : Search(kind, S, P)
  \/ Warm \/ Finalize \/ FinalizeRefused \/ DropCache \/ Reload \/ Vacuum
  \/ Begin \/ Commit \/ Rollback \/ Reopen

Spec == Init /\ [][Next]_vars

-----------------------------------------------------------------------------
(***************************************************************************)
(* Properties.                                                             *)
(***************************************************************************)
\* The table is a table: builds replace the collection by the buffer whole,
\* whatever layout, cells, finalize, VACUUM, rollbacks and ends of the
\* connection come between (do_build, do_finalize, xUpdate, cmd).
View(t) == [buffer |-> t.buffer, collection |-> Contents(t.tree, cfg)]
Table == INSTANCE SearchIndex WITH now <- View(work), saved <- View(disk), open <- tx
ImplementsTable == Table!SearchSpec

\* Every list row of f is on the leaf the runs name, if they name one.
HintsRight(f, runs) ==
  \A tab \in DOMAIN NoRuns : runs[tab] # << >> =>
    \A r \in DOMAIN Rows(f, tab) : RunHint(runs[tab], r - 1) = Leaves(f, tab)[r]

\* A search finds what an index of the collection holds, under the right
\* rowids and scored by the right tokens: off hinted or walked pages, cached
\* interior pages and cells loaded one search at a time, after any commands
\* and rebuilds; an exact search finds every document (fetch_ranges,
\* load_cells, q_probe, q_warp, q_plaid, q_exact, lpg_multiget).
Expected(docs, kind, P) ==
  LET hit == {r \in DOMAIN docs : kind = "exact" \/ \E v \in docs[r] : CodeOf[v] \in P}
  IN {<< r, IF kind = "warp" THEN {v \in docs[r] : CodeOf[v] \in P} ELSE docs[r] >> : r \in hit}
SearchSound ==
  Built(Seen) /\ ~stale /\ HintsRight(Seen, Load(mem).st.runs) =>
    LET docs == Contents(Seen, cfg)
        now  == Load(mem)
    IN \A kind \in {k \in Kinds : Offered(k)}, S \in IF cfg.cells THEN SUBSET Cells ELSE {{}} :
         LET m == Prepared(now, kind, S)
             F == Scored(m, kind, S)
         IN \A P \in {p \in Probes : p \subseteq F} : Found(m, kind, P) = Expected(docs, kind, P)

\* Hints outlive everything but VACUUM: once 'finalize' has written them, a
\* row is on the page they name until VACUUM moves it or a build replaces
\* it, also across crashes and rollbacks ("'finalize' must run after
\* anything that moves pages", do_finalize).
HintsHold == Built(disk.tree) => HintsRight(disk.tree, Meta(disk.tree).runs)
HintsLast == [][HintsHold => HintsHold' \/ disk'.tree = VacuumFile(disk.tree)]_vars
=============================================================================
