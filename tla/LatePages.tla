----------------------------- MODULE LatePages ------------------------------
(***************************************************************************)
(* The shadow tables of a late_plaid table as b-trees on database pages,   *)
(* and the reader of ext/late/late_page.c: it reads pages off the          *)
(* committed file, takes interior pages from a cache that only its owner   *)
(* drops, and tries hinted leaves before it walks.                         *)
(***************************************************************************)
EXTENDS Integers, Sequences, FiniteSets, SequencesExt, FiniteSetsExt, Functions, TLC

CONSTANTS
  LeafRows,  \* rows per leaf of the docs and rowids tables
  Fanout     \* leaves per interior page

ASSUME LeafAssumption == LeafRows \in Nat \ {0} /\ Fanout \in Nat \ {0}

\* In schema order.  The buffer, which no query reads, is kept apart.
Tables == << "meta", "docs", "ivf", "post", "rowids", "cells" >>
TableSet == ToSet(Tables)

\* lpg_root: the root pages stay where the tables were created.
Root(tab) == CHOOSE i \in DOMAIN Tables : Tables[i] = tab

\* A row of a stream fills its leaf.
PerLeaf(tab) == IF tab \in {"docs", "rowids"} THEN LeafRows ELSE 1

\* A table of one leaf is its root page; else the root stands for the whole
\* interior and names the leaves, each with its greatest key; inner are the
\* other interior pages.  A page let go reads as an empty leaf.
EmptyFile ==
  [kids |-> [tab \in TableSet |-> << >>],
   inner |-> [tab \in TableSet |-> {}],
   page |-> [p \in DOMAIN Tables |-> << >>],
   free |-> {}, top |-> Len(Tables)]

InOrder(S) ==
  [i \in 1 .. Cardinality(S) |-> CHOOSE x \in S : Cardinality({y \in S : y < x}) = i - 1]

\* The interior page of a root, from the reader's cache (a map from tables)
\* if it is there, and the leaves in key order (lpg_scan).
Kids(f, cache, tab) == IF tab \in DOMAIN cache THEN cache[tab] ELSE f.kids[tab]
Scan(f, cache, tab) ==
  LET kids == Kids(f, cache, tab)
  IN IF kids = << >> THEN << Root(tab) >> ELSE [i \in DOMAIN kids |-> kids[i].page]
Leaves(f, tab) == Scan(f, << >>, tab)

Rows(f, tab) ==
  LET pages == Range(Leaves(f, tab))
  IN IF f.kids[tab] = << >> THEN f.page[Root(tab)]
     ELSE [key \in UNION {DOMAIN f.page[p] : p \in pages} |->
             f.page[CHOOSE p \in pages : key \in DOMAIN f.page[p]][key]]

\* DELETE of all rows.
Clear(f, tab) ==
  LET gone == Range(Leaves(f, tab)) \cup f.inner[tab]
  IN [f EXCEPT !.kids[tab] = << >>, !.inner[tab] = {},
               !.page = [p \in DOMAIN @ |-> IF p \in gone THEN << >> ELSE @[p]],
               !.free = @ \cup (gone \ {Root(tab)})]

\* Rows inserted in key order into an empty table, on free pages first; a
\* leaf that no longer fits under its interior page comes after a new one.
Fill(f, tab, rows) ==
  LET keys == InOrder(DOMAIN rows)
      n    == (Len(keys) + PerLeaf(tab) - 1) \div PerLeaf(tab)
      part == [i \in 1 .. n |-> SubSeq(keys, (i - 1) * PerLeaf(tab) + 1,
                                         Min({i * PerLeaf(tab), Len(keys)}))]
      at(i) == i + (i - 1) \div Fanout
      room == SubSeq(InOrder(f.free) \o [i \in 1 .. at(n) |-> f.top + i], 1, at(n))
      leaf == [p \in {room[at(i)] : i \in 1 .. n} |->
                 Restrict(rows, Range(part[CHOOSE i \in 1 .. n : room[at(i)] = p]))]
      inner == Range(room) \ DOMAIN leaf
  IN IF n <= 1 THEN [f EXCEPT !.page[Root(tab)] = rows]
     ELSE [kids |-> [f.kids EXCEPT ![tab] =
                       [i \in 1 .. n |-> [max |-> Last(part[i]), page |-> room[at(i)]]]],
           inner |-> [f.inner EXCEPT ![tab] = inner],
           page |-> leaf @@ [p \in inner |-> << >>] @@ f.page,
           free |-> f.free \ Range(room),
           top  |-> Max({f.top} \cup Range(room))]

\* VACUUM: the tables one after the other in a file without free pages.
VacuumFile(f) ==
  FoldSeq(LAMBDA tab, g : Fill(g, tab, Rows(f, tab)), EmptyFile, Tables)

-----------------------------------------------------------------------------
\* cache_put, after the root of tab was read.
Cached(f, cache, tab) ==
  IF Kids(f, cache, tab) = << >> THEN cache ELSE cache @@ (tab :> f.kids[tab])

\* leaf_find: the page must be a table leaf with the row; its table is not
\* checked, and a page the cache knows as interior is not a leaf.
IsLeaf(f, cache, page) ==
  /\ page \in DOMAIN f.page
  /\ \A tab \in TableSet : /\ page = Root(tab) => Kids(f, cache, tab) = << >>
                           /\ page \notin f.inner[tab]
OnLeaf(f, cache, page, key) == IsLeaf(f, cache, page) /\ key \in DOMAIN f.page[page]

\* The leaf a walk leads to.
Walk(f, cache, tab, key) ==
  LET kids == Kids(f, cache, tab)
      way  == {i \in DOMAIN kids : key <= kids[i].max}
  IN IF kids = << >> THEN Root(tab) ELSE IF way = {} THEN Last(kids).page ELSE kids[Min(way)].page

RowAt(rows, key) == IF key \in DOMAIN rows THEN << rows[key] >> ELSE << >>

\* lpg_multiget, one row, << >> if there is none: off the hinted leaf (0 is
\* no hint), else off the leaf walked to, or by SQL if that is no leaf; sql
\* is the file as SQL sees it.
Get(f, sql, cache, tab, key, hint) ==
  LET leaf == IF OnLeaf(f, cache, hint, key) THEN hint ELSE Walk(f, cache, tab, key)
  IN RowAt(IF IsLeaf(f, cache, leaf) THEN f.page[leaf] ELSE Rows(sql, tab), key)

\* Mutant: one run per stream.
RunsNeverEnd(leaves) == << [row |-> 0, page |-> leaves[1]] >>

\* run_cb: the leaf of every row of a stream, in runs of consecutive rows on
\* consecutive pages, each [row, page] of its first.
Runs(leaves) ==
  LET firsts == SelectSeq([i \in DOMAIN leaves |-> i],
                          LAMBDA i : i = 1 \/ leaves[i] # leaves[i - 1] + 1)
  IN [j \in DOMAIN firsts |-> [row |-> firsts[j] - 1, page |-> leaves[firsts[j]]]]

\* run_hint
RunHint(runs, row) ==
  LET upto == {j \in DOMAIN runs : runs[j].row <= row}
      best == runs[Max(upto)]
  IN IF upto = {} THEN 0 ELSE best.page + (row - best.row)
=============================================================================
