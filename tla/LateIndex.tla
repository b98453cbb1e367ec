----------------------------- MODULE LateIndex ------------------------------
(***************************************************************************)
(* What a build of late_plaid writes (do_build in ext/late/late_plaid.c):  *)
(* document rows, the lists of the centroids and the cells' blocks cut     *)
(* into rows, the rowid map and the static data.  A token stands for its   *)
(* decoded vector and the codebook is given.                               *)
(***************************************************************************)
EXTENDS LatePages

CONSTANTS
  CodeOf,     \* [token -> centroid]
  CellStart,  \* first centroid of each cell, and their number
  Chunk       \* units of a stream in one row

ASSUME IndexAssumption ==
  /\ Chunk \in Nat \ {0} /\ Len(CellStart) > 1 /\ CellStart[1] = 0
  /\ \A g \in 2 .. Len(CellStart) : CellStart[g - 1] <= CellStart[g]
  /\ Range(CodeOf) \subseteq 0 .. Last(CellStart) - 1

Centroids == 0 .. Last(CellStart) - 1
Cells     == {g \in 1 .. Len(CellStart) - 1 : CellStart[g] < CellStart[g + 1]}
CellOf(c) == CHOOSE g \in Cells : CellStart[g] <= c /\ c < CellStart[g + 1]
Members(g) == CellStart[g] .. CellStart[g + 1] - 1

Joined(lists) == FlattenSeq([i \in 1 .. Last(CellStart) |-> lists[i - 1]])

\* Units: << document, 0 >> in an IVF list, << document, token >> in a
\* posting list.  src is the sequence of documents, numbered from 0.
IvfList(src, c) ==
  FlattenSeq([i \in DOMAIN src |->
                IF \E j \in DOMAIN src[i] : CodeOf[src[i][j]] = c THEN << << i - 1, 0 >> >> ELSE << >>])
PostList(src, c) ==
  FlattenSeq([i \in DOMAIN src |->
                LET mine == SelectSeq(src[i], LAMBDA v : CodeOf[v] = c)
                IN [j \in DOMAIN mine |-> << i - 1, mine[j] >>]])

\* The blocks of the cells: << IVF entries, postings >> of each centroid.
Block(src, c) == << << Len(IvfList(src, c)), Len(PostList(src, c)) >> >>

\* rw_write, rw_flush
RowsOf(units) ==
  [r \in 1 .. (Len(units) + Chunk - 1) \div Chunk |->
     SubSeq(units, (r - 1) * Chunk + 1, Min({r * Chunk, Len(units)}))]

Numbered(src) == [d \in 0 .. Len(src) - 1 |-> src[d + 1]]

\* Mutant: the rowids need only be consecutive.
IdentityAnywhere(ids) == \A i \in DOMAIN ids : ids[i] = ids[1] + i - 1
Identity(ids) == \A i \in DOMAIN ids : ids[i] = i - 1

\* ix_serialize: list lengths, or where the lists of each cell begin; kind 1
\* is IVF, 2 postings.
NoRuns == [ivf |-> << >>, post |-> << >>, cells |-> << >>]
Static(cfg, src, ids) ==
  LET count(c, kind) == Block(src, c)[1][kind]
      before(g, kind) == MapThenSumSet(LAMBDA c : count(c, kind), 0 .. CellStart[g] - 1)
  IN [n |-> Len(src), ident |-> Identity(ids), runs |-> NoRuns,
      cnt  |-> IF cfg.cells THEN << >> ELSE [c \in Centroids |-> Block(src, c)[1]],
      base |-> IF cfg.cells THEN [g \in Cells |-> << before(g, 1), before(g, 2) >>] ELSE << >>]

\* do_build, tables cleared first; a table the layout lacks stays empty.
BuildTree(f, cfg, src, ids) ==
  LET cleared == FoldSeq(LAMBDA tab, g : Clear(g, tab), f, Tables)
      rows == [docs   |-> IF cfg.plaid THEN Numbered(src) ELSE << >>,
               ivf    |-> IF cfg.plaid THEN RowsOf(Joined([c \in Centroids |-> IvfList(src, c)])) ELSE << >>,
               post   |-> IF cfg.warp THEN RowsOf(Joined([c \in Centroids |-> PostList(src, c)])) ELSE << >>,
               cells  |-> IF cfg.cells THEN RowsOf(Joined([c \in Centroids |-> Block(src, c)])) ELSE << >>,
               rowids |-> IF Identity(ids) THEN << >> ELSE Numbered(ids),
               meta   |-> << Static(cfg, src, ids) >>]
  IN FoldSeq(LAMBDA tab, g : Fill(g, tab, rows[tab]), cleared,
             << "docs", "ivf", "post", "cells", "rowids", "meta" >>)

-----------------------------------------------------------------------------
(***************************************************************************)
(* What the tables hold, read by SQL: rowid |-> tokens of its document.    *)
(***************************************************************************)
Built(f) == Rows(f, "meta") # << >>
Meta(f) == Rows(f, "meta")[1]

Contents(f, cfg) ==
  LET meta == Meta(f)
      ids  == Rows(f, "rowids")
      docs == Rows(f, "docs")
      post == UNION {Range(units) : units \in Range(Rows(f, "post"))}
      row  == [d \in 0 .. meta.n - 1 |-> IF meta.ident THEN d ELSE ids[d]]
      doc(d) == IF cfg.plaid THEN Range(docs[d]) ELSE {u[2] : u \in {w \in post : w[1] = d}}
  IN IF ~Built(f) THEN << >>
     ELSE [r \in Range(row) |-> doc(CHOOSE d \in DOMAIN row : row[d] = r)]
=============================================================================
