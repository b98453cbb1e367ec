----------------------------- MODULE DenseFile ------------------------------
(***************************************************************************)
(* The shadow tables of a dense_ann table (ext/dense/dense_ann.c) as one   *)
(* record, the database pages their rows lie on, and the two ways to read  *)
(* a row: by SQL, or off a page named by a hint.  Vectors are points on a  *)
(* line and a PQ code is the point a vector is rounded to.                 *)
(***************************************************************************)
EXTENDS Integers, Sequences, SequencesExt, FiniteSets, Functions

CONSTANTS
  RowIds,   \* user rowids
  Vecs,     \* coordinates
  CodeOf,   \* [Vecs -> coordinates]: the code of a vector, decoded
  MaxNodes, MaxSlots  \* bounds on the node ids and slots given out

ASSUME FileAssumption ==
  /\ RowIds \subseteq Nat /\ IsFiniteSet(RowIds) /\ Vecs \subseteq Nat
  /\ CodeOf \in [Vecs -> Nat] /\ {MaxNodes, MaxSlots} \subseteq Nat

Dist(a, b) == IF a <= b THEN b - a ELSE a - b

\* NHEAD and the row layouts apart, what dense_create makes: empty shadow
\* tables and the state of save_state.  A page holds one row of one table.
EmptyFile ==
  [buffer |-> << >>, nodes |-> << >>, rowids |-> << >>, vectors |-> << >>, lists |-> << >>,
   head |-> << >>,                                  \* entry set, or list directory
   state |-> [built |-> FALSE, next |-> 0, hints |-> FALSE],
   pages |-> [nodes |-> << >>, vectors |-> << >>, lists |-> << >>],
   top |-> 0]                                       \* pages in the file

Tables == {"nodes", "vectors", "lists"}  \* those read through hints

\* A function with the values of g where g has one, and with one value more.
Over(g, f)   == [k \in DOMAIN g \cup DOMAIN f |-> IF k \in DOMAIN g THEN g[k] ELSE f[k]]
Put(f, k, v) == [l \in DOMAIN f \cup {k} |-> IF l = k THEN v ELSE f[l]]

\* The place of a number among those of a set, from 0, the number at a
\* place, and the members of a sequence at some of its positions.
Place(S, k) == Cardinality({j \in S : j < k})
Nth(S, n)   == CHOOSE k \in S : Place(S, k) = n
Sub(s, I)   == [n \in 1 .. Cardinality(I) |-> s[Nth(I, n - 1)]]

\* Rows of table tab appended in key order, each on a page of its own at
\* the end of the file.
Lay(t, tab, rows) ==
  LET page == [k \in DOMAIN rows |-> t.top + 1 + Place(DOMAIN rows, k)]
  IN [t EXCEPT ![tab] = Over(rows, @), !.pages[tab] = Over(page, @),
               !.top = @ + Cardinality(DOMAIN rows)]

(***************************************************************************)
(* A row with a key above all others gets a new page at the end.  One in   *)
(* the middle splits the leaf where it belongs: SQLite spreads that leaf,  *)
(* its two siblings and the new row over their pages and a new one, the    *)
(* pages in ascending order.                                               *)
(***************************************************************************)
InsertRow(t, tab, key, row) ==
  LET keys   == DOMAIN t[tab]
      at     == Place(keys, key)
      window == IF \A k \in keys : k < key THEN {}
                ELSE {k \in keys : Place(keys, k) \in at - 1 .. at + 1}
      free   == {t.pages[tab][k] : k \in window} \cup {t.top + 1}
      page   == [k \in window \cup {key} |-> Nth(free, Place(window \cup {key}, k))]
  IN [t EXCEPT ![tab] = Put(@, key, row), !.pages[tab] = Over(page, @), !.top = @ + 1]

\* VACUUM copies the tables one after the other, in the order of the schema.
VacuumFile(t) ==
  LET empty == [t EXCEPT !.pages = EmptyFile.pages, !.top = 0]
  IN Lay(Lay(Lay(empty, "nodes", t.nodes), "vectors", t.vectors), "lists", t.lists)

(***************************************************************************)
(* qc_row_on_page: the page must be a table leaf that holds the row id.    *)
(* Which table the leaf belongs to is not checked.                         *)
(***************************************************************************)
OnPage(t, key, page) ==
  {u \in Tables : key \in DOMAIN t.pages[u] /\ t.pages[u][key] = page}

\* The table whose row q_fetch returns for one request: read off the hinted
\* page, else looked up by SQL; no table if there is no such row.
Source(t, tab, key, page, raw) ==
  IF raw /\ OnPage(t, key, page) # {} THEN OnPage(t, key, page)
  ELSE {u \in {tab} : key \in DOMAIN t[tab]}

\* walk_map_cb: the page of a row, 0 when there is none.
PageOf(t, tab, key) == IF key \in DOMAIN t.pages[tab] THEN t.pages[tab][key] ELSE 0

\* load_config: what a new connection knows; the head is loaded later.
Connected(t) ==
  [built |-> t.state.built, next |-> t.state.next, hints |-> t.state.hints,
   loaded |-> FALSE, head |-> << >>]

\* Mutant: the counter is written by the build only.
SavedBuilt(t, mem) ==
  [t EXCEPT !.state = [built |-> mem.built, hints |-> mem.hints,
                       next |-> IF t.state.built THEN @.next ELSE mem.next]]

\* save_state
Saved(t, mem) == [t EXCEPT !.state = [built |-> mem.built, next |-> mem.next, hints |-> mem.hints]]

\* ensure_loaded: once per connection.
Loaded(t, mem) ==
  IF mem.loaded THEN mem ELSE [mem EXCEPT !.loaded = TRUE, !.head = t.head]
=============================================================================
