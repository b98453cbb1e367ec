----------------------------- MODULE DenseTable -----------------------------
(***************************************************************************)
(* A dense_ann virtual table under one connection (ext/dense/dense_ann.c): *)
(* statements on its shadow tables, explicit transactions, the state the   *)
(* connection keeps in memory and no transaction restores, page hints,     *)
(* VACUUM, and a connection that ends at any point.                        *)
(***************************************************************************)
EXTENDS DenseGraph, DenseIvf

CONSTANTS
  Layouts,  \* layouts to check: "graph", "ivf"
  NoMemory, \* layouts whose build by a query may run out of memory in training
  Faults    \* which of the faults below may happen

\* "undone"    a nested statement fails and the statement is rolled back
\* "partial"   an UPDATE refused in a transaction keeps its first half
\* "undobuild" a transaction that built the index is rolled back
\* "autocrash" the process ends during a build started by a query
ASSUME TableAssumption ==
  /\ Layouts \subseteq {"graph", "ivf"} /\ NoMemory \subseteq Layouts
  /\ Faults \subseteq {"undone", "partial", "undobuild", "autocrash"}

VARIABLES
  layout,  \* DenseCfg.layout
  disk,    \* the committed shadow tables
  work,    \* the shadow tables as the connection sees them
  tx,      \* an explicit transaction is open
  mem,     \* DenseVtab: built, next_id, hints_valid, loaded, entries or ivf_dir
  moved,   \* VACUUM has moved pages that hints name
  auto     \* the build a query has started

vars == << layout, disk, work, tx, mem, moved, auto >>

NoBuild == [pc |-> "idle", rows |-> << >>]
Idle == auto.pc = "idle"

Init ==
  /\ layout \in Layouts
  /\ disk = EmptyFile /\ work = EmptyFile /\ tx = FALSE
  /\ mem = Connected(EmptyFile)
  /\ moved = FALSE /\ auto = NoBuild

\* The effect of a statement that succeeds: committed at once unless a
\* transaction is open.
Effect(t, m) ==
  /\ work' = t /\ mem' = m
  /\ disk' = IF tx THEN disk ELSE t
  /\ UNCHANGED << layout, tx >>

\* (with no query in between)
Statement(t, m) == Idle /\ Effect(t, m) /\ UNCHANGED << moved, auto >>

(***************************************************************************)
(* do_build.                                                               *)
(***************************************************************************)
EntrySets(rows) ==
  LET n == Cardinality(DOMAIN rows)
  IN IF layout = "ivf" THEN {{}}
     ELSE {E \in SUBSET (0 .. n - 1) : Cardinality(E) = IF NEntry < n THEN NEntry ELSE n}

\* The rows are refused if the tables hold rows of another build.
Buildable(t, rows) == DOMAIN rows # {} /\ t.nodes = << >> /\ t.lists = << >>

BuildRows(t, rows, E) ==
  IF layout = "ivf" THEN BuildIvf(t, rows) ELSE BuildGraph(t, rows, E)

BuiltState(t, rows) ==
  [built |-> TRUE, next |-> Cardinality(DOMAIN rows), hints |-> FALSE,
   loaded |-> TRUE, head |-> t.head]

Finished(t, rows) == Saved([t EXCEPT !.buffer = << >>], BuiltState(t, rows))

Build ==
  /\ ~mem.built /\ Buildable(work, work.buffer)
  /\ \E E \in EntrySets(work.buffer) :
       LET t == BuildRows(work, work.buffer, E)
       IN Statement(Finished(t, work.buffer), BuiltState(t, work.buffer))

(***************************************************************************)
(* dense_filter builds a table nobody has built.  The query is a reading   *)
(* statement, so outside a transaction each statement of the build         *)
(* commits on its own: the buffer's deletion (graph layout), the rows, the *)
(* state.                                                                  *)
(***************************************************************************)
AutoStart ==
  /\ Idle /\ ~mem.built /\ Buildable(work, work.buffer)
  /\ auto' = [pc |-> "train", rows |-> work.buffer]
  /\ Effect(IF layout = "ivf" THEN work ELSE [work EXCEPT !.buffer = << >>], mem)
  /\ UNCHANGED moved

AutoRows ==
  /\ auto.pc = "train"
  /\ \E E \in EntrySets(auto.rows) : Effect(BuildRows(work, auto.rows, E), mem)
  /\ auto' = [auto EXCEPT !.pc = "state"]
  /\ UNCHANGED moved

AutoState ==
  /\ auto.pc = "state"
  /\ Effect(Finished(work, auto.rows), BuiltState(work, auto.rows))
  /\ auto' = NoBuild
  /\ UNCHANGED moved

\* dnpq_train fails.  The query goes on over the buffer (exact_search).
AutoFails ==
  /\ layout \in NoMemory /\ auto.pc = "train"
  /\ auto' = [auto EXCEPT !.pc = "fallback"]
  /\ UNCHANGED << layout, disk, work, tx, mem, moved >>

FallbackDone ==
  /\ auto.pc = "fallback" /\ auto' = NoBuild
  /\ UNCHANGED << layout, disk, work, tx, mem, moved >>

\* MATCH on a built table, or 'warm'.
Query == mem.built /\ ~mem.loaded /\ Statement(work, Loaded(work, mem))

(***************************************************************************)
(* dense_update.                                                           *)
(***************************************************************************)
Known(t, m) == IF m.built THEN DOMAIN t.rowids ELSE DOMAIN t.buffer

Removed(t, m, r) ==
  IF ~m.built THEN [t EXCEPT !.buffer = Restrict(@, DOMAIN @ \ {r})]
  ELSE IF r \notin DOMAIN t.rowids THEN t
  ELSE Saved(IF layout = "ivf" THEN DeleteEntry(t, r) ELSE DeleteNode(t, r), m)

AddedFile(t, m, r, v) ==
  IF ~m.built THEN [t EXCEPT !.buffer = Put(@, r, v)]
  ELSE IF layout = "ivf" THEN InsertEntry(t, m, r, v) ELSE InsertNode(t, m, r, v)

\* What the connection knows afterwards: the counter, and the directory.
AddedMem(t, m) ==
  IF ~m.built THEN m
  ELSE [m EXCEPT !.next = @ + 1, !.head = IF layout = "ivf" THEN t.head ELSE @]

Limit == IF layout = "ivf" THEN MaxSlots ELSE MaxNodes  \* bound

Ready(t, m) == IF m.built THEN Loaded(t, m) ELSE m

Insert(r, v) ==
  LET m == Ready(work, mem)
      t == AddedFile(work, m, r, v)
  IN /\ r \notin Known(work, m) /\ m.next < Limit
     /\ Statement(IF m.built THEN Saved(t, AddedMem(t, m)) ELSE t, AddedMem(t, m))

Delete(r) == Statement(Removed(work, mem, r), mem)

Update(r, to, v) ==
  LET m == Ready(work, mem)
      t == AddedFile(Removed(work, m, r), m, to, v)
  IN /\ r \in Known(work, m) /\ to \notin Known(work, m) \ {r} /\ m.next < Limit
     /\ Statement(IF m.built THEN Saved(t, AddedMem(t, m)) ELSE t, AddedMem(t, m))

\* The new row is refused when the old one is gone.  SQLite takes that back,
\* except in a transaction: one-row updates run without a statement journal
\* (SQLITE_INDEX_SCAN_UNIQUE), which the fault "partial" stands for.
UpdateRefused(r) ==
  /\ r \in Known(work, mem)
  /\ Statement(IF tx /\ "partial" \in Faults THEN Removed(work, mem, r) ELSE work,
               Ready(work, mem))

(***************************************************************************)
(* A statement after the rows of an insertion fails: SQLite takes the      *)
(* tables back, the connection's memory keeps what it had counted.         *)
(***************************************************************************)
InsertUndone(r, v) ==
  LET m == Ready(work, mem)
      counted == AddedMem(AddedFile(work, m, r, v), m)
  IN /\ "undone" \in Faults /\ mem.built /\ ~tx
     /\ r \notin Known(work, m) /\ m.next < Limit
     /\ \/ Statement(work, counted)
        \/ /\ layout = "ivf"
           /\ \A L \in DOMAIN counted.head : counted.head[L].n < MaxSlots  \* bound
           /\ Statement(work, [counted EXCEPT !.next = m.next])

(***************************************************************************)
(* do_finalize: autocommit only.  The head is loaded again, with hints.    *)
(***************************************************************************)
Finalize ==
  LET m == Loaded(work, mem)
      t == IF layout = "ivf" THEN FinalizeIvf(work, m) ELSE FinalizeGraph(work, m)
      done == [m EXCEPT !.hints = TRUE, !.loaded = FALSE]
  IN /\ mem.built /\ ~tx /\ Idle
     /\ Effect(Saved(t, done), done)
     /\ moved' = FALSE
     /\ UNCHANGED auto

\* (Before a build no row is read through a hint.)
Vacuum ==
  /\ mem.built /\ ~tx /\ Idle
  /\ Effect(VacuumFile(work), mem)
  /\ moved' = mem.hints
  /\ UNCHANGED auto

(***************************************************************************)
(* Transactions: the module has no xBegin, xCommit or xRollback, so memory *)
(* stays as it is.                                                         *)
(***************************************************************************)
Begin ==
  /\ Idle /\ ~tx /\ tx' = TRUE
  /\ UNCHANGED << layout, disk, work, mem, moved, auto >>

Commit ==
  /\ Idle /\ tx /\ tx' = FALSE /\ disk' = work
  /\ UNCHANGED << layout, work, mem, moved, auto >>

Rollback ==
  /\ Idle /\ tx /\ tx' = FALSE /\ work' = disk
  /\ "undobuild" \in Faults \/ mem.built = disk.state.built
  /\ UNCHANGED << layout, disk, mem, moved, auto >>

\* The connection is closed or the process ends; another opens the file.
Reopen ==
  /\ Idle \/ tx \/ "autocrash" \in Faults
  /\ work' = disk /\ tx' = FALSE /\ mem' = Connected(disk) /\ auto' = NoBuild
  /\ UNCHANGED << layout, disk, moved >>

Next ==
  \/ Build \/ AutoStart \/ AutoRows \/ AutoState \/ AutoFails \/ FallbackDone
  \/ Query
  \/ \E r \in RowIds, v \in Vecs : Insert(r, v) \/ InsertUndone(r, v)
  \/ \E r \in RowIds : Delete(r) \/ UpdateRefused(r)
  \/ \E r, to \in RowIds, v \in Vecs : Update(r, to, v)
  \/ Finalize \/ Vacuum \/ Begin \/ Commit \/ Rollback \/ Reopen

Spec == Init /\ [][Next]_vars

-----------------------------------------------------------------------------
(***************************************************************************)
(* Properties.                                                             *)
(***************************************************************************)
VecOf(t, r) == IF layout = "ivf" THEN VecOfSlot(t, r) ELSE VecOfNode(t, r)

\* The rows of the virtual table, by result_embedding and the scan of
\* dense_filter.
View(t, built) ==
  IF built THEN [r \in DOMAIN t.rowids |-> VecOf(t, r)] ELSE t.buffer

\* The table is a table: every statement, transaction, build, finalize and
\* VACUUM, with the connection ending between any two of them, leaves the
\* rows SQL promises, and no deletion leaves its row (dense_update, dense_filter, do_build).
Sql == INSTANCE SqlTable WITH
         Values <- Vecs, open <- tx,
         rows   <- IF Idle THEN View(work, mem.built) ELSE auto.rows,
         saved  <- IF Idle \/ tx THEN View(disk, disk.state.built) ELSE auto.rows
DeletesCount ==
  UNCHANGED << tx, moved, auto, View(work, mem.built) >> =>
    \A r \in Known(work, mem) : ~Delete(r)
ImplementsSql == Sql!SqlSpec /\ [][DeletesCount]_vars

Now == Loaded(work, mem)
Found(q, raw) ==
  IF layout = "ivf" THEN IvfSearch(work, Now, q, raw) ELSE AnnSearch(work, Now, q, raw)
Right(q) == {[row |-> r, d |-> Dist(q, VecOf(work, r))] : r \in DOMAIN work.rowids}

\* A search returns rows of the table with their own distances, never a
\* deleted or replaced one, and an IVF search of every list, or over the
\* codes, misses none, as long as the ids of the chunks fit in 32 bits
\* (KeysFit; ann_search, ivf_search, ivf_exact_pq).
SearchSound ==
  mem.built /\ Idle =>
    /\ \A q \in Vecs : Found(q, FALSE) \subseteq Right(q)
    /\ layout = "ivf" =>
         /\ \A q \in Vecs : Right(q) \subseteq Found(q, FALSE)
         /\ IvfExact(work) = DOMAIN work.rowids

\* The pages of the range of a list hold lists only.
OwnPages(L) ==
  LET dir == Now.head[L]
  IN \A u \in {"nodes", "vectors"} : \A k \in DOMAIN work.pages[u] :
       work.pages[u][k] \notin dir.first .. dir.last

\* Rows read off hinted pages are the rows SQL would have given, also after
\* insertions that split the pages of a list (q_fetch, ivf_search).  Two
\* exceptions, described in the README: a list whose range has come to span
\* other tables, and ids of chunks that need more than 32 bits (~KeysFit).
RawSameAsSql ==
  /\ mem.built /\ Idle /\ ~tx /\ mem.hints /\ ~moved
  /\ layout = "ivf" => \A L \in DOMAIN Now.head : OwnPages(L)
  => \A q \in Vecs : Found(q, TRUE) = Found(q, FALSE)

\* No id is given out twice: what the connection would use next is above
\* every node, slot and chunk in the tables and in the committed file,
\* whatever was rolled back or failed, and so it is for the connection that
\* follows (next_id in insert_built, nch in insert_ivf).
Above(t, m) ==
  /\ \A i \in DOMAIN t.nodes \cup DOMAIN t.vectors : i < m.next
  /\ layout = "ivf" => \A k \in DOMAIN t.lists : k % Stride < m.head[ListOfKey(k)].n
IdsFresh ==
  /\ mem.built /\ Idle => Above(work, Now) /\ (disk.state.built => Above(disk, Now))
  /\ disk.state.built => Above(disk, Loaded(disk, Connected(disk)))

\* The graph is whole: neighbours exist, are distinct and other nodes, carry
\* the code of the node they name, at most M0 of them; the rowid map and the
\* live nodes name each other (insert_built, delete_row, do_build).
RefRight(t, ref) == ref.id \in DOMAIN t.nodes /\ ref.code = CodeOf[t.nodes[ref.id].vec]
GraphWhole(t) ==
  /\ \A i \in DOMAIN t.nodes :
       LET nbrs == t.nodes[i].nbrs
       IN /\ Len(nbrs) <= M0
          /\ \A a \in DOMAIN nbrs :
               /\ RefRight(t, nbrs[a]) /\ nbrs[a].id # i
               /\ \A b \in DOMAIN nbrs : nbrs[a].id = nbrs[b].id => a = b
          /\ ~t.nodes[i].dead =>
               t.nodes[i].row \in DOMAIN t.rowids /\ t.rowids[t.nodes[i].row] = i
  /\ \A r \in DOMAIN t.rowids :
       LET i == t.rowids[r]
       IN i \in DOMAIN t.nodes /\ ~t.nodes[i].dead /\ t.nodes[i].row = r

\* The lists are whole: every entry has a slot of its own, with a vector of
\* its code; a row has one live entry, in its list, at its slot (build_ivf,
\* insert_ivf, delete_ivf).
Entries(t) == UNION {{<< k, e >> : e \in DOMAIN t.lists[k].ents} : k \in DOMAIN t.lists}
SlotOf(t, x) == t.lists[x[1]].first + x[2] - 1
IvfWhole(t) ==
  /\ \A x, y \in Entries(t) : SlotOf(t, x) = SlotOf(t, y) => x = y
  /\ \A x \in Entries(t) :
       LET ent == t.lists[x[1]].ents[x[2]]
       IN /\ SlotOf(t, x) \in DOMAIN t.vectors
          /\ ent.code = CodeOf[t.vectors[SlotOf(t, x)]]
          /\ ~ent.dead => /\ ent.row \in DOMAIN t.rowids
                          /\ t.rowids[ent.row] = [list |-> ListOfKey(x[1]), slot |-> SlotOf(t, x)]
  /\ \A r \in DOMAIN t.rowids : \E x \in Entries(t) :
       LET ent == t.lists[x[1]].ents[x[2]] IN ent.row = r /\ ~ent.dead
LinksWhole ==
  Idle /\ mem.built => IF layout = "ivf" THEN IvfWhole(work) ELSE GraphWhole(work)

\* A hint is right or absent until VACUUM moves the rows: insertions, pruned
\* lists, deletions and rollbacks never leave one at another row's page
\* (do_finalize, finalize_ivf, insert_built).
RefHint(t, ref) == ref.page \in {0, PageOf(t, "nodes", ref.id)}
HintsRight ==
  Idle /\ mem.built /\ ~moved =>
    IF layout = "ivf"
    THEN \A x \in Entries(work) :
           work.lists[x[1]].ents[x[2]].page \in {0, PageOf(work, "vectors", SlotOf(work, x))}
    ELSE /\ \A i \in DOMAIN work.nodes : \A a \in DOMAIN work.nodes[i].nbrs :
               RefHint(work, work.nodes[i].nbrs[a])
         /\ \A a \in DOMAIN Now.head : RefHint(work, Now.head[a])

\* dense_filter: "if that is impossible [...] fall back to brute force over
\* the buffer": the rows a query had found are there when it falls back.
FallbackReady == auto.pc = "fallback" => View(work, mem.built) = auto.rows
=============================================================================
