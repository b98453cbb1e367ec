------------------------------ MODULE SqlTable ------------------------------
(***************************************************************************)
(* What a virtual table promises as a table of SQLite: rows keyed by       *)
(* rowid, statements that happen whole or not at all, transactions, and    *)
(* a crash that loses exactly what was not committed.                      *)
(***************************************************************************)
CONSTANTS RowIds, Values

VARIABLES
  rows,   \* what the connection sees
  saved,  \* what is committed
  open    \* an explicit transaction is open

sqlVars == << rows, saved, open >>

SqlInit == rows = << >> /\ saved = rows /\ open = FALSE

Write(new) ==
  /\ rows' = new
  /\ saved' = IF open THEN saved ELSE new
  /\ UNCHANGED open

Without(r)      == [k \in DOMAIN rows \ {r} |-> rows[k]]
With(old, r, v) == [k \in DOMAIN old \cup {r} |-> IF k = r THEN v ELSE old[k]]

Put(r, v)    == r \notin DOMAIN rows /\ Write(With(rows, r, v))
Remove(r)    == Write(Without(r))
\* An UPDATE of an absent row changes nothing.
Change(r, to, v) ==
  /\ r \in DOMAIN rows
  /\ to \notin DOMAIN rows \ {r}
  /\ Write(With(Without(r), to, v))

Begin    == ~open /\ open' = TRUE /\ UNCHANGED << rows, saved >>
Commit   == open /\ saved' = rows /\ open' = FALSE /\ UNCHANGED rows
Rollback == open /\ rows' = saved /\ open' = FALSE /\ UNCHANGED saved
Crash    == rows' = saved /\ open' = FALSE /\ UNCHANGED saved

SqlNext ==
  \/ \E r \in RowIds, v \in Values : Put(r, v)
  \/ \E r \in RowIds : Remove(r)
  \/ \E r, to \in RowIds, v \in Values : Change(r, to, v)
  \/ Begin \/ Commit \/ Rollback \/ Crash

SqlSpec == SqlInit /\ [][SqlNext]_sqlVars
=============================================================================
