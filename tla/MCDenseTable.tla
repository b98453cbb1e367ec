---------------------------- MODULE MCDenseTable ----------------------------
(***************************************************************************)
(* Bounds for model-checking DenseTable.                                   *)
(***************************************************************************)
EXTENDS DenseTable

CONSTANTS RowCount  \* bound: user rowids

TwoVecs == {0, 4}
FirstRows == 1 .. RowCount
Rounded == [v \in Vecs |-> v - (v % 2)]          \* 0 and 1 share a code
Nearest == [n \in 1 .. NLists |-> [v \in Vecs |-> IF v > 2 THEN n - 1 ELSE 0]]

\* Bound: nothing is explored after VACUUM has moved pages that hints name,
\* where only SQL reads are claimed to be right; VACUUM before 'finalize' is.
Settled == ~moved
=============================================================================
