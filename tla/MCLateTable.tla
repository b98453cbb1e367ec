---------------------------- MODULE MCLateTable -----------------------------
(***************************************************************************)
(* Bounds for model-checking LateTable.                                    *)
(***************************************************************************)
EXTENDS LateTable

\* Tokens 0 and 1 share centroid 0; cell 2 is empty.
Codes == [v \in 0 .. 3 |-> IF v = 0 THEN 0 ELSE v - 1]
Starts == << 0, 2, 2, 3 >>
TwoRows == {0, 1}
SomeInputs == {<< 0, << 0, 3 >> >>, << 1, << 1, 2 >> >>}
SomeDocs == {x[2] : x \in SomeInputs}
Probed == {{2}, {0, 1, 2}}
\* The first holds a document too long for a plaid layout.
Npy == {<< << 2 >>, << 1, 0, 3 >> >>, << << 2, 0 >>, << 3 >>, << 1, 2 >> >>}

Raw(plaid, warp, cells) == [plaid |-> plaid, warp |-> warp, cells |-> cells, raw |-> TRUE]
SomeConfigs == {Raw(TRUE, TRUE, TRUE), Raw(FALSE, TRUE, TRUE), Raw(TRUE, FALSE, FALSE),
                [plaid |-> TRUE, warp |-> TRUE, cells |-> TRUE, raw |-> FALSE]}
TxConfigs == {Raw(TRUE, FALSE, FALSE)}

\* Bound: nothing is explored after a state whose memory may be out of date;
\* the states reached from it are reached as well with 'reload' before it.
Fresh == ~stale
=============================================================================
