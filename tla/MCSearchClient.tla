--------------------------- MODULE MCSearchClient ---------------------------
(***************************************************************************)
(* Bounds for model-checking SearchClient.                                 *)
(***************************************************************************)
EXTENDS SearchClient

CONSTANTS c1, c2  \* searches
TwoCalls == {c1, c2}

\* Two groups of two ranges and one of one; one range.
SomeShapes == {<< 1, 2, 2 >>, << 1 >>}
=============================================================================
