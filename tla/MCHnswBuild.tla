----------------------------- MODULE MCHnswBuild -----------------------------
(***************************************************************************)
(* Inputs for HnswBuild.  No two points are equally far from a third one,  *)
(* so the order of equal distances never matters.                          *)
(***************************************************************************)
EXTENDS HnswBuild

Coordinates == {1, 2, 4, 8, 16}
AnyPoints == {p \in [1 .. N -> Coordinates] : \A i, j \in 1 .. N : p[i] = p[j] => i = j}
AnyLevels == [1 .. N -> 0 .. 1]

(* Nodes 3 to 5 are inserted concurrently. *)
SomePoints == {<< 1, 16, 8, 4, 2 >>, << 4, 1, 16, 2, 8 >>}
SomeLevels == {<< 0, 1, 1, 0, 0 >>, << 1, 0, 1, 1, 0 >>, << 0, 1, 2, 2, 0 >>}
=============================================================================
