------------------------------ MODULE MCSpecLoop ------------------------------
(***************************************************************************)
(* Workloads for SpecLoop.                                                 *)
(***************************************************************************)
EXTENDS SpecLoop

NoBatches == {}

(* Pairs and triples of descents of a three-level tree (root 1, interior   *)
(* pages 2 and 3, leaves 4 and 5), lookups that share nothing, and one     *)
(* that starts in the header's block; six blocks, all within the budget.   *)
Fitting ==
  LET paths == {<< 1, 2, 4 >>, << 1, 3, 5 >>, << 1, 2, 5 >>, << 1, 3 >>, << 4 >>, << 0, 3 >>}
  IN  {<< p, q >> : p, q \in paths} \cup {<< p, q, r >> : p, q, r \in paths}

(* Three descents that share the root: seven blocks, a budget of four. *)
TooLarge == {<< << 1, 2, 5 >>, << 1, 3, 6 >>, << 1, 4, 7 >> >>}

(* The theorems about lookups that fit are about workloads like these. *)
ASSUME FittingFits == Workloads = Fitting => AllFit
=============================================================================
