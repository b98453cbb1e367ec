------------------------------- MODULE MCHvFile -------------------------------
(***************************************************************************)
(* Bounds for model-checking HvFile.                                       *)
(***************************************************************************)
EXTENDS HvFile

(* Block NumBlocks stands for all blocks beyond the end of the file. *)
AnyBatch == SUBSET (0 .. NumBlocks)

(* The whole file, the whole file but one block, one block or two. *)
LargeOrSmall == {S \in AnyBatch : \/ Cardinality(S) <= 2
                                  \/ Cardinality(S) >= NumBlocks}
=============================================================================
