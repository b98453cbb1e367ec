------------------------------ MODULE MCHvSlots ------------------------------
(***************************************************************************)
(* Bounds for model-checking HvSlots.                                      *)
(***************************************************************************)
EXTENDS HvSlots

(* Blocks 0 and 1 collide in every table, 2 joins them in tables of up to  *)
(* four buckets, 3 only where there is a single bucket.                    *)
Hash == [k \in 0 .. NumBlocks - 1 |->
           CASE k \in {0, 1} -> 0 [] k = 2 -> 4 [] OTHER -> 1]
=============================================================================
