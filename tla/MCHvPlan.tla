------------------------------ MODULE MCHvPlan ------------------------------
(***************************************************************************)
(* Bounds for model-checking HvPlan.                                       *)
(***************************************************************************)
EXTENDS HvPlan

CONSTANTS MergeRanges, SplitRanges  \* bounds: ranges of a call

MergeCalls ==
  UNION {[len : [1 .. m -> {1, 2}], gap : [1 .. m - 1 -> {1, 2, 4}],
          max_req : 0 .. 3, latency : {0, 1, 3, 9}, max_blocks : {0, 8, 12},
          max_parts : {1}, multipart : {FALSE}, oom : BOOLEAN] : m \in 1 .. MergeRanges}

SplitCalls ==
  UNION {[len : [1 .. m -> {1, 2, 5}], gap : [1 .. m - 1 -> {1}],
          max_req : 1 .. 4, latency : {0}, max_blocks : {0},
          max_parts : {0, 1, 2, 3, 5}, multipart : {TRUE}, oom : {FALSE}]
          : m \in 1 .. SplitRanges}

AnyCall == MergeCalls \cup SplitCalls
=============================================================================
