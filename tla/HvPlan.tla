-------------------------------- MODULE HvPlan --------------------------------
(***************************************************************************)
(* httpvfs_plan of wasm/src/httpvfs.c: a round that needs more ranges than *)
(* the request budget allows at once.  The planner either merges ranges    *)
(* across the gaps between them, or splits the ranges into multi-range     *)
(* requests.  A call is a record:                                          *)
(*   len, gap    the blocks of each range, and between it and the next     *)
(*   max_req     the request budget                                        *)
(*   latency     rtt_ms * bw_Bpms / bs: a round trip, in blocks of time    *)
(*   max_blocks  merges may not fetch more (0: no limit)                   *)
(*   max_parts   ranges per multi-range request (0: no limit)              *)
(*   multipart   which of the two is asked for                             *)
(*   oom         the planner's allocation fails                            *)
(***************************************************************************)
EXTENDS Integers, Sequences, FiniteSets, Functions

CONSTANT Calls  \* bound: the calls to plan

CallType ==
  [len : Seq(Nat \ {0}), gap : Seq(Nat), max_req : Int, latency : Nat, max_blocks : Int,
   max_parts : Int, multipart : BOOLEAN, oom : BOOLEAN]

ASSUME PlanAssumption ==
  /\ Calls \subseteq CallType
  /\ \A c \in Calls : Len(c.len) > 0 /\ Len(c.gap) = Len(c.len) - 1

VARIABLES call, plan  \* plan: [n, grp], grp[i] the request of range i; or NoPlan

vars == << call, plan >>

NoPlan == [n |-> -1, grp |-> << >>]

Total(f)       == FoldFunction(+, 0, f)
CeilDiv(a, b)  == (a + b - 1) \div b
Larger(a, b)   == IF a >= b THEN a ELSE b
NumRanges(c)   == Len(c.len)

SeparateFromOne(c) ==  \* mutant: requests are numbered from one
  [n |-> NumRanges(c), grp |-> [i \in 1 .. NumRanges(c) |-> i]]

(* One request per range. *)
Separate(c) == [n |-> NumRanges(c), grp |-> [i \in 1 .. NumRanges(c) |-> i - 1]]

-----------------------------------------------------------------------------
(***************************************************************************)
(* Merging.  g requests cut the ranges apart at the g-1 largest gaps, the  *)
(* first one first among equals.                                           *)
(***************************************************************************)
CutsSmallest(c, g) ==  \* mutant: the gaps are sorted the other way round
  {i \in DOMAIN c.gap :
     Cardinality({j \in DOMAIN c.gap : \/ c.gap[j] < c.gap[i]
                                       \/ c.gap[j] = c.gap[i] /\ j < i}) < g - 1}

Cuts(c, g) ==
  {i \in DOMAIN c.gap :
     Cardinality({j \in DOMAIN c.gap : \/ c.gap[j] > c.gap[i]
                                       \/ c.gap[j] = c.gap[i] /\ j < i}) < g - 1}

Span(c, cuts) == Total(c.len) + Total([i \in DOMAIN c.gap \ cuts |-> c.gap[i]])

(* The cost, in blocks of time: waves of max_req requests, and the blocks. *)
Cost(c, cuts) == CeilDiv(Cardinality(cuts) + 1, c.max_req) * c.latency + Span(c, cuts)

WithinAlways(c, cuts) == TRUE  \* mutant: the limit on over-fetching is dropped

Within(c, cuts) == c.max_blocks > 0 => Span(c, cuts) <= c.max_blocks

(* All ranges apart, unless a multiple of max_req requests is cheaper. *)
BestG(c) ==
  LET m == NumRanges(c)
      best[waves \in 0 .. (m - 1) \div c.max_req] ==
        IF waves = 0 THEN m
        ELSE LET b == best[waves - 1]
                 g == waves * c.max_req
             IN  IF Within(c, Cuts(c, g)) /\ Cost(c, Cuts(c, g)) < Cost(c, Cuts(c, b))
                 THEN g ELSE b
  IN  best[(m - 1) \div c.max_req]

Merge(c) ==
  LET g    == BestG(c)
      cuts == Cuts(c, g)
  IN  [n   |-> g,
       grp |-> [i \in 1 .. NumRanges(c) |-> Cardinality({j \in cuts : j < i})]]

-----------------------------------------------------------------------------
(***************************************************************************)
(* Multi-range requests.  at is the loop's state before a range: the       *)
(* request k, its ranges cnt, the blocks acc of all ranges so far, and m   *)
(* ranges left.                                                            *)
(***************************************************************************)
MaxParts(c) == IF c.max_parts <= 0 THEN NumRanges(c) ELSE c.max_parts
Requests(c) == Larger(c.max_req, CeilDiv(NumRanges(c), MaxParts(c)))

HasShare(c, at) == at.acc * Requests(c) >= Total(c.len) * (at.k + 1)
RestFits(c, at) == at.m <= (Requests(c) - 1 - at.k) * MaxParts(c)

CloseAtShare(c, at) ==  \* mutant: the share counts even if the rest does not fit
  /\ at.cnt > 0
  /\ \/ at.cnt >= MaxParts(c)
     \/ /\ at.k < Requests(c) - 1
        /\ HasShare(c, at) \/ at.m <= Requests(c) - 1 - at.k

CloseWhenFull(c, at) ==  \* mutant: the shares are not looked at
  /\ at.cnt > 0
  /\ \/ at.cnt >= MaxParts(c)
     \/ at.k < Requests(c) - 1 /\ at.m <= Requests(c) - 1 - at.k

Close(c, at) ==
  /\ at.cnt > 0
  /\ \/ at.cnt >= MaxParts(c)
     \/ /\ at.k < Requests(c) - 1
        /\ \/ HasShare(c, at) /\ RestFits(c, at)
           \/ at.m <= Requests(c) - 1 - at.k

AfterRange(c, at, i) ==
  LET k == IF Close(c, at) THEN at.k + 1 ELSE at.k
  IN  [k   |-> k,
       cnt |-> IF Close(c, at) THEN 1 ELSE at.cnt + 1,
       acc |-> at.acc + c.len[i],
       m   |-> at.m - 1,
       grp |-> Append(at.grp, k)]

Split(c) ==
  LET m == NumRanges(c)
      after[i \in 0 .. m] ==
        IF i = 0 THEN [k |-> 0, cnt |-> 0, acc |-> 0, m |-> m, grp |-> << >>]
        ELSE AfterRange(c, after[i - 1], i)
  IN  [n |-> after[m].k + 1, grp |-> after[m].grp]

-----------------------------------------------------------------------------
(* httpvfs_plan; its callers ask for a plan of at least one range. *)
PlanOf(c) ==
  IF c.max_req <= 0 \/ NumRanges(c) <= c.max_req THEN Separate(c)
  ELSE IF c.multipart THEN Split(c)
  ELSE IF c.oom THEN Separate(c)
  ELSE Merge(c)

PlanInit == call \in Calls /\ plan = NoPlan

MakePlan == /\ plan = NoPlan
            /\ plan' = PlanOf(call)
            /\ UNCHANGED call

PlanSpec == PlanInit /\ [][MakePlan]_vars

-----------------------------------------------------------------------------
Planned == plan # NoPlan
Over    == call.max_req > 0 /\ NumRanges(call) > call.max_req
InRequest(k) == {i \in DOMAIN plan.grp : plan.grp[i] = k}

(***************************************************************************)
(* "assigns the ranges to requests, grp[i] = request number                *)
(* (nondecreasing), and returns the number of requests": no range is left  *)
(* out, no request is empty, and a request is a run of ranges.             *)
(***************************************************************************)
Assigned ==
  Planned =>
    /\ DOMAIN plan.grp = 1 .. NumRanges(call)
    /\ {plan.grp[i] : i \in DOMAIN plan.grp} = 0 .. plan.n - 1
    /\ \A i, j \in DOMAIN plan.grp : i < j => plan.grp[i] <= plan.grp[j]

(***************************************************************************)
(* "Only g = m and multiples of max_req can be optimal [...] so all        *)
(* candidates are evaluated exactly": no way at all to cut the ranges into *)
(* contiguous requests within the limit is cheaper, and the plan itself is *)
(* within it unless it merges nothing.                                     *)
(***************************************************************************)
CutsOf(p) == {i \in DOMAIN call.gap : p.grp[i] # p.grp[i + 1]}

Cheapest ==
  (Planned /\ Over /\ ~call.multipart /\ ~call.oom) =>
    LET cuts    == CutsOf(plan)
        all     == DOMAIN call.gap
        mayCut  == {S \in SUBSET all : S = all \/ Within(call, S)}
    IN  \A S \in mayCut : Cost(call, cuts) <= Cost(call, S)

MergeWithinLimit ==
  (Planned /\ ~call.multipart /\ call.max_blocks > 0 /\ plan.n < NumRanges(call)) =>
    Span(call, CutsOf(plan)) <= call.max_blocks

(***************************************************************************)
(* "the ranges are split in offset order into min(max_req, m) requests     *)
(* [...] with at most max_parts ranges per request": all requests of the   *)
(* budget are used, and more only as max_parts demands.                    *)
(***************************************************************************)
PartsFit ==
  (Planned /\ Over /\ call.multipart) =>
    /\ plan.n = Requests(call)
    /\ \A k \in 0 .. plan.n - 1 : Cardinality(InRequest(k)) <= MaxParts(call)

(***************************************************************************)
(* "of similar byte size": while max_parts does not interfere, a request   *)
(* exceeds an equal share by less than its last range.                     *)
(***************************************************************************)
SharesSimilar ==
  (Planned /\ Over /\ call.multipart /\ MaxParts(call) >= NumRanges(call)) =>
    \A k \in 0 .. plan.n - 1 :
      LET R    == InRequest(k)
          last == CHOOSE i \in R : \A j \in R : j <= i
          size == Total([i \in R |-> call.len[i]])
      IN  (size - call.len[last]) * plan.n < Total(call.len)
=============================================================================
