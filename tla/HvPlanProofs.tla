----------------------------- MODULE HvPlanProofs -----------------------------
(***************************************************************************)
(* Theorems about HvPlan, for calls of any size: every range has one       *)
(* request and every request its run of ranges; a merge keeps to its limit *)
(* and no other way to cut the ranges is cheaper; the multi-range requests *)
(* are exactly as many as the budget or max_parts asks for, none of them   *)
(* over max_parts, and exceed an equal share by less than their last       *)
(* range.                                                                  *)
(***************************************************************************)
EXTENDS HvPlan, SequenceTheorems, InductionLemmas

AssignsAll(c, p) ==
  /\ DOMAIN p.grp = 1 .. NumRanges(c)
  /\ {p.grp[i] : i \in DOMAIN p.grp} = 0 .. p.n - 1
  /\ \A i, j \in DOMAIN p.grp : i < j => p.grp[i] <= p.grp[j]

OverBudget(c) == c.max_req > 0 /\ NumRanges(c) > c.max_req

LEMMA CallFacts ==
  ASSUME NEW c \in Calls
  PROVE  /\ c \in CallType /\ NumRanges(c) \in Nat \ {0}
         /\ DOMAIN c.gap = 1 .. NumRanges(c) - 1
         /\ \A i \in DOMAIN c.gap : c.gap[i] \in Nat
         /\ \A i \in 1 .. NumRanges(c) : c.len[i] \in Nat
         /\ c.max_req \in Int /\ c.max_parts \in Int
         /\ c.latency \in Nat /\ c.max_blocks \in Int
<1>1. c \in CallType /\ Len(c.len) > 0 /\ Len(c.gap) = Len(c.len) - 1
  BY PlanAssumption
<1>2. /\ c.len \in Seq(Nat \ {0}) /\ c.gap \in Seq(Nat)
      /\ c.max_req \in Int /\ c.max_parts \in Int /\ c.latency \in Nat /\ c.max_blocks \in Int
  BY <1>1 DEF CallType
<1>3. Len(c.len) \in Nat /\ \A i \in 1 .. Len(c.len) : c.len[i] \in Nat \ {0}
  BY <1>2, LenProperties, ElementOfSeq
<1>4. DOMAIN c.gap = 1 .. Len(c.gap) /\ \A i \in 1 .. Len(c.gap) : c.gap[i] \in Nat
  BY <1>2, LenProperties, ElementOfSeq
<1>5. DOMAIN c.gap = 1 .. Len(c.len) - 1 /\ \A i \in DOMAIN c.gap : c.gap[i] \in Nat
  BY <1>1, <1>4
<1>6. Len(c.len) \in Nat \ {0} /\ \A i \in 1 .. Len(c.len) : c.len[i] \in Nat
  <2>1. Len(c.len) # 0
    BY <1>1, <1>3
  <2> QED BY <1>3, <2>1
<1> QED BY <1>1, <1>2, <1>5, <1>6 DEF NumRanges

(* Requests numbered from 0 that climb by at most one are all used.        *)
LEMMA ClimbingAssigns ==
  ASSUME NEW c \in Calls, NEW p, NumRanges(c) \in Nat \ {0},
         ClimbsTo(p.grp, NumRanges(c)), p.n = p.grp[NumRanges(c)] + 1
  PROVE  AssignsAll(c, p)
<1> DEFINE m == NumRanges(c)
<1>1. DOMAIN p.grp = 1 .. m /\ p.grp[m] \in Nat
  BY DEF ClimbsTo
<1>2. /\ {p.grp[i] : i \in 1 .. m} = 0 .. p.grp[m]
      /\ \A i, j \in 1 .. m : i < j => p.grp[i] <= p.grp[j]
  BY Climbing
<1>3. 0 .. p.grp[m] = 0 .. p.n - 1
  BY <1>1
<1> HIDE DEF m
<1> QED BY <1>1, <1>2, <1>3 DEF AssignsAll, m

LEMMA SeparateAssigns == ASSUME NEW c \in Calls PROVE AssignsAll(c, Separate(c))
<1> DEFINE m == NumRanges(c)
           p == Separate(c)
<1>1. m \in Nat \ {0}
  BY CallFacts
<1> HIDE DEF m
<1>2. p.n = m /\ p.grp = [i \in 1 .. m |-> i - 1]
  BY DEF Separate, m
<1> HIDE DEF p
<1>3. ClimbsTo(p.grp, m) /\ p.n = p.grp[m] + 1
  BY <1>1, <1>2 DEF ClimbsTo
<1> QED BY <1>1, <1>3, ClimbingAssigns DEF m, p

-----------------------------------------------------------------------------
(***************************************************************************)
(* Sums.  Total adds the values of a function in the order of CHOOSE; for  *)
(* a finite domain the order does not matter, so that a sum loses one      *)
(* member at a time, in any order.                                         *)
(***************************************************************************)
SumOver(f, S) == Total([x \in S |-> f[x]])

SumsTo(f, S) == IsFiniteSet(S) /\ \A x \in S : f[x] \in Nat

Any(s) == CHOOSE x \in s : TRUE
NextSum(f, it, s) == IF s = {} THEN 0 ELSE f[Any(s)] + it[s \ {Any(s)}]
PartialSums(f) == CHOOSE it : it = [s \in SUBSET DOMAIN f |-> NextSum(f, it, s)]

ArePartialSums(it, f, S) ==
  /\ it \in [SUBSET S -> Nat]
  /\ \A s \in SUBSET S : it[s] = NextSum(f, it, s)

LEMMA TotalIsPartial == ASSUME NEW f PROVE Total(f) = PartialSums(f)[DOMAIN f]
BY DEF Total, FoldFunction, FoldFunctionOnSet, MapThenFoldSet, PartialSums, NextSum, Any

LEMMA AnyRemoved ==
  ASSUME NEW s, IsFiniteSet(s), s # {}
  PROVE  /\ Any(s) \in s /\ IsFiniteSet(s \ {Any(s)}) /\ s \ {Any(s)} \in SUBSET s
         /\ Cardinality(s) \in Nat \ {0}
         /\ Cardinality(s \ {Any(s)}) = Cardinality(s) - 1
<1>1. Any(s) \in s
  BY DEF Any
<1>2. /\ IsFiniteSet(s \ {Any(s)}) /\ Cardinality(s \ {Any(s)}) = Cardinality(s) - 1
  BY <1>1, FS_RemoveElement
<1>3. Cardinality(s) \in Nat /\ Cardinality(s) # 0
  BY FS_CardinalityType, FS_EmptySet
<1> QED BY <1>1, <1>2, <1>3

LEMMA NextSumIs ==
  ASSUME NEW f, NEW it, NEW s
  PROVE  /\ s = {} => NextSum(f, it, s) = 0
         /\ s # {} => NextSum(f, it, s) = f[Any(s)] + it[s \ {Any(s)}]
BY DEF NextSum

(* A round of sums from the last is exact for sets one larger; as many     *)
(* rounds as S has members, and one more, leave nothing to change.         *)
LEMMA PartialSumsExist ==
  ASSUME NEW S, NEW f, DOMAIN f = S, SumsTo(f, S)
  PROVE  ArePartialSums(PartialSums(f), f, S)
<1> DEFINE V == [SUBSET S -> Nat]
           n == Cardinality(S) + 1
           zero == [s \in SUBSET S |-> 0]
           F == [p \in (1 .. n) \X V |-> [s \in SUBSET S |-> NextSum(f, p[2], s)]]
<1>1. n \in Nat \ {0} /\ n - 1 = Cardinality(S) /\ zero \in V
  BY FS_CardinalityType DEF SumsTo
<1>2. \A it \in V, s \in SUBSET S : NextSum(f, it, s) \in Nat
  <2> TAKE it \in V, s \in SUBSET S
  <2>1. CASE s = {}
    BY <2>1, NextSumIs
  <2>2. CASE s # {}
    <3>1. IsFiniteSet(s)
      BY FS_Subset DEF SumsTo
    <3>2. f[Any(s)] \in Nat /\ it[s \ {Any(s)}] \in Nat
      <4>1. Any(s) \in S /\ s \ {Any(s)} \in SUBSET S
        BY <2>2, <3>1, AnyRemoved
      <4> QED BY <4>1 DEF SumsTo
    <3> QED BY <2>2, <3>2, NextSumIs
  <2> QED BY <2>1, <2>2
<1>3. F \in [(1 .. n) \X V -> V]
  BY <1>2
<1>4. \A i \in 1 .. n, it \in V : F[<< i, it >>] = [s \in SUBSET S |-> NextSum(f, it, s)]
  OBVIOUS
<1> HIDE DEF F, zero, n
<1>5. PICK g \in [0 .. n -> V] :
        g[0] = zero /\ \A i \in 1 .. n : g[i] = F[<< i, g[i - 1] >>]
  <2>1. StepsIn(F, n, V)
    BY <1>3 DEF StepsIn
  <2>2. HasIterates(zero, n, F, V)
    <3> HIDE DEF V
    <3> QED BY <1>1, <2>1, Recursion
  <2> QED BY <2>2 DEF HasIterates, Iterates
<1>6. \A i \in 1 .. n : i - 1 \in 0 .. n /\ \A s \in SUBSET S : g[i][s] = NextSum(f, g[i - 1], s)
  <2> TAKE i \in 1 .. n
  <2>1. i - 1 \in 0 .. n /\ g[i - 1] \in V
    BY <1>1, <1>5
  <2>2. g[i] = [s \in SUBSET S |-> NextSum(f, g[i - 1], s)]
    BY <1>4, <1>5, <2>1
  <2> QED BY <2>1, <2>2
<1> DEFINE Exact == {k \in 0 .. n - 1 : \A s \in SUBSET S :
                        Cardinality(s) <= k => g[k + 1][s] = g[k][s]}
<1>7. ASSUME NEW k \in 0 .. n - 1, NEW s \in SUBSET S, s = {} PROVE g[k + 1][s] = g[k][s]
  <2>1. g[k + 1][s] = 0
    <3>1. k + 1 \in 1 .. n
      BY <1>1
    <3>2. g[k + 1][s] = NextSum(f, g[(k + 1) - 1], s)
      BY <1>6, <3>1
    <3> QED BY <1>7, <3>2, NextSumIs
  <2>2. CASE k = 0
    BY <1>5, <2>1, <2>2 DEF zero
  <2>3. CASE k # 0
    <3>1. k \in 1 .. n
      BY <1>1, <2>3
    <3>2. g[k][s] = NextSum(f, g[k - 1], s)
      BY <1>6, <3>1
    <3>3. NextSum(f, g[k - 1], s) = 0
      BY <1>7, NextSumIs
    <3> QED BY <2>1, <3>2, <3>3
  <2> QED BY <2>2, <2>3
<1>8. 0 \in Exact
  <2>1. \A s \in SUBSET S : Cardinality(s) <= 0 => s = {}
    <3> TAKE s \in SUBSET S
    <3>1. IsFiniteSet(s)
      BY FS_Subset DEF SumsTo
    <3>2. Cardinality(s) \in Nat /\ (Cardinality(s) = 0 <=> s = {})
      BY <3>1, FS_CardinalityType, FS_EmptySet
    <3> QED BY <3>2
  <2> QED BY <1>1, <1>7, <2>1
<1>9. ASSUME NEW k \in 1 .. n - 1, k - 1 \in Exact PROVE k \in Exact
  <2> SUFFICES ASSUME NEW s \in SUBSET S, Cardinality(s) <= k, s # {}
               PROVE  g[k + 1][s] = g[k][s]
    BY <1>1, <1>7
  <2>1. IsFiniteSet(s)
    BY FS_Subset DEF SumsTo
  <2> DEFINE t == s \ {Any(s)}
  <2>2. t \in SUBSET S /\ Cardinality(t) <= k - 1
    <3>1. /\ t \in SUBSET s /\ Cardinality(t) = Cardinality(s) - 1
          /\ Cardinality(s) \in Nat
      BY <2>1, AnyRemoved
    <3> QED BY <1>1, <3>1
  <2>3. k \in 1 .. n /\ k + 1 \in 1 .. n /\ (k + 1) - 1 = k /\ (k - 1) + 1 = k
    BY <1>1
  <2>4. g[k][t] = g[k - 1][t]
    <3> HIDE DEF t
    <3> QED BY <1>9, <2>2, <2>3
  <2>5. g[k + 1][s] = NextSum(f, g[k], s) /\ g[k][s] = NextSum(f, g[k - 1], s)
    BY <1>6, <2>3
  <2>6. /\ NextSum(f, g[k], s) = f[Any(s)] + g[k][t]
        /\ NextSum(f, g[k - 1], s) = f[Any(s)] + g[k - 1][t]
    BY NextSumIs
  <2> HIDE DEF t
  <2> QED BY <2>4, <2>5, <2>6
<1>10. n - 1 \in Exact
  <2> HIDE DEF Exact
  <2>1. n - 1 \in Nat
    BY <1>1
  <2>2. \A i \in 0 .. n - 1 : i \in Exact
    BY <2>1, <1>8, <1>9, UpTo
  <2> QED BY <2>1, <2>2
<1> DEFINE it == g[n]
<1>11. it \in V
  BY <1>1, <1>5
<1>12. \A s \in SUBSET S : it[s] = NextSum(f, it, s)
  <2> TAKE s \in SUBSET S
  <2>1. it[s] = NextSum(f, g[n - 1], s)
    BY <1>1, <1>6
  <2>2. CASE s = {}
    BY <2>1, <2>2, NextSumIs
  <2>3. CASE s # {}
    <3> DEFINE t == s \ {Any(s)}
    <3>1. IsFiniteSet(s) /\ Cardinality(s) <= Cardinality(S)
      BY FS_Subset DEF SumsTo
    <3>2. t \in SUBSET S /\ Cardinality(t) <= n - 1
      <4>1. t \in SUBSET S /\ Cardinality(t) = Cardinality(s) - 1 /\ Cardinality(s) \in Nat
        BY <2>3, <3>1, AnyRemoved
      <4> QED BY <1>1, <3>1, <4>1
    <3>3. g[(n - 1) + 1][t] = g[n - 1][t] /\ (n - 1) + 1 = n
      <4> HIDE DEF t
      <4> QED BY <1>1, <1>10, <3>2
    <3>4. /\ NextSum(f, g[n - 1], s) = f[Any(s)] + g[n - 1][t]
          /\ NextSum(f, it, s) = f[Any(s)] + it[t]
      BY <2>3, NextSumIs
    <3> HIDE DEF t
    <3> QED BY <2>1, <3>3, <3>4
  <2> QED BY <2>2, <2>3
<1> HIDE DEF it
<1>13. it = [s \in SUBSET DOMAIN f |-> NextSum(f, it, s)]
  BY <1>11, <1>12
<1>14. PartialSums(f) = [s \in SUBSET DOMAIN f |-> NextSum(f, PartialSums(f), s)]
  BY <1>13 DEF PartialSums
<1> QED
  <2> DEFINE p == PartialSums(f)
  <2>1. p = [s \in SUBSET S |-> NextSum(f, p, s)]
    BY <1>14
  <2> HIDE DEF p
  <2>2. \A s \in SUBSET S : p[s] = NextSum(f, p, s)
    BY <2>1
  <2> DEFINE Bad == {Cardinality(s) : s \in {u \in SUBSET S : p[u] \notin Nat}}
  <2>3. Bad = {}
    <3> SUFFICES ASSUME Bad # {} PROVE FALSE
      OBVIOUS
    <3>1. \A s \in SUBSET S : IsFiniteSet(s) /\ Cardinality(s) \in Nat
      BY FS_Subset, FS_CardinalityType DEF SumsTo
    <3>2. Bad \subseteq Nat
      BY <3>1
    <3>3. PICK b \in Bad : \A y \in Bad : b <= y
      <4> HIDE DEF Bad
      <4> QED BY <3>2, LeastNatural
    <3>4. PICK s \in SUBSET S : p[s] \notin Nat /\ b = Cardinality(s)
      OBVIOUS
    <3>5. s # {}
      <4> SUFFICES ASSUME s = {} PROVE FALSE
        OBVIOUS
      <4>1. p[s] = 0
        BY <2>2, NextSumIs
      <4> QED BY <3>4, <4>1
    <3> DEFINE t == s \ {Any(s)}
    <3>6. t \in SUBSET S /\ Cardinality(t) = Cardinality(s) - 1 /\ Any(s) \in S
      BY <3>1, <3>5, AnyRemoved
    <3>7. p[s] = f[Any(s)] + p[t]
      <4>1. NextSum(f, p, s) = f[Any(s)] + p[t]
        BY <3>5, NextSumIs
      <4> HIDE DEF t
      <4> QED BY <2>2, <4>1
    <3> HIDE DEF t
    <3>8. p[t] \notin Nat
      BY <3>4, <3>6, <3>7 DEF SumsTo
    <3>9. Cardinality(t) \in Bad
      BY <3>6, <3>8
    <3>10. ~(b <= Cardinality(t))
      BY <3>1, <3>4, <3>6
    <3> QED BY <3>3, <3>9, <3>10
  <2>4. p \in [SUBSET S -> Nat]
    <3>1. \A s \in SUBSET S : p[s] \in Nat
      BY <2>3
    <3>2. p = [s \in SUBSET S |-> p[s]]
      BY <2>1
    <3> QED BY <3>1, <3>2
  <2> QED BY <2>2, <2>4 DEF ArePartialSums, p

(* Sums from two functions that agree are the same.                        *)
LEMMA PartialSumsAgree ==
  ASSUME NEW S, IsFiniteSet(S), NEW T \in SUBSET S, NEW f, NEW g, NEW it, NEW jt,
         \A x \in T : f[x] = g[x], ArePartialSums(it, f, S), ArePartialSums(jt, g, T)
  PROVE  it[T] = jt[T]
<1> DEFINE Bad == {Cardinality(s) : s \in {u \in SUBSET T : it[u] # jt[u]}}
<1>1. \A s \in SUBSET T : IsFiniteSet(s) /\ Cardinality(s) \in Nat
  BY FS_Subset, FS_CardinalityType
<1>2. Bad = {}
  <2> SUFFICES ASSUME Bad # {} PROVE FALSE
    OBVIOUS
  <2>1. Bad \subseteq Nat
    BY <1>1
  <2>2. PICK b \in Bad : \A y \in Bad : b <= y
    <3> HIDE DEF Bad
    <3> QED BY <2>1, LeastNatural
  <2>3. PICK s \in SUBSET T : it[s] # jt[s] /\ b = Cardinality(s)
    OBVIOUS
  <2>4. it[s] = NextSum(f, it, s) /\ jt[s] = NextSum(g, jt, s)
    BY DEF ArePartialSums
  <2>5. s # {}
    BY <2>3, <2>4, NextSumIs
  <2> DEFINE t == s \ {Any(s)}
  <2>6. t \in SUBSET T /\ Cardinality(t) = Cardinality(s) - 1 /\ Any(s) \in T
    BY <1>1, <2>5, AnyRemoved
  <2>7. it[s] = f[Any(s)] + it[t] /\ jt[s] = g[Any(s)] + jt[t]
    BY <2>4, <2>5, NextSumIs
  <2> HIDE DEF t
  <2>8. it[t] # jt[t]
    BY <2>3, <2>6, <2>7
  <2>9. Cardinality(t) \in Bad
    BY <2>6, <2>8
  <2>10. ~(b <= Cardinality(t))
    BY <1>1, <2>3, <2>6
  <2> QED BY <2>2, <2>9, <2>10
<1> QED BY <1>2

(* The order of the sum does not matter: any member may go first.          *)
LEMMA AnyGoesFirst ==
  ASSUME NEW S, IsFiniteSet(S), NEW f, \A x \in S : f[x] \in Nat, NEW it,
         ArePartialSums(it, f, S), NEW y \in S
  PROVE  it[S] = f[y] + it[S \ {y}]
<1> DEFINE Wrong(s) == \E z \in s : it[s] # f[z] + it[s \ {z}]
           Bad == {Cardinality(s) : s \in {u \in SUBSET S : Wrong(u)}}
<1>1. \A s \in SUBSET S : IsFiniteSet(s) /\ Cardinality(s) \in Nat
  BY FS_Subset, FS_CardinalityType
<1>2. \A s \in SUBSET S : it[s] \in Nat
  BY DEF ArePartialSums
<1>3. Bad = {}
  <2> SUFFICES ASSUME Bad # {} PROVE FALSE
    OBVIOUS
  <2>1. Bad \subseteq Nat
    BY <1>1
  <2>2. PICK b \in Bad : \A u \in Bad : b <= u
    <3> HIDE DEF Bad
    <3> QED BY <2>1, LeastNatural
  <2>3. PICK s \in SUBSET S : Wrong(s) /\ b = Cardinality(s)
    OBVIOUS
  <2>4. PICK z \in s : it[s] # f[z] + it[s \ {z}]
    BY <2>3
  <2> DEFINE x == Any(s)
  <2>5. s # {} /\ IsFiniteSet(s)
    BY <1>1, <2>4
  <2>6. x \in s /\ it[s] = f[x] + it[s \ {x}]
    <3>1. it[s] = NextSum(f, it, s)
      BY DEF ArePartialSums
    <3>2. NextSum(f, it, s) = f[x] + it[s \ {x}]
      BY <2>5, NextSumIs
    <3>3. x \in s
      BY <2>5, AnyRemoved
    <3> QED BY <3>1, <3>2, <3>3
  <2> HIDE DEF x
  <2>7. x # z
    BY <2>4, <2>6
  <2>8. \A w \in s : ~Wrong(s \ {w})
    <3> SUFFICES ASSUME NEW w \in s, Wrong(s \ {w}) PROVE FALSE
      OBVIOUS
    <3>1. s \ {w} \in SUBSET S /\ Cardinality(s \ {w}) = Cardinality(s) - 1
      BY <2>5, FS_RemoveElement
    <3>2. Cardinality(s \ {w}) \in Bad
      BY <3>1
    <3>3. ~(b <= Cardinality(s \ {w}))
      BY <1>1, <2>3, <3>1
    <3> QED BY <2>2, <3>2, <3>3
  <2>9. /\ it[s \ {x}] = f[z] + it[(s \ {x}) \ {z}]
        /\ it[s \ {z}] = f[x] + it[(s \ {z}) \ {x}]
    <3>1. z \in s \ {x} /\ x \in s \ {z}
      BY <2>6, <2>7
    <3> QED BY <2>6, <2>8, <3>1
  <2>10. (s \ {x}) \ {z} = (s \ {z}) \ {x}
    OBVIOUS
  <2>11. it[(s \ {z}) \ {x}] \in Nat /\ f[x] \in Nat /\ f[z] \in Nat
    BY <1>2, <2>6
  <2> DEFINE r == it[(s \ {z}) \ {x}]
  <2>12. it[s] = f[x] + (f[z] + r) /\ it[s \ {z}] = f[x] + r
    BY <2>6, <2>9, <2>10
  <2>13. it[s] # f[z] + (f[x] + r)
    BY <2>4, <2>12
  <2>14. f[z] + (f[x] + r) = f[x] + (f[z] + r)
    <3> HIDE DEF r
    <3>1. r \in Nat
      BY <2>11 DEF r
    <3> QED BY <2>11, <3>1
  <2> QED BY <2>12, <2>13, <2>14
<1> QED BY <1>3

LEMMA SumEmpty == ASSUME NEW f PROVE SumOver(f, {}) = 0
<1> DEFINE g == [x \in {} |-> f[x]]
<1>1. DOMAIN g = {} /\ SumsTo(g, {})
  BY FS_EmptySet DEF SumsTo
<1> HIDE DEF g
<1>2. ArePartialSums(PartialSums(g), g, {})
  BY <1>1, PartialSumsExist
<1>3. PartialSums(g)[{}] = 0
  BY <1>2 DEF ArePartialSums, NextSum
<1>4. SumOver(f, {}) = Total(g)
  BY DEF SumOver, g
<1> QED BY <1>1, <1>3, <1>4, TotalIsPartial

LEMMA SumRemove ==
  ASSUME NEW f, NEW S, SumsTo(f, S), NEW y \in S
  PROVE  /\ SumOver(f, S) \in Nat /\ SumOver(f, S \ {y}) \in Nat
         /\ SumOver(f, S) = f[y] + SumOver(f, S \ {y})
<1> DEFINE T == S \ {y}
           g == [x \in S |-> f[x]]
           h == [x \in T |-> f[x]]
<1>0. IsFiniteSet(S) /\ T \in SUBSET S /\ IsFiniteSet(T)
  BY FS_Subset DEF SumsTo
<1>1. DOMAIN g = S /\ DOMAIN h = T /\ SumsTo(g, S) /\ SumsTo(h, T)
  BY <1>0 DEF SumsTo
<1>2. \A x \in T : g[x] = h[x]
  OBVIOUS
<1>3. g[y] = f[y] /\ \A x \in S : g[x] \in Nat
  BY DEF SumsTo
<1>4. SumOver(f, S) = Total(g) /\ SumOver(f, S \ {y}) = Total(h)
  BY DEF SumOver
<1> HIDE DEF g, h
<1>5. ArePartialSums(PartialSums(g), g, S) /\ ArePartialSums(PartialSums(h), h, T)
  <2> HIDE DEF T
  <2> QED BY <1>1, PartialSumsExist
<1>6. Total(g) = PartialSums(g)[S] /\ Total(h) = PartialSums(h)[T]
  BY <1>1, TotalIsPartial
<1>7. PartialSums(g)[S] = g[y] + PartialSums(g)[T]
  <2> DEFINE it == PartialSums(g)
  <2>1. ArePartialSums(it, g, S) /\ \A x \in S : g[x] \in Nat
    BY <1>3, <1>5
  <2> HIDE DEF it
  <2>2. it[S] = g[y] + it[S \ {y}]
    BY <1>0, <2>1, AnyGoesFirst
  <2> QED BY <2>2 DEF it
<1>8. PartialSums(g)[T] = PartialSums(h)[T]
  <2> HIDE DEF T
  <2> QED BY <1>0, <1>2, <1>5, PartialSumsAgree
<1>9. PartialSums(g)[S] \in Nat /\ PartialSums(h)[T] \in Nat
  BY <1>5 DEF ArePartialSums
<1> QED BY <1>3, <1>4, <1>6, <1>7, <1>8, <1>9
(* A family that holds the empty set and grows member by member holds S.   *)
LEMMA GrowSet ==
  ASSUME NEW S, IsFiniteSet(S), NEW P, {} \in P,
         \A s \in SUBSET S, x \in S : s \in P /\ x \notin s => s \cup {x} \in P
  PROVE  S \in P
<1> DEFINE Bad == {Cardinality(s) : s \in {u \in SUBSET S : u \notin P}}
<1>1. \A s \in SUBSET S : IsFiniteSet(s) /\ Cardinality(s) \in Nat
  BY FS_Subset, FS_CardinalityType
<1>2. Bad = {}
  <2> SUFFICES ASSUME Bad # {} PROVE FALSE
    OBVIOUS
  <2>1. Bad \subseteq Nat
    BY <1>1
  <2>2. PICK b \in Bad : \A u \in Bad : b <= u
    <3> HIDE DEF Bad
    <3> QED BY <2>1, LeastNatural
  <2>3. PICK s \in SUBSET S : s \notin P /\ b = Cardinality(s)
    OBVIOUS
  <2>4. PICK x \in s : TRUE
    BY <2>3
  <2> DEFINE t == s \ {x}
  <2>5. t \in SUBSET S /\ x \in S /\ x \notin t /\ t \cup {x} = s
    OBVIOUS
  <2>6. Cardinality(t) = Cardinality(s) - 1
    BY <1>1, FS_RemoveElement
  <2> HIDE DEF t
  <2>7. t \notin P
    BY <2>3, <2>5
  <2>8. Cardinality(t) \in Bad
    BY <2>5, <2>7
  <2>9. ~(b <= Cardinality(t))
    BY <1>1, <2>3, <2>6
  <2> QED BY <2>2, <2>8, <2>9
<1> QED BY <1>2

LEMMA SumsToPart ==
  ASSUME NEW f, NEW S, SumsTo(f, S), NEW T \in SUBSET S
  PROVE  SumsTo(f, T)
BY FS_Subset DEF SumsTo

LEMMA SumIsNat == ASSUME NEW f, NEW S, SumsTo(f, S) PROVE SumOver(f, S) \in Nat
<1>1. CASE S = {}
  BY <1>1, SumEmpty
<1>2. CASE S # {}
  BY <1>2, SumRemove
<1> QED BY <1>1, <1>2

LEMMA SumAdd ==
  ASSUME NEW f, NEW S, NEW x, x \notin S, SumsTo(f, S \cup {x})
  PROVE  SumOver(f, S \cup {x}) = f[x] + SumOver(f, S)
<1>1. x \in S \cup {x} /\ (S \cup {x}) \ {x} = S
  OBVIOUS
<1>2. SumOver(f, S \cup {x}) = f[x] + SumOver(f, (S \cup {x}) \ {x})
  BY <1>1, SumRemove
<1> QED BY <1>1, <1>2

LEMMA SumUnion ==
  ASSUME NEW f, NEW A, NEW B, A \cap B = {}, SumsTo(f, A \cup B)
  PROVE  SumOver(f, A \cup B) = SumOver(f, A) + SumOver(f, B)
<1> DEFINE Adds(s) == SumOver(f, s \cup B) = SumOver(f, s) + SumOver(f, B)
           P == {s \in SUBSET A : Adds(s)}
<1>1. \A s \in SUBSET A : SumsTo(f, s) /\ SumsTo(f, s \cup B) /\ SumsTo(f, B)
  <2> TAKE s \in SUBSET A
  <2>1. s \in SUBSET (A \cup B) /\ s \cup B \in SUBSET (A \cup B) /\ B \in SUBSET (A \cup B)
    OBVIOUS
  <2> QED BY <2>1, SumsToPart
<1>2. {} \in P
  <2>1. {} \cup B = B /\ SumOver(f, {}) = 0
    BY SumEmpty
  <2>2. SumOver(f, B) \in Nat
    BY <1>1, SumIsNat
  <2> QED BY <2>1, <2>2
<1>3. ASSUME NEW s \in SUBSET A, NEW x \in A, s \in P, x \notin s PROVE s \cup {x} \in P
  <2> DEFINE t == s \cup {x}
             u == s \cup B
  <2>1. t \in SUBSET A /\ t \cup B = u \cup {x} /\ x \notin u
    BY <1>3
  <2>2. SumOver(f, t) = f[x] + SumOver(f, s)
    BY <1>1, <1>3, <2>1, SumAdd
  <2>3. SumOver(f, t \cup B) = f[x] + SumOver(f, u)
    <3>1. SumsTo(f, u \cup {x})
      BY <1>1, <2>1
    <3> HIDE DEF t, u
    <3> QED BY <2>1, <3>1, SumAdd
  <2>4. SumOver(f, u) = SumOver(f, s) + SumOver(f, B)
    BY <1>3
  <2>5. f[x] \in Nat /\ SumOver(f, s) \in Nat /\ SumOver(f, B) \in Nat
    BY <1>1, SumIsNat DEF SumsTo
  <2> HIDE DEF t, u
  <2>6. Adds(t)
    BY <2>2, <2>3, <2>4, <2>5
  <2>7. t \in P
    BY <2>1, <2>6
  <2> QED BY <2>7 DEF t
<1>4. IsFiniteSet(A)
  BY <1>1 DEF SumsTo
<1>5. A \in P
  <2> HIDE DEF P
  <2> QED BY <1>2, <1>3, <1>4, GrowSet
<1> QED BY <1>5

(* As many members or more, none of them smaller, make no smaller sum.     *)
LEMMA SumOfLarger ==
  ASSUME NEW f, NEW A, NEW B, SumsTo(f, A), SumsTo(f, B),
         Cardinality(A) <= Cardinality(B), \A a \in A, b \in B : f[a] <= f[b]
  PROVE  SumOver(f, A) <= SumOver(f, B)
<1> DEFINE Less(s) == \A t \in SUBSET B : Cardinality(s) <= Cardinality(t) =>
                                          SumOver(f, s) <= SumOver(f, t)
           P == {s \in SUBSET A : Less(s)}
<1>1. \A s \in SUBSET A : SumsTo(f, s) /\ Cardinality(s) \in Nat /\ SumOver(f, s) \in Nat
  BY SumsToPart, SumIsNat, FS_CardinalityType DEF SumsTo
<1>2. \A t \in SUBSET B : SumsTo(f, t) /\ Cardinality(t) \in Nat /\ SumOver(f, t) \in Nat
  BY SumsToPart, SumIsNat, FS_CardinalityType DEF SumsTo
<1>3. {} \in P
  <2>1. \A t \in SUBSET B : SumOver(f, {}) <= SumOver(f, t)
    BY <1>2, SumEmpty
  <2> QED BY <2>1
<1>4. ASSUME NEW s \in SUBSET A, NEW x \in A, s \in P, x \notin s PROVE s \cup {x} \in P
  <2> DEFINE w == s \cup {x}
  <2>1. w \in SUBSET A
    OBVIOUS
  <2>2. SumOver(f, w) = f[x] + SumOver(f, s)
    BY <1>1, <1>4, <2>1, SumAdd
  <2>3. Cardinality(w) = Cardinality(s) + 1
    BY <1>1, <1>4, FS_AddElement DEF SumsTo
  <2> HIDE DEF w
  <2>4. ASSUME NEW t \in SUBSET B, Cardinality(w) <= Cardinality(t)
        PROVE  SumOver(f, w) <= SumOver(f, t)
    <3>1. t # {}
      <4>1. Cardinality(t) # 0
        BY <1>1, <1>2, <2>3, <2>4
      <4>2. IsFiniteSet(t)
        BY <1>2 DEF SumsTo
      <4> QED BY <4>1, <4>2, FS_EmptySet
    <3>2. PICK y \in t : TRUE
      BY <3>1
    <3> DEFINE v == t \ {y}
    <3>3. v \in SUBSET B /\ SumOver(f, t) = f[y] + SumOver(f, v)
      BY <1>2, SumRemove
    <3>4. Cardinality(v) = Cardinality(t) - 1
      BY <1>2, FS_RemoveElement DEF SumsTo
    <3> HIDE DEF v
    <3>5. Cardinality(s) <= Cardinality(v)
      BY <1>1, <1>2, <2>3, <2>4, <3>4
    <3>6. SumOver(f, s) <= SumOver(f, v)
      BY <1>4, <3>3, <3>5
    <3>7. f[x] <= f[y] /\ f[x] \in Nat /\ f[y] \in Nat
      BY DEF SumsTo
    <3>8. SumOver(f, s) \in Nat /\ SumOver(f, v) \in Nat
      BY <1>1, <1>2, <3>3
    <3> QED BY <2>2, <3>3, <3>6, <3>7, <3>8
  <2>5. w \in P
    BY <2>1, <2>4
  <2> QED BY <2>5 DEF w
<1>5. A \in P
  <2>1. IsFiniteSet(A)
    BY DEF SumsTo
  <2> HIDE DEF P
  <2> QED BY <1>3, <1>4, <2>1, GrowSet
<1> QED BY <1>5

(* A set K whose members are no smaller than those outside has the largest *)
(* sum of its size.                                                        *)
LEMMA LargestSum ==
  ASSUME NEW f, NEW D, SumsTo(f, D), NEW S \in SUBSET D, NEW K \in SUBSET D,
         Cardinality(S) <= Cardinality(K), \A a \in D \ K, b \in K : f[a] <= f[b]
  PROVE  SumOver(f, D \ K) <= SumOver(f, D \ S)
<1> DEFINE both == S \cap K
           A == S \ K
           B == K \ S
           rest == D \ (S \cup K)
<1>1. /\ SumsTo(f, A) /\ SumsTo(f, B) /\ SumsTo(f, rest)
      /\ SumsTo(f, D \ K) /\ SumsTo(f, D \ S) /\ SumsTo(f, S) /\ SumsTo(f, K)
      /\ SumsTo(f, both)
  <2>1. /\ A \in SUBSET D /\ B \in SUBSET D /\ rest \in SUBSET D /\ both \in SUBSET D
        /\ D \ K \in SUBSET D /\ D \ S \in SUBSET D
    OBVIOUS
  <2> HIDE DEF A, B, rest, both
  <2> QED BY <2>1, SumsToPart
<1>2. /\ IsFiniteSet(A) /\ IsFiniteSet(B) /\ IsFiniteSet(both)
  BY <1>1 DEF SumsTo
<1>3. S = both \cup A /\ K = both \cup B /\ both \cap A = {} /\ both \cap B = {}
  OBVIOUS
<1>4. D \ K = A \cup rest /\ D \ S = B \cup rest /\ A \cap rest = {} /\ B \cap rest = {}
  OBVIOUS
<1>5. \A a \in A, b \in B : f[a] <= f[b]
  OBVIOUS
<1> HIDE DEF A, B, both, rest
<1>6. Cardinality(A) <= Cardinality(B)
  <2>1. /\ Cardinality(both \cup A) = Cardinality(both) + Cardinality(A) - Cardinality(both \cap A)
        /\ Cardinality(both \cup B) = Cardinality(both) + Cardinality(B) - Cardinality(both \cap B)
    BY <1>2, FS_Union
  <2>2. Cardinality(both \cap A) = 0 /\ Cardinality(both \cap B) = 0
    BY <1>3, FS_EmptySet
  <2>3. Cardinality(A) \in Nat /\ Cardinality(B) \in Nat /\ Cardinality(both) \in Nat
    BY <1>2, FS_CardinalityType
  <2>4. Cardinality(both \cup A) <= Cardinality(both \cup B)
    BY <1>3
  <2> QED BY <2>1, <2>2, <2>3, <2>4
<1>7. SumOver(f, A) <= SumOver(f, B)
  BY <1>1, <1>5, <1>6, SumOfLarger
<1>8. /\ SumOver(f, A \cup rest) = SumOver(f, A) + SumOver(f, rest)
      /\ SumOver(f, B \cup rest) = SumOver(f, B) + SumOver(f, rest)
  BY <1>1, <1>4, SumUnion
<1>9. SumOver(f, A) \in Nat /\ SumOver(f, B) \in Nat /\ SumOver(f, rest) \in Nat
  BY <1>1, SumIsNat
<1>10. SumOver(f, A) + SumOver(f, rest) <= SumOver(f, B) + SumOver(f, rest)
  BY <1>7, <1>9
<1>11. SumOver(f, D \ K) = SumOver(f, A \cup rest) /\ SumOver(f, D \ S) = SumOver(f, B \cup rest)
  BY <1>4, Zenon
<1> QED BY <1>8, <1>10, <1>11

-----------------------------------------------------------------------------
(* Merging: g requests are cut apart at g - 1 gaps.                        *)
LEMMA CutsCount ==
  ASSUME NEW c \in Calls, NEW g \in 1 .. NumRanges(c)
  PROVE  Cuts(c, g) \subseteq 1 .. NumRanges(c) - 1 /\ Cardinality(Cuts(c, g)) = g - 1
<1> DEFINE m == NumRanges(c)
           S == DOMAIN c.gap
           R == {p \in S \X S : \/ c.gap[p[1]] > c.gap[p[2]]
                                \/ c.gap[p[1]] = c.gap[p[2]] /\ p[1] < p[2]}
<1>1. /\ m \in Nat \ {0} /\ S = 1 .. m - 1 /\ \A i \in S : c.gap[i] \in Nat
  BY CallFacts
<1>2. IsFiniteSet(S) /\ Cardinality(S) = m - 1
  <2>1. 1 \in Int /\ m - 1 \in Int
    BY <1>1
  <2>2. IsFiniteSet(1 .. m - 1) /\ Cardinality(1 .. m - 1) = IF 1 > m - 1 THEN 0 ELSE m - 1 - 1 + 1
    BY <2>1, FS_Interval
  <2> QED BY <1>1, <2>2
<1>3. \A i, j \in S : << i, j >> \in R <=> \/ c.gap[i] > c.gap[j]
                                           \/ c.gap[i] = c.gap[j] /\ i < j
  OBVIOUS
<1> HIDE DEF R
<1>4. OrdersStrictly(R, S)
  <2> SUFFICES ASSUME NEW i \in S, NEW j \in S, NEW k \in S
               PROVE  /\ << i, i >> \notin R
                      /\ i # j => << i, j >> \in R \/ << j, i >> \in R
                      /\ << i, j >> \in R /\ << j, k >> \in R => << i, k >> \in R
    BY DEF OrdersStrictly
  <2> DEFINE gi == c.gap[i]
             gj == c.gap[j]
             gk == c.gap[k]
  <2>1. gi \in Nat /\ gj \in Nat /\ gk \in Nat /\ i \in Nat /\ j \in Nat /\ k \in Nat
    BY <1>1
  <2>2. /\ << i, i >> \in R <=> gi > gi \/ (gi = gi /\ i < i)
        /\ << i, j >> \in R <=> gi > gj \/ (gi = gj /\ i < j)
        /\ << j, i >> \in R <=> gj > gi \/ (gj = gi /\ j < i)
        /\ << j, k >> \in R <=> gj > gk \/ (gj = gk /\ j < k)
        /\ << i, k >> \in R <=> gi > gk \/ (gi = gk /\ i < k)
    BY <1>3
  <2> HIDE DEF gi, gj, gk
  <2> QED BY <2>1, <2>2
<1>5. g - 1 \in 0 .. Cardinality(S)
  BY <1>1, <1>2
<1>6. Cardinality({i \in S : Cardinality(Before(R, S, i)) < g - 1}) = g - 1
  BY <1>2, <1>4, <1>5, FirstPlaces
<1>7. \A i \in S : Before(R, S, i) = {j \in S : \/ c.gap[j] > c.gap[i]
                                                \/ c.gap[j] = c.gap[i] /\ j < i}
  BY <1>3 DEF Before
<1>8. Cuts(c, g) = {i \in S : Cardinality(Before(R, S, i)) < g - 1}
  BY <1>7 DEF Cuts
<1> QED BY <1>1, <1>6, <1>8

(* The cuts before a range number its request.                             *)
LEMMA CutsNumber ==
  ASSUME NEW m \in Nat \ {0}, NEW cuts \in SUBSET (1 .. m - 1), NEW f,
         f = [i \in 1 .. m |-> Cardinality({j \in cuts : j < i})]
  PROVE  /\ ClimbsTo(f, m) /\ f[m] = Cardinality(cuts)
         /\ \A i \in 1 .. m - 1 : f[i] # f[i + 1] <=> i \in cuts
<1> DEFINE B(i) == {j \in cuts : j < i}
<1>0. \A j \in cuts : j \in Nat /\ 1 <= j /\ j < m
  OBVIOUS
<1>1. IsFiniteSet(cuts)
  <2>1. 1 \in Int /\ m - 1 \in Int
    OBVIOUS
  <2>2. IsFiniteSet(1 .. m - 1)
    BY <2>1, FS_Interval
  <2> QED BY <2>2, FS_Subset
<1>2. \A i : IsFiniteSet(B(i)) /\ Cardinality(B(i)) \in Nat
  BY <1>1, FS_Subset, FS_CardinalityType
<1>3. \A i \in 1 .. m : f[i] = Cardinality(B(i))
  OBVIOUS
<1>4. ASSUME NEW i \in 1 .. m - 1
      PROVE  f[i + 1] = IF i \in cuts THEN f[i] + 1 ELSE f[i]
  <2>1. i \in 1 .. m /\ i + 1 \in 1 .. m /\ i \notin B(i)
    OBVIOUS
  <2>2. CASE i \in cuts
    <3>1. B(i + 1) = B(i) \cup {i}
      <4>1. \A j \in cuts : j < i + 1 <=> j < i \/ j = i
        BY <1>0
      <4> QED BY <2>2, <4>1
    <3> HIDE DEF B
    <3>2. Cardinality(B(i) \cup {i}) = Cardinality(B(i)) + 1
      BY <1>2, <2>1, FS_AddElement
    <3> QED BY <1>3, <2>1, <2>2, <3>1, <3>2
  <2>3. CASE i \notin cuts
    <3>1. B(i + 1) = B(i)
      <4>1. \A j \in cuts : j < i + 1 <=> j < i
        BY <1>0, <2>3
      <4> QED BY <4>1
    <3> HIDE DEF B
    <3> QED BY <1>3, <2>1, <2>3, <3>1
  <2> QED BY <2>2, <2>3
<1>5. f[1] = 0
  <2>1. B(1) = {}
    <3>1. \A j \in cuts : ~(j < 1)
      BY <1>0
    <3> QED BY <3>1
  <2>2. 1 \in 1 .. m
    OBVIOUS
  <2> HIDE DEF B
  <2> QED BY <1>3, <2>1, <2>2, FS_EmptySet
<1>6. f[m] = Cardinality(cuts)
  <2>1. B(m) = cuts
    BY <1>0
  <2> HIDE DEF B
  <2> QED BY <1>3, <2>1
<1>7. f \in [1 .. m -> Nat]
  BY <1>2
<1>8. \A i \in 2 .. m : f[i] \in {f[i - 1], f[i - 1] + 1}
  <2> TAKE i \in 2 .. m
  <2>1. i - 1 \in 1 .. m - 1 /\ (i - 1) + 1 = i
    OBVIOUS
  <2> QED BY <1>4, <2>1
<1>9. \A i \in 1 .. m - 1 : f[i] # f[i + 1] <=> i \in cuts
  <2> TAKE i \in 1 .. m - 1
  <2>1. f[i] \in Nat
    BY <1>7
  <2>2. f[i + 1] = IF i \in cuts THEN f[i] + 1 ELSE f[i]
    BY <1>4
  <2> HIDE DEF B
  <2> QED BY <2>1, <2>2, SMT
<1> QED BY <1>5, <1>6, <1>7, <1>8, <1>9 DEF ClimbsTo

(* The number of requests chosen is in range, and within the limit unless  *)
(* nothing is merged.                                                      *)
Fitting(c) == {g \in 1 .. NumRanges(c) : g = NumRanges(c) \/ Within(c, Cuts(c, g))}

Waves(c) == (NumRanges(c) - 1) \div c.max_req

Better(c, b, waves) ==
  LET g == waves * c.max_req
  IN  IF Within(c, Cuts(c, g)) /\ Cost(c, Cuts(c, g)) < Cost(c, Cuts(c, b)) THEN g ELSE b

LEMMA WavesInRange ==
  ASSUME NEW c \in Calls, OverBudget(c)
  PROVE  /\ NumRanges(c) \in Nat \ {0} /\ c.max_req \in Nat \ {0}
         /\ NumRanges(c) > c.max_req /\ Waves(c) \in Nat
         /\ \A waves \in 1 .. Waves(c) : waves * c.max_req \in 1 .. NumRanges(c) - 1
<1> DEFINE m == NumRanges(c)
           r == c.max_req
           n == Waves(c)
<1>1. m \in Nat \ {0} /\ r \in Nat \ {0} /\ m > r
  BY CallFacts DEF OverBudget
<1>2. n = (m - 1) \div r
  BY DEF Waves
<1> HIDE DEF m, r, n
<1>3. n \in Nat /\ n * r <= m - 1
  BY <1>1, <1>2
<1>4. ASSUME NEW waves \in 1 .. n PROVE waves * r \in 1 .. m - 1
  <2>1. waves \in Nat /\ waves <= n /\ waves >= 1
    BY <1>3
  <2>2. n - waves \in Nat /\ (n - waves) * r = n * r - waves * r
    BY <1>1, <1>3, <2>1
  <2>3. (n - waves) * r >= 0
    BY <1>1, <2>2
  <2>4. waves * r \in Nat /\ n * r \in Nat /\ (waves - 1) * r = waves * r - r
        /\ (waves - 1) * r >= 0
    BY <1>1, <1>3, <2>1
  <2> QED BY <1>1, <1>3, <2>1, <2>2, <2>3, <2>4
<1> QED BY <1>1, <1>3, <1>4 DEF m, r, n

(* The choice, candidate by candidate.                                     *)
BestOf(c, best) ==
  /\ best \in [0 .. Waves(c) -> Fitting(c)] /\ best[0] = NumRanges(c)
  /\ \A waves \in 1 .. Waves(c) : best[waves] = Better(c, best[waves - 1], waves)
  /\ BestG(c) = best[Waves(c)]

LEMMA BestUnfolds ==
  ASSUME NEW c \in Calls, OverBudget(c)
  PROVE  \E best : BestOf(c, best)
<1> DEFINE m == NumRanges(c)
           n == Waves(c)
           V == Fitting(c)
           F == [p \in (1 .. n) \X V |-> Better(c, p[2], p[1])]
           best == CHOOSE f : f = [waves \in 0 .. n |->
                     IF waves = 0 THEN m ELSE Better(c, f[waves - 1], waves)]
<1>1. m \in Nat \ {0} /\ n \in Nat
  BY WavesInRange
<1>2. m \in V
  BY <1>1 DEF Fitting
<1>3. BestG(c) = best[n]
  BY DEF BestG, Better, Waves
<1>4. ASSUME NEW b \in V, NEW waves \in 1 .. n PROVE Better(c, b, waves) \in V
  <2> DEFINE g == waves * c.max_req
  <2>1. g \in 1 .. m
    BY <1>1, WavesInRange
  <2>2. Better(c, b, waves) = b \/ (Better(c, b, waves) = g /\ Within(c, Cuts(c, g)))
    BY DEF Better
  <2> HIDE DEF g
  <2> QED BY <2>1, <2>2 DEF Fitting
<1> HIDE DEF V, n, m
<1>5. F \in [(1 .. n) \X V -> V]
  BY <1>4
<1>6. \A i \in 1 .. n, b \in V : F[<< i, b >>] = Better(c, b, i)
  OBVIOUS
<1> HIDE DEF F
<1>7. PICK f \in [0 .. n -> V] :
        f[0] = m /\ \A i \in 1 .. n : f[i] = F[<< i, f[i - 1] >>]
  <2>1. StepsIn(F, n, V)
    BY <1>5 DEF StepsIn
  <2>2. HasIterates(m, n, F, V)
    BY <1>1, <1>2, <2>1, Recursion
  <2> QED BY <2>2 DEF HasIterates, Iterates
<1>8. f = [i \in 0 .. n |-> IF i = 0 THEN m ELSE Better(c, f[i - 1], i)]
  <2>1. \A i \in 1 .. n : i - 1 \in 0 .. n /\ f[i] = Better(c, f[i - 1], i)
    <3> TAKE i \in 1 .. n
    <3>1. i - 1 \in 0 .. n /\ f[i - 1] \in V
      BY <1>1, <1>7
    <3> QED BY <1>6, <1>7, <3>1
  <2> QED BY <1>1, <1>7, <2>1
<1>9. best = [i \in 0 .. n |-> IF i = 0 THEN m ELSE Better(c, best[i - 1], i)]
  BY <1>8
<1> HIDE DEF best
<1>10. best[0] = m /\ \A i \in 1 .. n : best[i] = Better(c, best[i - 1], i)
  BY <1>1, <1>9
<1> DEFINE S == {i \in 0 .. n : best[i] \in V}
<1>11. 0 \in S
  BY <1>1, <1>2, <1>10
<1>12. ASSUME NEW i \in 1 .. n, i - 1 \in S PROVE i \in S
  BY <1>1, <1>4, <1>10, <1>12
<1>13. \A i \in 0 .. n : best[i] \in V
  <2> HIDE DEF S
  <2>1. \A i \in 0 .. n : i \in S
    BY <1>1, <1>11, <1>12, UpTo
  <2> QED BY <2>1 DEF S
<1>14. best \in [0 .. n -> V]
  <2>1. best = [i \in 0 .. n |-> best[i]]
    BY <1>9
  <2> QED BY <1>13, <2>1
<1>15. BestOf(c, best)
  BY <1>3, <1>10, <1>14 DEF BestOf, m, n, V
<1> QED BY <1>15

LEMMA BestFits ==
  ASSUME NEW c \in Calls, OverBudget(c)
  PROVE  BestG(c) \in Fitting(c)
BY BestUnfolds, WavesInRange DEF BestOf

(***************************************************************************)
(* The cuts taken are at the largest gaps: as many cuts elsewhere leave at *)
(* least as much between the ranges of a request.                          *)
(***************************************************************************)
LEMMA CutsLargest ==
  ASSUME NEW c \in Calls, NEW g \in 1 .. NumRanges(c)
  PROVE  \A a \in DOMAIN c.gap \ Cuts(c, g), b \in Cuts(c, g) : c.gap[a] <= c.gap[b]
<1> DEFINE D == DOMAIN c.gap
           First(i) == {j \in D : \/ c.gap[j] > c.gap[i]
                                  \/ c.gap[j] = c.gap[i] /\ j < i}
<1> SUFFICES ASSUME NEW a \in D \ Cuts(c, g), NEW b \in Cuts(c, g), ~(c.gap[a] <= c.gap[b])
             PROVE  FALSE
  OBVIOUS
<1>1. /\ g \in Nat /\ D = 1 .. NumRanges(c) - 1 /\ NumRanges(c) \in Nat
      /\ \A i \in D : c.gap[i] \in Nat
  BY CallFacts
<1>2. IsFiniteSet(D)
  BY <1>1, FS_Interval
<1>3. b \in D /\ Cardinality(First(b)) < g - 1 /\ ~(Cardinality(First(a)) < g - 1)
  BY DEF Cuts
<1>4. First(a) \subseteq First(b)
  <2> SUFFICES ASSUME NEW j \in First(a) PROVE j \in First(b)
    OBVIOUS
  <2>1. c.gap[j] \in Nat /\ c.gap[a] \in Nat /\ c.gap[b] \in Nat /\ c.gap[a] > c.gap[b]
    BY <1>1, <1>3
  <2>2. c.gap[j] >= c.gap[a]
    BY <2>1
  <2>3. c.gap[j] > c.gap[b]
    BY <2>1, <2>2
  <2> QED BY <2>3
<1>5. IsFiniteSet(First(a)) /\ IsFiniteSet(First(b))
  BY <1>2, FS_Subset
<1> HIDE DEF First
<1>6. Cardinality(First(a)) <= Cardinality(First(b))
  BY <1>4, <1>5, FS_Subset
<1>7. Cardinality(First(a)) \in Nat /\ Cardinality(First(b)) \in Nat
  BY <1>5, FS_CardinalityType
<1> QED BY <1>1, <1>3, <1>6, <1>7

(* The lengths have a sum, which is that of their places.                  *)
LEMMA LengthsSum ==
  ASSUME NEW c \in Calls
  PROVE  /\ SumsTo(c.len, 1 .. NumRanges(c)) /\ Total(c.len) \in Nat
         /\ Total(c.len) = SumOver(c.len, 1 .. NumRanges(c))
         /\ \A i \in 1 .. NumRanges(c) : c.len[i] \in Nat \ {0}
<1> DEFINE m == NumRanges(c)
<1>1. c.len \in Seq(Nat \ {0}) /\ Len(c.len) = m /\ m \in Nat
  BY PlanAssumption, LenProperties DEF CallType, NumRanges
<1> HIDE DEF m
<1>2. DOMAIN c.len = 1 .. m /\ \A i \in 1 .. m : c.len[i] \in Nat \ {0}
  BY <1>1, LenProperties, ElementOfSeq
<1>3. IsFiniteSet(1 .. m)
  BY <1>1, FS_Interval
<1>4. SumsTo(c.len, 1 .. m)
  BY <1>2, <1>3 DEF SumsTo
<1>5. c.len = [i \in 1 .. m |-> c.len[i]]
  BY <1>1, <1>2
<1>6. SumOver(c.len, 1 .. m) \in Nat
  BY <1>4, SumIsNat
<1>7. Total(c.len) = SumOver(c.len, 1 .. m)
  BY <1>5 DEF SumOver
<1> QED BY <1>2, <1>4, <1>6, <1>7 DEF m

LEMMA GapsSum ==
  ASSUME NEW c \in Calls
  PROVE  /\ SumsTo(c.gap, DOMAIN c.gap) /\ Cardinality(DOMAIN c.gap) = NumRanges(c) - 1
         /\ \A S \in SUBSET DOMAIN c.gap :
              /\ IsFiniteSet(S) /\ Cardinality(S) \in 0 .. NumRanges(c) - 1
              /\ Span(c, S) \in Nat
<1> DEFINE D == DOMAIN c.gap
           m == NumRanges(c)
<1>1. m \in Nat \ {0} /\ D = 1 .. m - 1 /\ \A i \in D : c.gap[i] \in Nat
  BY CallFacts
<1> HIDE DEF m
<1>2. IsFiniteSet(D) /\ Cardinality(D) = m - 1
  <2>1. 1 \in Int /\ m - 1 \in Int
    BY <1>1
  <2>2. IsFiniteSet(1 .. m - 1) /\ Cardinality(1 .. m - 1) = IF 1 > m - 1 THEN 0 ELSE m - 1 - 1 + 1
    BY <2>1, FS_Interval
  <2> QED BY <1>1, <2>2
<1>3. SumsTo(c.gap, D)
  BY <1>1, <1>2 DEF SumsTo
<1>4. Total(c.len) \in Nat
  BY LengthsSum
<1>5. ASSUME NEW S \in SUBSET D
      PROVE  IsFiniteSet(S) /\ Cardinality(S) \in 0 .. m - 1 /\ Span(c, S) \in Nat
  <2>1. IsFiniteSet(S) /\ Cardinality(S) <= Cardinality(D) /\ Cardinality(S) \in Nat
    BY <1>2, FS_Subset, FS_CardinalityType
  <2>2. SumOver(c.gap, D \ S) \in Nat
    <3>1. D \ S \in SUBSET D
      OBVIOUS
    <3> HIDE DEF D
    <3> QED BY <1>3, <3>1, SumsToPart, SumIsNat
  <2>3. Span(c, S) = Total(c.len) + SumOver(c.gap, D \ S)
    BY DEF Span, SumOver
  <2> HIDE DEF D
  <2> QED BY <1>1, <1>2, <1>4, <2>1, <2>2, <2>3
<1> QED BY <1>2, <1>3, <1>5 DEF m

LEMMA CutsSpanLess ==
  ASSUME NEW c \in Calls, NEW g \in 1 .. NumRanges(c),
         NEW S \in SUBSET DOMAIN c.gap, Cardinality(S) <= g - 1
  PROVE  Span(c, Cuts(c, g)) <= Span(c, S)
<1> DEFINE D == DOMAIN c.gap
           K == Cuts(c, g)
           len == Total(c.len)
<1>1. K \in SUBSET D /\ Cardinality(K) = g - 1
  BY CutsCount DEF Cuts
<1>2. \A a \in D \ K, b \in K : c.gap[a] <= c.gap[b]
  BY CutsLargest
<1>3. SumsTo(c.gap, D)
  BY GapsSum
<1>4. SumOver(c.gap, D \ K) <= SumOver(c.gap, D \ S)
  <2> HIDE DEF D, K
  <2>1. S \in SUBSET D
    BY DEF D
  <2>2. Cardinality(S) <= Cardinality(K)
    BY <1>1
  <2> QED BY <1>1, <1>2, <1>3, <2>1, <2>2, LargestSum
<1>5. /\ Span(c, K) = len + SumOver(c.gap, D \ K) /\ Span(c, S) = len + SumOver(c.gap, D \ S)
  BY DEF Span, SumOver
<1>6. SumOver(c.gap, D \ K) \in Nat /\ SumOver(c.gap, D \ S) \in Nat /\ len \in Nat
  <2>1. D \ K \in SUBSET D /\ D \ S \in SUBSET D /\ D \in SUBSET D
    OBVIOUS
  <2>2. SumOver(c.gap, D \ K) \in Nat /\ SumOver(c.gap, D \ S) \in Nat
    <3> HIDE DEF D, K
    <3> QED BY <1>3, <2>1, SumsToPart, SumIsNat
  <2>3. len \in Nat
    BY LengthsSum
  <2> QED BY <2>2, <2>3
<1> HIDE DEF K, D, len
<1>7. len + SumOver(c.gap, D \ K) <= len + SumOver(c.gap, D \ S)
  BY <1>4, <1>6
<1> QED BY <1>5, <1>7 DEF K

(***************************************************************************)
(* A wave is a round of max_req requests.  h requests take w waves; as     *)
(* many waves carry w * r requests, or all the ranges apart.               *)
(***************************************************************************)
LEMMA Quotient ==
  ASSUME NEW a \in Nat, NEW b \in Nat \ {0}, NEW q \in Nat, q * b <= a, a < q * b + b
  PROVE  a \div b = q
<1> DEFINE d == a \div b
<1>1. d \in Nat /\ d * b <= a /\ a < d * b + b
  OBVIOUS
<1> HIDE DEF d
<1>2. q * b \in Nat /\ d * b \in Nat
  BY <1>1
<1>3. ~(d < q)
  <2> SUFFICES ASSUME d < q PROVE FALSE
    OBVIOUS
  <2>1. q - d - 1 \in Nat
    BY <1>1
  <2>2. (q - d - 1) * b >= 0 /\ (q - d - 1) * b = q * b - d * b - b
    BY <1>1, <2>1
  <2> QED BY <1>1, <1>2, <2>2
<1>4. ~(q < d)
  <2> SUFFICES ASSUME q < d PROVE FALSE
    OBVIOUS
  <2>1. d - q - 1 \in Nat
    BY <1>1
  <2>2. (d - q - 1) * b >= 0 /\ (d - q - 1) * b = d * b - q * b - b
    BY <1>1, <2>1
  <2> QED BY <1>1, <1>2, <2>2
<1> QED BY <1>1, <1>3, <1>4 DEF d

LEMMA WavesOf ==
  ASSUME NEW m \in Nat \ {0}, NEW r \in Nat \ {0}, NEW h \in 1 .. m
  PROVE  LET w == CeilDiv(h, r)
         IN  /\ w \in Nat \ {0} /\ h <= w * r
             /\ w * r <= m - 1 => w <= (m - 1) \div r /\ CeilDiv(w * r, r) = w
             /\ ~(w * r <= m - 1) => CeilDiv(m, r) = w
<1> DEFINE w == CeilDiv(h, r)
<1>1. w = (h + r - 1) \div r
  BY DEF CeilDiv
<1> HIDE DEF w
<1>2. w \in Nat /\ w * r <= h + r - 1 /\ h + r - 1 < w * r + r /\ w * r \in Nat
  BY <1>1
<1>3. h <= w * r
  BY <1>2
<1>4. w # 0
  BY <1>3
<1>5. ASSUME w * r <= m - 1 PROVE w <= (m - 1) \div r /\ CeilDiv(w * r, r) = w
  <2> DEFINE d == (m - 1) \div r
  <2>1. d \in Nat /\ m - 1 < d * r + r /\ d * r \in Nat
    OBVIOUS
  <2> HIDE DEF d
  <2>2. ~(d < w)
    <3> SUFFICES ASSUME d < w PROVE FALSE
      OBVIOUS
    <3>1. w - d - 1 \in Nat
      BY <1>2, <2>1
    <3>2. (w - d - 1) * r >= 0 /\ (w - d - 1) * r = w * r - d * r - r
      BY <1>2, <2>1, <3>1
    <3> QED BY <1>2, <1>5, <2>1, <3>2
  <2>3. w <= d
    BY <1>2, <2>1, <2>2
  <2>4. (w * r + r - 1) \div r = w
    <3> DEFINE a == w * r + r - 1
    <3>1. a \in Nat /\ w * r <= a /\ a < w * r + r
      BY <1>2
    <3> HIDE DEF a
    <3>2. a \div r = w
      BY <1>2, <3>1, Quotient
    <3> QED BY <3>2 DEF a
  <2> QED BY <2>3, <2>4 DEF CeilDiv, d
<1>6. ASSUME ~(w * r <= m - 1) PROVE CeilDiv(m, r) = w
  <2> DEFINE a == m + r - 1
  <2>1. a \in Nat /\ w * r <= a /\ a < w * r + r
    BY <1>2, <1>6
  <2> HIDE DEF a
  <2>2. a \div r = w
    BY <1>2, <2>1, Quotient
  <2> QED BY <2>2 DEF CeilDiv, a
<1> QED BY <1>2, <1>3, <1>4, <1>5, <1>6 DEF w

(* No candidate is cheaper than the one chosen.                            *)
CostOf(c, g) == Cost(c, Cuts(c, g))

LEMMA CutsCost ==
  ASSUME NEW c \in Calls, OverBudget(c), NEW g \in 1 .. NumRanges(c)
  PROVE  /\ CostOf(c, g) \in Nat
         /\ CostOf(c, g) = CeilDiv(g, c.max_req) * c.latency + Span(c, Cuts(c, g))
<1> DEFINE K == Cuts(c, g)
           r == c.max_req
           q == CeilDiv(g, r)
           sp == Span(c, K)
<1>1. K \in SUBSET DOMAIN c.gap /\ Cardinality(K) = g - 1
  BY CutsCount DEF Cuts
<1>2. g \in Nat \ {0} /\ r \in Nat \ {0} /\ c.latency \in Nat
  BY CallFacts, WavesInRange
<1>3. sp \in Nat
  BY <1>1, GapsSum
<1>4. q \in Nat
  <2>1. q = (g + r - 1) \div r /\ g + r - 1 \in Nat
    BY <1>2 DEF CeilDiv
  <2> HIDE DEF q, r
  <2> QED BY <1>2, <2>1
<1>5. CostOf(c, g) = CeilDiv(Cardinality(K) + 1, r) * c.latency + sp
  BY DEF CostOf, Cost
<1>6. Cardinality(K) + 1 = g
  BY <1>1, <1>2
<1> HIDE DEF K, r, sp
<1>7. CostOf(c, g) = q * c.latency + sp
  BY <1>5, <1>6
<1> HIDE DEF q
<1>8. q * c.latency + sp \in Nat
  <2> DEFINE l == c.latency
  <2>1. l \in Nat
    BY <1>2
  <2> HIDE DEF l
  <2>2. q * l + sp \in Nat
    BY <1>3, <1>4, <2>1
  <2> QED BY <2>2 DEF l
<1> QED BY <1>7, <1>8 DEF q, K, r, sp

LEMMA BestIsLeast ==
  ASSUME NEW c \in Calls, OverBudget(c)
  PROVE  /\ CostOf(c, BestG(c)) <= CostOf(c, NumRanges(c))
         /\ \A waves \in 1 .. Waves(c) :
              Within(c, Cuts(c, waves * c.max_req)) =>
                CostOf(c, BestG(c)) <= CostOf(c, waves * c.max_req)
<1> DEFINE m == NumRanges(c)
           n == Waves(c)
           r == c.max_req
<1>1. PICK best : BestOf(c, best)
  BY BestUnfolds
<1>2. /\ m \in Nat \ {0} /\ n \in Nat
      /\ \A waves \in 1 .. n : waves * r \in 1 .. m
  BY WavesInRange
<1> HIDE DEF m, n, r
<1>3. /\ \A i \in 0 .. n : best[i] \in 1 .. m
      /\ best[0] = m /\ BestG(c) = best[n]
      /\ \A i \in 1 .. n : best[i] = Better(c, best[i - 1], i)
  BY <1>1 DEF BestOf, Fitting, m, n
<1>4. \A g \in 1 .. m : CostOf(c, g) \in Nat
  BY CutsCost DEF m
<1> DEFINE Least(i) == /\ CostOf(c, best[i]) <= CostOf(c, m)
                       /\ \A waves \in 1 .. i : Within(c, Cuts(c, waves * r)) =>
                            CostOf(c, best[i]) <= CostOf(c, waves * r)
           S == {i \in 0 .. n : Least(i)}
<1>5. 0 \in S
  <2>1. m \in 1 .. m
    BY <1>2
  <2>2. CostOf(c, best[0]) <= CostOf(c, m)
    BY <1>3, <1>4, <2>1
  <2> QED BY <1>2, <2>2
<1>6. ASSUME NEW i \in 1 .. n, i - 1 \in S PROVE i \in S
  <2> DEFINE b == best[i - 1]
             g == i * r
             e == best[i]
  <2>1. i - 1 \in 0 .. n /\ i \in 0 .. n
    BY <1>2
  <2>2. b \in 1 .. m /\ g \in 1 .. m /\ e \in 1 .. m
    BY <1>2, <1>3, <2>1
  <2>3. CostOf(c, b) \in Nat /\ CostOf(c, g) \in Nat /\ CostOf(c, e) \in Nat /\ CostOf(c, m) \in Nat
    BY <1>2, <1>4, <2>2
  <2>4. e = IF Within(c, Cuts(c, g)) /\ CostOf(c, g) < CostOf(c, b) THEN g ELSE b
    BY <1>3 DEF Better, CostOf, r
  <2>5. Least(i - 1)
    BY <1>6
  <2> HIDE DEF b, g, e
  <2>6. CostOf(c, e) <= CostOf(c, b) /\ (Within(c, Cuts(c, g)) => CostOf(c, e) <= CostOf(c, g))
    BY <2>3, <2>4
  <2>7. CostOf(c, e) <= CostOf(c, m)
    <3>1. CostOf(c, b) <= CostOf(c, m)
      BY <2>5 DEF b
    <3> QED BY <2>3, <2>6, <3>1
  <2>8. ASSUME NEW waves \in 1 .. i, Within(c, Cuts(c, waves * r))
        PROVE  CostOf(c, e) <= CostOf(c, waves * r)
    <3>1. CASE waves = i
      BY <2>6, <2>8, <3>1 DEF g
    <3>2. CASE waves # i
      <4>1. waves \in 1 .. i - 1 /\ waves \in 1 .. n
        BY <1>2, <3>2
      <4>2. CostOf(c, b) <= CostOf(c, waves * r)
        BY <2>5, <2>8, <4>1 DEF b
      <4>3. CostOf(c, waves * r) \in Nat
        BY <1>2, <1>4, <4>1
      <4> QED BY <2>3, <2>6, <4>2, <4>3
    <3> QED BY <3>1, <3>2
  <2>9. Least(i)
    BY <2>7, <2>8 DEF e
  <2> QED BY <2>1, <2>9
<1>7. Least(n)
  <2>1. n \in S
    <3> HIDE DEF S
    <3>1. \A i \in 0 .. n : i \in S
      BY <1>2, <1>5, <1>6, UpTo
    <3> QED BY <1>2, <3>1
  <2> QED BY <2>1
<1>8. /\ CostOf(c, BestG(c)) <= CostOf(c, m)
      /\ \A waves \in 1 .. n : Within(c, Cuts(c, waves * r)) =>
           CostOf(c, BestG(c)) <= CostOf(c, waves * r)
  <2> QED BY <1>3, <1>7
<1> QED BY <1>8 DEF m, n, r

(***************************************************************************)
(* No cuts at all are cheaper: for h requests there are as many waves of   *)
(* whole rounds, which fetch no more.                                      *)
(***************************************************************************)
LEMMA BestIsCheapest ==
  ASSUME NEW c \in Calls, OverBudget(c), NEW S \in SUBSET DOMAIN c.gap,
         S = DOMAIN c.gap \/ Within(c, S)
  PROVE  CostOf(c, BestG(c)) <= Cost(c, S)
<1> DEFINE m == NumRanges(c)
           r == c.max_req
           h == Cardinality(S) + 1
           w == CeilDiv(h, r)
           l == c.latency
           b == CostOf(c, BestG(c))
<1>1. m \in Nat \ {0} /\ r \in Nat \ {0} /\ m > r /\ l \in Nat /\ c.max_blocks \in Int
  BY WavesInRange, CallFacts
<1>2. h \in 1 .. m /\ Span(c, S) \in Nat /\ (S = DOMAIN c.gap => h = m)
  <2>1. Cardinality(S) \in 0 .. m - 1 /\ Span(c, S) \in Nat
        /\ (S = DOMAIN c.gap => Cardinality(S) = m - 1)
    BY GapsSum
  <2> HIDE DEF m
  <2> QED BY <1>1, <2>1
<1>3. /\ w \in Nat \ {0} /\ h <= w * r
      /\ w * r <= m - 1 => w <= (m - 1) \div r /\ CeilDiv(w * r, r) = w
      /\ ~(w * r <= m - 1) => CeilDiv(m, r) = w
  <2> HIDE DEF m, r, h
  <2> QED BY <1>1, <1>2, WavesOf
<1>4. Cost(c, S) = w * l + Span(c, S)
  BY DEF Cost
<1>5. /\ b <= CostOf(c, m)
      /\ \A waves \in 1 .. Waves(c) : Within(c, Cuts(c, waves * r)) => b <= CostOf(c, waves * r)
  BY BestIsLeast
<1>6. b \in Nat
  BY BestFits, CutsCost DEF Fitting
<1>7. \A g \in 1 .. m : /\ CostOf(c, g) \in Nat
                        /\ CostOf(c, g) = CeilDiv(g, r) * l + Span(c, Cuts(c, g))
                        /\ Span(c, Cuts(c, g)) \in Nat
                        /\ h <= g => Span(c, Cuts(c, g)) <= Span(c, S)
  <2> TAKE g \in 1 .. m
  <2>1. CostOf(c, g) \in Nat /\ CostOf(c, g) = CeilDiv(g, r) * l + Span(c, Cuts(c, g))
    BY CutsCost
  <2>2. Span(c, Cuts(c, g)) \in Nat
    <3>1. Cuts(c, g) \in SUBSET DOMAIN c.gap
      BY DEF Cuts
    <3> QED BY <3>1, GapsSum
  <2>3. h <= g => Cardinality(S) <= g - 1
    <3>1. Cardinality(S) \in 0 .. m - 1
      BY GapsSum
    <3> HIDE DEF m
    <3> QED BY <1>1, <3>1
  <2> QED BY <2>1, <2>2, <2>3, CutsSpanLess
<1>8. Waves(c) = (m - 1) \div r
  BY DEF Waves
<1> HIDE DEF m, r, h, w, l, b
<1>9. CASE w * r <= m - 1
  <2> DEFINE g == w * r
  <2>1. g \in 1 .. m /\ w \in 1 .. Waves(c) /\ h <= g /\ CeilDiv(g, r) = w
    <3>1. g \in Nat /\ g <= m - 1 /\ h <= g /\ h >= 1
      BY <1>1, <1>2, <1>3, <1>9
    <3>2. w <= Waves(c) /\ CeilDiv(g, r) = w
      BY <1>3, <1>8, <1>9
    <3>3. Waves(c) \in Nat
      BY <1>1, <1>8
    <3> HIDE DEF g
    <3>4. g \in 1 .. m
      BY <1>1, <1>2, <3>1
    <3>5. w \in 1 .. Waves(c)
      BY <1>3, <3>2, <3>3
    <3> QED BY <3>1, <3>2, <3>4, <3>5
  <2> HIDE DEF g
  <2>2. Span(c, Cuts(c, g)) <= Span(c, S) /\ CostOf(c, g) = w * l + Span(c, Cuts(c, g))
    BY <1>7, <2>1
  <2>3. Within(c, Cuts(c, g))
    <3>1. S # DOMAIN c.gap
      BY <1>1, <1>2, <1>9, <2>1 DEF g
    <3>2. Within(c, S)
      BY <3>1
    <3>3. Span(c, Cuts(c, g)) \in Nat
      BY <1>7, <2>1
    <3> QED BY <1>1, <1>2, <2>2, <3>2, <3>3 DEF Within
  <2>4. b <= CostOf(c, g)
    BY <1>5, <2>1, <2>3 DEF g
  <2> DEFINE x == w * l
  <2>5. x \in Nat
    BY <1>1, <1>3
  <2> HIDE DEF x
  <2>6. CostOf(c, g) = x + Span(c, Cuts(c, g)) /\ Cost(c, S) = x + Span(c, S)
    BY <1>4, <2>2 DEF x
  <2>7. Span(c, Cuts(c, g)) \in Nat /\ CostOf(c, g) \in Nat
    BY <1>7, <2>1
  <2> QED BY <1>2, <1>6, <2>2, <2>4, <2>5, <2>6, <2>7 DEF b
<1>10. CASE ~(w * r <= m - 1)
  <2>1. m \in 1 .. m /\ h <= m /\ CeilDiv(m, r) = w
    BY <1>1, <1>2, <1>3, <1>10
  <2>2. Span(c, Cuts(c, m)) <= Span(c, S) /\ CostOf(c, m) = w * l + Span(c, Cuts(c, m))
    BY <1>7, <2>1
  <2> DEFINE x == w * l
  <2>3. x \in Nat
    BY <1>1, <1>3
  <2> HIDE DEF x
  <2>4. CostOf(c, m) = x + Span(c, Cuts(c, m)) /\ Cost(c, S) = x + Span(c, S)
    BY <1>4, <2>2 DEF x
  <2>5. Span(c, Cuts(c, m)) \in Nat /\ CostOf(c, m) \in Nat
    BY <1>7, <2>1
  <2> QED BY <1>2, <1>5, <1>6, <2>2, <2>3, <2>4, <2>5 DEF b
<1> QED BY <1>9, <1>10

LEMMA MergeAssigns ==
  ASSUME NEW c \in Calls, OverBudget(c)
  PROVE  /\ AssignsAll(c, Merge(c)) /\ Merge(c).n = BestG(c)
         /\ {i \in DOMAIN c.gap : Merge(c).grp[i] # Merge(c).grp[i + 1]} = Cuts(c, BestG(c))
<1> DEFINE m == NumRanges(c)
           g == BestG(c)
           cuts == Cuts(c, g)
           p == Merge(c)
<1>1. m \in Nat \ {0} /\ DOMAIN c.gap = 1 .. m - 1
  BY CallFacts
<1>2. g \in 1 .. m
  BY BestFits DEF Fitting
<1>3. cuts \in SUBSET (1 .. m - 1) /\ Cardinality(cuts) = g - 1
  BY <1>2, CutsCount
<1>4. p.n = g /\ p.grp = [i \in 1 .. m |-> Cardinality({j \in cuts : j < i})]
  BY DEF Merge
<1> HIDE DEF m, g, cuts, p
<1>5. /\ ClimbsTo(p.grp, m) /\ p.grp[m] = Cardinality(cuts)
      /\ \A i \in 1 .. m - 1 : p.grp[i] # p.grp[i + 1] <=> i \in cuts
  BY <1>1, <1>3, <1>4, CutsNumber
<1>6. p.n = p.grp[m] + 1
  BY <1>2, <1>3, <1>4, <1>5
<1>7. AssignsAll(c, p)
  BY <1>1, <1>5, <1>6, ClimbingAssigns DEF m
<1>8. {i \in DOMAIN c.gap : p.grp[i] # p.grp[i + 1]} = cuts
  BY <1>1, <1>3, <1>5
<1> QED BY <1>4, <1>7, <1>8 DEF p, g, cuts

-----------------------------------------------------------------------------
(***************************************************************************)
(* Splitting.  R requests of at most P ranges have room for all m ranges,  *)
(* and there is a range for each.                                          *)
(***************************************************************************)
LEMMA RequestsFit ==
  ASSUME NEW c \in Calls, OverBudget(c)
  PROVE  /\ MaxParts(c) \in Nat \ {0} /\ Requests(c) \in 1 .. NumRanges(c)
         /\ NumRanges(c) <= Requests(c) * MaxParts(c)
<1> DEFINE m == NumRanges(c)
           P == MaxParts(c)
           r == c.max_req
           q == CeilDiv(m, P)
<1>1. /\ m \in Nat \ {0} /\ r \in Nat \ {0} /\ m > r
  BY CallFacts DEF OverBudget
<1>2. P \in Nat \ {0}
  <2>1. c.max_parts \in Int
    BY CallFacts
  <2> QED BY <1>1, <2>1 DEF MaxParts
<1>3. q = (m + P - 1) \div P
  BY DEF CeilDiv
<1>4. Requests(c) = IF r >= q THEN r ELSE q
  BY DEF Requests, Larger
<1> HIDE DEF m, P, r, q
<1>5. q \in Nat /\ q * P <= m + P - 1 /\ m + P - 1 < q * P + P
  BY <1>1, <1>2, <1>3
<1>6. m <= q * P
  <2>1. q * P \in Nat
    BY <1>2, <1>5
  <2> QED BY <1>1, <1>2, <1>5, <2>1
<1>7. q \in 1 .. m
  <2>1. q # 0
    BY <1>1, <1>2, <1>6
  <2>2. q <= m
    <3> SUFFICES ASSUME q > m PROVE FALSE
      BY <1>1, <1>5
    <3>1. (q - 1 - m) * P >= 0 /\ (q - 1 - m) * P = q * P - P - m * P /\ m * P >= m
      <4>1. q - 1 - m \in Nat /\ P - 1 \in Nat /\ m \in Nat /\ q \in Nat /\ P \in Nat
        BY <1>1, <1>2, <1>5
      <4>2. (q - 1 - m) * P \in Nat /\ m * (P - 1) \in Nat
        BY <4>1
      <4>3. (q - 1 - m) * P = q * P - P - m * P /\ m * (P - 1) = m * P - m
        BY <4>1
      <4> QED BY <4>1, <4>2, <4>3
    <3>2. q * P \in Nat /\ m * P \in Nat
      BY <1>1, <1>2, <1>5
    <3>3. q * P >= m * P + P /\ m * P >= m
      BY <1>1, <1>2, <3>1, <3>2
    <3>4. m * P + P <= m + P - 1
      BY <1>1, <1>2, <1>5, <3>2, <3>3
    <3> QED BY <1>1, <1>2, <3>2, <3>3, <3>4
  <2> QED BY <1>1, <1>5, <2>1, <2>2
<1>8. r * P >= q * P \/ r < q
  <2> SUFFICES ASSUME r >= q PROVE r * P >= q * P
    BY <1>1, <1>5
  <2>1. r - q \in Nat
    BY <1>1, <1>5
  <2>2. (r - q) * P \in Nat /\ (r - q) * P = r * P - q * P
    BY <1>1, <1>2, <1>5, <2>1
  <2>3. r * P \in Nat /\ q * P \in Nat
    BY <1>1, <1>2, <1>5
  <2> QED BY <2>2, <2>3
<1>9. CASE r >= q
  <2>1. r * P \in Nat /\ q * P \in Nat /\ r * P >= q * P
    BY <1>1, <1>2, <1>5, <1>8, <1>9
  <2>2. m <= r * P
    BY <1>1, <1>6, <2>1
  <2> QED BY <1>1, <1>2, <1>4, <1>9, <2>2 DEF m, P
<1>10. CASE ~(r >= q)
  BY <1>1, <1>2, <1>4, <1>6, <1>7, <1>10 DEF m, P
<1> QED BY <1>9, <1>10

(* When the loop closes a request, and when it does not.                   *)
LEMMA CloseWhen ==
  ASSUME NEW c, NEW at
  PROVE  /\ Close(c, at) =>
              /\ at.cnt > 0
              /\ \/ at.cnt >= MaxParts(c)
                 \/ /\ at.k < Requests(c) - 1
                    /\ \/ at.m <= (Requests(c) - 1 - at.k) * MaxParts(c)
                       \/ at.m <= Requests(c) - 1 - at.k
         /\ ~Close(c, at) /\ at.cnt > 0 =>
              /\ ~(at.cnt >= MaxParts(c))
              /\ at.k < Requests(c) - 1 => ~(at.m <= Requests(c) - 1 - at.k)
BY DEF Close, RestFits

(***************************************************************************)
(* The loop's invariant after i ranges: the current request has room, the  *)
(* ranges left fit into it and the requests to come, and there are enough  *)
(* left to use each of those.                                              *)
(***************************************************************************)
LoopState == [k : Nat, cnt : Nat, acc : Nat, m : Int, grp : Seq(Nat)]

InGroup(grp, i, k) == {j \in 1 .. i : grp[j] = k}

RoomLeft(m, R, P, at, i) ==
  /\ at.m = m - i /\ at.k <= R - 1 /\ at.cnt <= P
  /\ at.m <= (R - 1 - at.k) * P + (P - at.cnt)
  /\ i = 0 => at.k = 0 /\ at.cnt = 0
  /\ i > 0 => at.cnt > 0 /\ at.m >= R - 1 - at.k

Grouped(P, at, i) ==
  /\ Len(at.grp) = i
  /\ i > 0 => at.grp[1] = 0 /\ at.grp[i] = at.k
  /\ \A j \in 2 .. i : at.grp[j] \in {at.grp[j - 1], at.grp[j - 1] + 1}
  /\ \A j \in 1 .. i : at.grp[j] <= at.k
  /\ Cardinality(InGroup(at.grp, i, at.k)) = at.cnt
  /\ \A k \in Nat : Cardinality(InGroup(at.grp, i, k)) <= P

LEMMA RoomKept ==
  ASSUME NEW m \in Nat, NEW R \in 1 .. m, NEW P \in Nat \ {0}, NEW i \in 1 .. m,
         NEW at \in LoopState, NEW next \in LoopState, NEW closes \in BOOLEAN,
         RoomLeft(m, R, P, at, i - 1),
         closes => /\ at.cnt > 0
                   /\ \/ at.cnt >= P
                      \/ at.k < R - 1 /\ (at.m <= (R - 1 - at.k) * P \/ at.m <= R - 1 - at.k),
         ~closes /\ at.cnt > 0 => ~(at.cnt >= P) /\ (at.k < R - 1 => ~(at.m <= R - 1 - at.k)),
         next.k = IF closes THEN at.k + 1 ELSE at.k,
         next.cnt = IF closes THEN 1 ELSE at.cnt + 1,
         next.m = at.m - 1
  PROVE  RoomLeft(m, R, P, next, i)
<1> DEFINE left == R - 1 - at.k
           room == left * P
<1>1. /\ at.k \in Nat /\ at.cnt \in Nat /\ at.m \in Int /\ R \in Nat /\ left \in Int
      /\ at.m = m - (i - 1) /\ at.k <= R - 1 /\ at.cnt <= P
      /\ at.m <= room + (P - at.cnt)
      /\ i - 1 = 0 => at.k = 0 /\ at.cnt = 0
      /\ i - 1 > 0 => at.cnt > 0 /\ at.m >= left
  BY DEF RoomLeft, LoopState
<1>2. left \in Nat /\ room \in Nat
  BY <1>1
<1>3. next.m = m - i
  BY <1>1
<1>4. CASE closes
  <2>1. at.m >= 1 /\ i - 1 > 0
    BY <1>1, <1>4
  <2>2. at.m <= room
    <3>1. CASE at.cnt >= P
      BY <1>1, <1>2, <3>1
    <3>2. CASE at.m <= room
      BY <3>2
    <3>3. CASE at.m <= left
      <4>1. left * (P - 1) \in Nat /\ left * (P - 1) = room - left
        BY <1>2
      <4> QED BY <1>1, <1>2, <3>3, <4>1
    <3> QED BY <1>4, <3>1, <3>2, <3>3
  <2>3. left # 0
    BY <1>1, <1>2, <2>1, <2>2
  <2>4. (left - 1) * P = room - P
    BY <1>2
  <2>5. /\ next.k = at.k + 1 /\ next.cnt = 1 /\ R - 1 - next.k = left - 1
    BY <1>1, <1>4
  <2>6. (R - 1 - next.k) * P = room - P
    BY <2>4, <2>5
  <2> HIDE DEF room
  <2> QED BY <1>1, <1>2, <1>3, <2>1, <2>2, <2>3, <2>5, <2>6 DEF RoomLeft
<1>5. CASE ~closes
  <2>1. next.k = at.k /\ next.cnt = at.cnt + 1 /\ (R - 1 - next.k) * P = room
    BY <1>5
  <2>2. at.cnt + 1 <= P
    BY <1>1, <1>5
  <2>3. at.m - 1 >= left
    <3>1. CASE at.cnt = 0
      BY <1>1, <3>1
    <3>2. CASE at.cnt > 0
      BY <1>1, <1>2, <1>5, <3>2
    <3> QED BY <1>1, <3>1, <3>2
  <2> HIDE DEF room
  <2> QED BY <1>1, <1>2, <1>3, <2>1, <2>2, <2>3 DEF RoomLeft
<1> QED BY <1>4, <1>5

LEMMA GroupKept ==
  ASSUME NEW P \in Nat \ {0}, NEW i \in Nat \ {0},
         NEW at \in LoopState, NEW next \in LoopState, NEW closes \in BOOLEAN,
         Grouped(P, at, i - 1), i - 1 = 0 => at.k = 0 /\ ~closes,
         next.k = IF closes THEN at.k + 1 ELSE at.k,
         next.cnt = IF closes THEN 1 ELSE at.cnt + 1,
         next.cnt <= P,
         next.grp = Append(at.grp, next.k)
  PROVE  Grouped(P, next, i)
<1> DEFINE g == at.grp
           h == next.grp
           K == next.k
           old == at.k
           In(q) == InGroup(g, i - 1, q)
<1>1. /\ g \in Seq(Nat) /\ K \in Nat /\ old \in Nat /\ at.cnt \in Nat /\ next.cnt \in Nat
      /\ h = Append(g, K)
  BY DEF LoopState
<1>2. /\ Len(g) = i - 1 /\ i - 1 \in Nat
      /\ i - 1 > 0 => g[1] = 0 /\ g[i - 1] = old
      /\ \A j \in 2 .. i - 1 : g[j] \in {g[j - 1], g[j - 1] + 1}
      /\ \A j \in 1 .. i - 1 : g[j] <= old
      /\ Cardinality(In(old)) = at.cnt
      /\ \A q \in Nat : Cardinality(In(q)) <= P
  <2>1. i - 1 \in Nat
    OBVIOUS
  <2> HIDE DEF g, h, K, old
  <2> QED BY <2>1 DEF Grouped, g, old, In
<1>3. K = IF closes THEN old + 1 ELSE old
  OBVIOUS
<1>4. /\ \A j \in 1 .. i - 1 : g[j] \in Nat
      /\ Len(h) = i /\ h[i] = K /\ \A j \in 1 .. i - 1 : h[j] = g[j]
  <2>1. Len(h) = Len(g) + 1 /\ h[Len(g) + 1] = K /\ \A j \in 1 .. Len(g) : h[j] = g[j]
    BY <1>1, AppendProperties
  <2>2. \A j \in 1 .. Len(g) : g[j] \in Nat
    BY <1>1, ElementOfSeq
  <2> HIDE DEF g, h, K
  <2> QED BY <1>2, <2>1, <2>2
<1> HIDE DEF g, h, K, old
<1>5. \A q : IsFiniteSet(In(q)) /\ i \notin In(q)
  <2> TAKE q
  <2>1. In(q) \subseteq 1 .. i - 1
    BY DEF InGroup
  <2>2. IsFiniteSet(1 .. i - 1)
    BY <1>2, FS_Interval
  <2> QED BY <2>1, <2>2, FS_Subset
<1>6. \A q : InGroup(h, i, q) = IF q = K THEN In(q) \cup {i} ELSE In(q)
  <2> TAKE q
  <2>1. \A j \in 1 .. i : j = i \/ j \in 1 .. i - 1
    OBVIOUS
  <2> QED BY <1>4, <2>1 DEF InGroup
<1>7. Cardinality(InGroup(h, i, K)) = next.cnt
  <2>1. Cardinality(InGroup(h, i, K)) = Cardinality(In(K)) + 1
    <3> HIDE DEF In
    <3> QED BY <1>5, <1>6, FS_AddElement
  <2>2. CASE closes
    <3>1. In(K) = {}
      <4>1. \A j \in 1 .. i - 1 : g[j] # K
        BY <1>1, <1>2, <1>3, <1>4, <2>2
      <4> QED BY <4>1 DEF InGroup
    <3>2. Cardinality(In(K)) = 0
      BY <3>1, FS_EmptySet
    <3>3. next.cnt = 1
      BY <2>2
    <3> HIDE DEF In
    <3> QED BY <2>1, <3>2, <3>3
  <2>3. CASE ~closes
    BY <1>2, <1>3, <2>1, <2>3
  <2> QED BY <2>2, <2>3
<1>8. \A q \in Nat : Cardinality(InGroup(h, i, q)) <= P
  BY <1>2, <1>6, <1>7
<1>9. \A j \in 2 .. i : h[j] \in {h[j - 1], h[j - 1] + 1}
  <2> TAKE j \in 2 .. i
  <2>1. CASE j = i
    <3>1. i - 1 \in 1 .. i - 1 /\ h[i - 1] = old
      BY <1>2, <1>4, <2>1
    <3> QED BY <1>3, <1>4, <2>1, <3>1
  <2>2. CASE j # i
    <3>1. j \in 2 .. i - 1 /\ j - 1 \in 1 .. i - 1 /\ j \in 1 .. i - 1
      BY <2>2
    <3> QED BY <1>2, <1>4, <3>1
  <2> QED BY <2>1, <2>2
<1>10. \A j \in 1 .. i : h[j] <= K
  <2> TAKE j \in 1 .. i
  <2>1. CASE j = i
    BY <1>1, <1>4, <2>1
  <2>2. CASE j # i
    <3>1. j \in 1 .. i - 1 /\ h[j] = g[j] /\ g[j] <= old /\ g[j] \in Nat
      BY <1>2, <1>4, <2>2
    <3>2. old <= K
      BY <1>1, <1>3
    <3> QED BY <1>1, <3>1, <3>2
  <2> QED BY <2>1, <2>2
<1>11. h[1] = 0
  <2>1. CASE i = 1
    <3>1. K = 0
      BY <1>3, <2>1 DEF old
    <3> QED BY <1>4, <2>1, <3>1
  <2>2. CASE i # 1
    <3>1. i - 1 > 0 /\ 1 \in 1 .. i - 1
      BY <2>2
    <3> QED BY <1>2, <1>4, <3>1
  <2> QED BY <2>1, <2>2
<1>12. /\ Len(next.grp) = i
       /\ i > 0 => next.grp[1] = 0 /\ next.grp[i] = next.k
       /\ \A j \in 2 .. i : next.grp[j] \in {next.grp[j - 1], next.grp[j - 1] + 1}
       /\ \A j \in 1 .. i : next.grp[j] <= next.k
       /\ Cardinality(InGroup(next.grp, i, next.k)) = next.cnt
       /\ \A k \in Nat : Cardinality(InGroup(next.grp, i, k)) <= P
  BY <1>4, <1>7, <1>8, <1>9, <1>10, <1>11 DEF h, K
<1> QED BY <1>12 DEF Grouped

FirstState(m) == [k |-> 0, cnt |-> 0, acc |-> 0, m |-> m, grp |-> << >>]

LoopInv(c, i, at) ==
  /\ at \in LoopState
  /\ RoomLeft(NumRanges(c), Requests(c), MaxParts(c), at, i)
  /\ Grouped(MaxParts(c), at, i)

LEMMA StateStays ==
  ASSUME NEW c \in Calls, NEW i \in 1 .. NumRanges(c), NEW at \in LoopState
  PROVE  /\ AfterRange(c, at, i) \in LoopState
         /\ AfterRange(c, at, i).k = IF Close(c, at) THEN at.k + 1 ELSE at.k
         /\ AfterRange(c, at, i).cnt = IF Close(c, at) THEN 1 ELSE at.cnt + 1
         /\ AfterRange(c, at, i).m = at.m - 1
         /\ AfterRange(c, at, i).grp = Append(at.grp, AfterRange(c, at, i).k)
<1> DEFINE K == IF Close(c, at) THEN at.k + 1 ELSE at.k
           C == IF Close(c, at) THEN 1 ELSE at.cnt + 1
           A == at.acc + c.len[i]
           G == Append(at.grp, K)
           n == AfterRange(c, at, i)
<1>1. at.k \in Nat /\ at.cnt \in Nat /\ at.acc \in Nat /\ at.m \in Int /\ at.grp \in Seq(Nat)
  BY DEF LoopState
<1>2. c.len[i] \in Nat
  BY CallFacts
<1>3. K \in Nat /\ C \in Nat /\ A \in Nat /\ at.m - 1 \in Int
  <2>1. A \in Nat /\ at.m - 1 \in Int
    BY <1>1, <1>2
  <2>2. K \in {at.k + 1, at.k} /\ C \in {1, at.cnt + 1}
    BY Zenon
  <2>3. at.k + 1 \in Nat /\ at.cnt + 1 \in Nat
    BY <1>1
  <2> QED BY <1>1, <2>1, <2>2, <2>3
<1>4. n = [k |-> K, cnt |-> C, acc |-> A, m |-> at.m - 1, grp |-> G]
  BY DEF AfterRange
<1>5. G \in Seq(Nat)
  <2> HIDE DEF K
  <2> QED BY <1>1, <1>3, AppendProperties
<1> HIDE DEF K, C, A, G, n
<1>6. n \in LoopState /\ n.k = K /\ n.cnt = C /\ n.m = at.m - 1 /\ n.grp = G
  BY <1>3, <1>4, <1>5 DEF LoopState
<1> QED BY <1>6 DEF K, C, G, n

LEMMA LoopStep ==
  ASSUME NEW c \in Calls, OverBudget(c), NEW i \in 1 .. NumRanges(c), NEW at,
         LoopInv(c, i - 1, at)
  PROVE  LoopInv(c, i, AfterRange(c, at, i))
<1> DEFINE m == NumRanges(c)
           R == Requests(c)
           P == MaxParts(c)
           next == AfterRange(c, at, i)
           closes == Close(c, at)
<1>1. m \in Nat /\ R \in 1 .. m /\ P \in Nat \ {0} /\ i \in 1 .. m
  BY CallFacts, RequestsFit
<1>2. at \in LoopState /\ RoomLeft(m, R, P, at, i - 1) /\ Grouped(P, at, i - 1)
  BY DEF LoopInv
<1>3. closes \in BOOLEAN
  BY DEF Close
<1>4. /\ next \in LoopState
      /\ next.k = IF closes THEN at.k + 1 ELSE at.k
      /\ next.cnt = IF closes THEN 1 ELSE at.cnt + 1
      /\ next.m = at.m - 1
      /\ next.grp = Append(at.grp, next.k)
  BY <1>2, StateStays
<1>5. /\ closes =>
           /\ at.cnt > 0
           /\ \/ at.cnt >= P
              \/ at.k < R - 1 /\ (at.m <= (R - 1 - at.k) * P \/ at.m <= R - 1 - at.k)
      /\ ~closes /\ at.cnt > 0 => ~(at.cnt >= P) /\ (at.k < R - 1 => ~(at.m <= R - 1 - at.k))
  BY CloseWhen
<1> HIDE DEF m, R, P, next, closes
<1>6. RoomLeft(m, R, P, next, i)
  BY <1>1, <1>2, <1>3, <1>4, <1>5, RoomKept
<1>7. next.cnt <= P
  BY <1>6 DEF RoomLeft
<1>8. i - 1 = 0 => at.k = 0 /\ at.cnt = 0
  BY <1>2 DEF RoomLeft
<1>9. i - 1 = 0 => at.k = 0 /\ ~closes
  BY <1>5, <1>8
<1>10. i \in Nat \ {0}
  BY <1>1
<1>11. Grouped(P, next, i)
  BY <1>1, <1>2, <1>3, <1>4, <1>7, <1>9, <1>10, GroupKept
<1> QED BY <1>4, <1>6, <1>11 DEF LoopInv, m, R, P, next

LEMMA LoopStarts ==
  ASSUME NEW c \in Calls, OverBudget(c) PROVE LoopInv(c, 0, FirstState(NumRanges(c)))
<1> DEFINE m == NumRanges(c)
           R == Requests(c)
           P == MaxParts(c)
           at == FirstState(m)
<1>1. m \in Nat /\ R \in 1 .. m /\ P \in Nat \ {0} /\ m <= R * P
  BY CallFacts, RequestsFit
<1> HIDE DEF m, R, P
<1>2. << >> \in Seq(Nat) /\ Len(<< >>) = 0
  BY EmptySeq
<1>3. /\ at \in LoopState /\ at.k = 0 /\ at.cnt = 0 /\ at.m = m /\ at.grp = << >>
  BY <1>1, <1>2 DEF FirstState, LoopState
<1> HIDE DEF at
<1>4. RoomLeft(m, R, P, at, 0)
  <2>1. (R - 1) * P = R * P - P /\ R * P \in Nat
    BY <1>1
  <2>2. (R - 1 - at.k) * P + (P - at.cnt) = R * P
    BY <1>1, <1>3, <2>1
  <2> QED BY <1>1, <1>3, <2>2 DEF RoomLeft
<1>5. Grouped(P, at, 0)
  <2>1. \A k : InGroup(at.grp, 0, k) = {}
    BY DEF InGroup
  <2>2. \A k : Cardinality(InGroup(at.grp, 0, k)) = 0
    BY <2>1, FS_EmptySet
  <2> QED BY <1>1, <1>2, <1>3, <2>2 DEF Grouped
<1> QED BY <1>3, <1>4, <1>5 DEF LoopInv, m, R, P, at

(* The split, range by range.                                              *)
SplitOf(c, after) ==
  /\ after[0] = FirstState(NumRanges(c))
  /\ \A i \in 1 .. NumRanges(c) : after[i] = AfterRange(c, after[i - 1], i)
  /\ Split(c) = [n |-> after[NumRanges(c)].k + 1, grp |-> after[NumRanges(c)].grp]

LEMMA SplitUnfolds ==
  ASSUME NEW c \in Calls, OverBudget(c)
  PROVE  \E after : SplitOf(c, after) /\ \A i \in 0 .. NumRanges(c) : LoopInv(c, i, after[i])
<1> DEFINE m == NumRanges(c)
           first == FirstState(m)
           V == LoopState
           F == [p \in (1 .. m) \X V |-> AfterRange(c, p[2], p[1])]
           after == CHOOSE f : f = [i \in 0 .. m |->
                      IF i = 0 THEN [k |-> 0, cnt |-> 0, acc |-> 0, m |-> m, grp |-> << >>]
                      ELSE AfterRange(c, f[i - 1], i)]
<1>1. m \in Nat \ {0}
  BY CallFacts
<1>2. LoopInv(c, 0, first)
  BY LoopStarts
<1>3. first \in V
  BY <1>2 DEF LoopInv
<1>4. ASSUME NEW i \in 1 .. m, NEW at \in V PROVE AfterRange(c, at, i) \in V
  BY StateStays
<1>5. Split(c) = [n |-> after[m].k + 1, grp |-> after[m].grp]
  BY DEF Split
<1> HIDE DEF V, m
<1>6. F \in [(1 .. m) \X V -> V]
  BY <1>4
<1>7. \A i \in 1 .. m, at \in V : F[<< i, at >>] = AfterRange(c, at, i)
  OBVIOUS
<1> HIDE DEF F, first
<1>8. PICK f \in [0 .. m -> V] :
        f[0] = first /\ \A i \in 1 .. m : f[i] = F[<< i, f[i - 1] >>]
  <2>1. StepsIn(F, m, V)
    BY <1>6 DEF StepsIn
  <2>2. m \in Nat
    BY <1>1
  <2>3. HasIterates(first, m, F, V)
    BY <1>3, <2>1, <2>2, Recursion
  <2> QED BY <2>3 DEF HasIterates, Iterates
<1>9. f = [i \in 0 .. m |->
             IF i = 0 THEN [k |-> 0, cnt |-> 0, acc |-> 0, m |-> m, grp |-> << >>]
             ELSE AfterRange(c, f[i - 1], i)]
  <2>1. \A i \in 1 .. m : i - 1 \in 0 .. m /\ f[i] = AfterRange(c, f[i - 1], i)
    <3> TAKE i \in 1 .. m
    <3>1. i - 1 \in 0 .. m /\ f[i - 1] \in V
      BY <1>1, <1>8
    <3> QED BY <1>7, <1>8, <3>1
  <2>2. f[0] = [k |-> 0, cnt |-> 0, acc |-> 0, m |-> m, grp |-> << >>]
    BY <1>8 DEF first, FirstState
  <2> QED BY <1>1, <1>8, <2>1, <2>2
<1>10. after = [i \in 0 .. m |->
             IF i = 0 THEN [k |-> 0, cnt |-> 0, acc |-> 0, m |-> m, grp |-> << >>]
             ELSE AfterRange(c, after[i - 1], i)]
  BY <1>9
<1> HIDE DEF after
<1>11. after[0] = first /\ \A i \in 1 .. m : after[i] = AfterRange(c, after[i - 1], i)
  BY <1>1, <1>10 DEF first, FirstState
<1> DEFINE S == {i \in 0 .. m : LoopInv(c, i, after[i])}
<1>12. 0 \in S
  BY <1>1, <1>2, <1>11
<1>13. ASSUME NEW i \in 1 .. m, i - 1 \in S PROVE i \in S
  <2>1. LoopInv(c, i - 1, after[i - 1])
    BY <1>13
  <2>2. LoopInv(c, i, AfterRange(c, after[i - 1], i))
    BY <2>1, LoopStep DEF m
  <2> QED BY <1>1, <1>11, <2>2
<1>14. \A i \in 0 .. m : LoopInv(c, i, after[i])
  <2> HIDE DEF S
  <2>1. m \in Nat
    BY <1>1
  <2>2. \A i \in 0 .. m : i \in S
    BY <2>1, <1>12, <1>13, UpTo
  <2> QED BY <2>2 DEF S
<1>15. SplitOf(c, after)
  BY <1>5, <1>11 DEF SplitOf, m, first
<1> QED BY <1>14, <1>15 DEF m

LEMMA SplitFits ==
  ASSUME NEW c \in Calls, OverBudget(c)
  PROVE  /\ AssignsAll(c, Split(c)) /\ Split(c).n = Requests(c)
         /\ \A k \in Nat :
              Cardinality({i \in DOMAIN Split(c).grp : Split(c).grp[i] = k}) <= MaxParts(c)
<1> DEFINE m == NumRanges(c)
<1>1. m \in Nat \ {0}
  BY CallFacts
<1>2. PICK after : SplitOf(c, after) /\ \A i \in 0 .. m : LoopInv(c, i, after[i])
  BY SplitUnfolds
<1> DEFINE at == after[m]
<1> HIDE DEF m
<1>3. /\ at \in LoopState /\ RoomLeft(m, Requests(c), MaxParts(c), at, m)
      /\ Grouped(MaxParts(c), at, m)
  BY <1>1, <1>2 DEF LoopInv, m
<1>4. Split(c).n = at.k + 1 /\ Split(c).grp = at.grp
  BY <1>2 DEF SplitOf, m
<1> HIDE DEF at
<1>5. at.k + 1 = Requests(c)
  <2>1. at.k \in Nat /\ at.m \in Int /\ Requests(c) \in Nat
    BY <1>3, RequestsFit DEF LoopState, m
  <2> QED BY <1>1, <1>3, <2>1 DEF RoomLeft
<1>6. /\ at.grp \in Seq(Nat) /\ Len(at.grp) = m /\ at.grp[1] = 0 /\ at.grp[m] = at.k
      /\ \A i \in 2 .. m : at.grp[i] \in {at.grp[i - 1], at.grp[i - 1] + 1}
      /\ \A k \in Nat : Cardinality(InGroup(at.grp, m, k)) <= MaxParts(c)
  BY <1>1, <1>3 DEF Grouped, LoopState
<1>7. at.grp \in [1 .. m -> Nat]
  BY <1>6, LenProperties
<1>8. ClimbsTo(Split(c).grp, m) /\ Split(c).n = Split(c).grp[m] + 1
  BY <1>4, <1>6, <1>7 DEF ClimbsTo
<1>9. AssignsAll(c, Split(c))
  BY <1>1, <1>8, ClimbingAssigns DEF m
<1>10. \A k \in Nat :
         Cardinality({i \in DOMAIN Split(c).grp : Split(c).grp[i] = k}) <= MaxParts(c)
  BY <1>4, <1>6, <1>7 DEF InGroup
<1> QED BY <1>4, <1>5, <1>9, <1>10

-----------------------------------------------------------------------------
(***************************************************************************)
(* Equal shares.  A request is the run of ranges a .. b, light when all of *)
(* it but its last range is less than an equal share.  Either the requests *)
(* before the current one hold their shares, or the ranges left are as few *)
(* as the requests, and each gets one.                                     *)
(***************************************************************************)
Light(c, at, i, k, a, b) ==
  /\ a \in 1 .. i /\ b \in a .. i /\ InGroup(at.grp, i, k) = a .. b
  /\ SumOver(c.len, a .. b - 1) * Requests(c) < Total(c.len)

Shared(c, at, i) ==
  /\ at.acc = SumOver(c.len, 1 .. i) /\ at.cnt <= i
  /\ i > 0 => Light(c, at, i, at.k, i - at.cnt + 1, i)
  /\ \A k \in 0 .. at.k - 1 : \E a, b \in 1 .. i : Light(c, at, i, k, a, b)
  /\ \/ SumOver(c.len, 1 .. i - at.cnt) * Requests(c) >= Total(c.len) * at.k
     \/ at.cnt = 1 /\ at.m <= Requests(c) - 1 - at.k

LEMMA RunSum ==
  ASSUME NEW c \in Calls, NEW a \in 1 .. NumRanges(c), NEW b \in a .. NumRanges(c)
  PROVE  /\ SumOver(c.len, a .. b) = SumOver(c.len, a .. b - 1) + c.len[b]
         /\ SumOver(c.len, a .. b - 1) \in Nat /\ c.len[b] \in Nat \ {0}
<1> DEFINE m == NumRanges(c)
           S == a .. b - 1
<1>1. m \in Nat /\ SumsTo(c.len, 1 .. m) /\ \A i \in 1 .. m : c.len[i] \in Nat \ {0}
  BY CallFacts, LengthsSum
<1> HIDE DEF m
<1>2. a \in Nat /\ b \in Nat /\ 1 <= a /\ a <= b /\ b <= m
  BY <1>1 DEF m
<1>3. S \cup {b} = a .. b /\ b \notin S /\ a .. b \in SUBSET (1 .. m) /\ S \in SUBSET (1 .. m)
      /\ b \in 1 .. m
  BY <1>1, <1>2
<1> HIDE DEF S
<1>4. SumsTo(c.len, S) /\ SumsTo(c.len, S \cup {b})
  BY <1>1, <1>3, SumsToPart
<1>5. SumOver(c.len, S \cup {b}) = c.len[b] + SumOver(c.len, S)
  BY <1>3, <1>4, SumAdd
<1>6. SumOver(c.len, S) \in Nat /\ c.len[b] \in Nat \ {0}
  BY <1>1, <1>3, <1>4, SumIsNat
<1> DEFINE W == a .. b
<1>7. S \cup {b} = W
  BY <1>3
<1> HIDE DEF W
<1>8. SumOver(c.len, W) = SumOver(c.len, S) + c.len[b]
  <2> DEFINE x == SumOver(c.len, S)
             y == c.len[b]
  <2>1. SumOver(c.len, W) = y + x
    BY <1>5, <1>7, Zenon
  <2>2. x \in Nat /\ y \in Nat
    BY <1>6
  <2> HIDE DEF x, y
  <2>3. y + x = x + y
    BY <2>2
  <2>4. SumOver(c.len, W) = x + y
    BY <2>1, <2>3
  <2> QED BY <2>4 DEF x, y
<1> QED BY <1>6, <1>8 DEF S, W

(* The sum up to i is that up to a, and the rest.                          *)
LEMMA RunsAdd ==
  ASSUME NEW c \in Calls, NEW i \in 0 .. NumRanges(c), NEW a \in 0 .. i
  PROVE  /\ SumOver(c.len, 1 .. i) = SumOver(c.len, 1 .. a) + SumOver(c.len, a + 1 .. i)
         /\ SumOver(c.len, 1 .. i) \in Nat /\ SumOver(c.len, 1 .. a) \in Nat
         /\ SumOver(c.len, a + 1 .. i) \in Nat
         /\ SumOver(c.len, 1 .. i) <= Total(c.len)
         /\ i < NumRanges(c) => SumOver(c.len, 1 .. i) < Total(c.len)
<1> DEFINE m == NumRanges(c)
           A == 1 .. a
           B == a + 1 .. i
           I == 1 .. i
           J == i + 1 .. m
<1>1. /\ m \in Nat /\ SumsTo(c.len, 1 .. m) /\ \A j \in 1 .. m : c.len[j] \in Nat \ {0}
      /\ Total(c.len) = SumOver(c.len, 1 .. m)
  BY CallFacts, LengthsSum
<1> HIDE DEF m
<1>2. i \in Nat /\ a \in Nat /\ a <= i /\ i <= m
  BY <1>1 DEF m
<1>3. /\ A \cup B = I /\ A \cap B = {} /\ I \cup J = 1 .. m /\ I \cap J = {}
      /\ A \in SUBSET (1 .. m) /\ B \in SUBSET (1 .. m)
      /\ I \in SUBSET (1 .. m) /\ J \in SUBSET (1 .. m) /\ (i < m => i + 1 \in J)
  BY <1>1, <1>2
<1> HIDE DEF A, B, I, J
<1>4. /\ SumsTo(c.len, A) /\ SumsTo(c.len, B) /\ SumsTo(c.len, I) /\ SumsTo(c.len, J)
  BY <1>1, <1>3, SumsToPart
<1>5. /\ SumOver(c.len, A) \in Nat /\ SumOver(c.len, B) \in Nat
      /\ SumOver(c.len, I) \in Nat /\ SumOver(c.len, J) \in Nat
  BY <1>4, SumIsNat
<1>6. SumOver(c.len, A \cup B) = SumOver(c.len, A) + SumOver(c.len, B)
  BY <1>3, <1>4, SumUnion
<1>7. SumOver(c.len, I \cup J) = SumOver(c.len, I) + SumOver(c.len, J)
  <2>1. SumsTo(c.len, I \cup J)
    BY <1>1, <1>3
  <2> QED BY <1>3, <2>1, SumUnion
<1>8. i < m => SumOver(c.len, J) >= 1
  <2> SUFFICES ASSUME i < m PROVE SumOver(c.len, J) >= 1
    OBVIOUS
  <2>1. i + 1 \in J
    BY <1>3
  <2>2. /\ SumOver(c.len, J) = c.len[i + 1] + SumOver(c.len, J \ {i + 1})
        /\ SumOver(c.len, J \ {i + 1}) \in Nat
    BY <1>4, <2>1, SumRemove
  <2>3. c.len[i + 1] \in Nat \ {0}
    BY <1>1, <1>3, <2>1
  <2> QED BY <2>2, <2>3
<1>9. Total(c.len) = SumOver(c.len, I) + SumOver(c.len, J)
  BY <1>1, <1>3, <1>7
<1>10. SumOver(c.len, I) = SumOver(c.len, A) + SumOver(c.len, B)
  BY <1>3, <1>6
<1>11. /\ SumOver(c.len, I) <= Total(c.len)
       /\ i < m => SumOver(c.len, I) < Total(c.len)
  BY <1>5, <1>8, <1>9
<1> QED BY <1>5, <1>10, <1>11 DEF A, B, I, m

LEMMA LessThanShare ==
  ASSUME NEW start \in Nat, NEW part \in Nat, NEW T \in Nat, NEW R \in Nat, NEW k \in Nat,
         start * R >= T * k, (start + part) * R < T * (k + 1)
  PROVE  part * R < T
<1>1. (start + part) * R = start * R + part * R /\ T * (k + 1) = T * k + T
  OBVIOUS
<1>2. start * R \in Nat /\ part * R \in Nat /\ T * k \in Nat
  OBVIOUS
<1> QED BY <1>1, <1>2

LEMMA GroupAppended ==
  ASSUME NEW g \in Seq(Nat), NEW K \in Nat, NEW i \in Nat \ {0}, Len(g) = i - 1, NEW q
  PROVE  InGroup(Append(g, K), i, q) =
           IF q = K THEN InGroup(g, i - 1, q) \cup {i} ELSE InGroup(g, i - 1, q)
<1> DEFINE h == Append(g, K)
<1>1. h[i] = K /\ \A j \in 1 .. i - 1 : h[j] = g[j]
  <2>1. Len(h) = Len(g) + 1 /\ h[Len(g) + 1] = K /\ \A j \in 1 .. Len(g) : h[j] = g[j]
    BY AppendProperties
  <2> HIDE DEF h
  <2> QED BY <2>1
<1> HIDE DEF h
<1>2. \A j : j \in 1 .. i <=> j = i \/ j \in 1 .. i - 1
  OBVIOUS
<1>3. InGroup(h, i, q) = IF q = K THEN InGroup(g, i - 1, q) \cup {i} ELSE InGroup(g, i - 1, q)
  BY <1>1, <1>2 DEF InGroup
<1> QED BY <1>3 DEF h

LEMMA SharesStart ==
  ASSUME NEW c \in Calls, OverBudget(c) PROVE Shared(c, FirstState(NumRanges(c)), 0)
<1> DEFINE at == FirstState(NumRanges(c))
<1>1. at.k = 0 /\ at.cnt = 0 /\ at.acc = 0
  BY DEF FirstState
<1> HIDE DEF at
<1>2. SumOver(c.len, 1 .. 0) = 0
  <2>1. 1 .. 0 = {}
    OBVIOUS
  <2> QED BY <2>1, SumEmpty
<1>3. Requests(c) \in Nat /\ Total(c.len) \in Nat
  <2>1. NumRanges(c) \in Nat /\ Requests(c) \in 1 .. NumRanges(c)
    BY CallFacts, RequestsFit
  <2> QED BY <2>1, LengthsSum
<1>4. SumOver(c.len, 1 .. 0 - at.cnt) * Requests(c) >= Total(c.len) * at.k
  <2>1. 0 * Requests(c) = 0 /\ Total(c.len) * 0 = 0 /\ 0 - 0 = 0
    BY <1>3
  <2> QED BY <1>1, <1>2, <2>1
<1>5. 0 .. at.k - 1 = {}
  BY <1>1
<1>6. at.acc = SumOver(c.len, 1 .. 0) /\ at.cnt <= 0
  BY <1>1, <1>2
<1>7. Shared(c, at, 0)
  BY <1>4, <1>5, <1>6 DEF Shared
<1> QED BY <1>7 DEF at

(* What a light request was stays so.                                      *)
LEMMA LightStays ==
  ASSUME NEW c, NEW at, NEW next, NEW i \in Nat \ {0}, NEW k, NEW a, NEW b,
         Light(c, at, i - 1, k, a, b), InGroup(next.grp, i, k) = InGroup(at.grp, i - 1, k)
  PROVE  Light(c, next, i, k, a, b) /\ a \in 1 .. i /\ b \in 1 .. i
<1>1. a \in 1 .. i - 1 /\ b \in a .. i - 1
  BY DEF Light
<1>2. a \in 1 .. i /\ b \in a .. i /\ b \in 1 .. i
  BY <1>1
<1> QED BY <1>2 DEF Light

LEMMA SharesKept ==
  ASSUME NEW c \in Calls, OverBudget(c), MaxParts(c) >= NumRanges(c),
         NEW i \in 1 .. NumRanges(c), NEW at, LoopInv(c, i - 1, at), Shared(c, at, i - 1)
  PROVE  Shared(c, AfterRange(c, at, i), i)
<1> DEFINE m == NumRanges(c)
           R == Requests(c)
           P == MaxParts(c)
           T == Total(c.len)
           next == AfterRange(c, at, i)
           closes == Close(c, at)
           Sum(j) == SumOver(c.len, 1 .. j)
<1>1. m \in Nat /\ R \in Nat \ {0} /\ P \in Nat \ {0} /\ i \in Nat \ {0} /\ i <= m /\ P >= m
      /\ T \in Nat \ {0}
  <2>1. m \in Nat \ {0} /\ R \in 1 .. m /\ P \in Nat \ {0}
    BY CallFacts, RequestsFit
  <2>2. T \in Nat
    BY LengthsSum
  <2>3. 0 < T
    <3>1. 0 \in 0 .. m /\ 0 \in 0 .. 0 /\ 0 < m
      BY <2>1
    <3>2. SumOver(c.len, 1 .. 0) \in Nat /\ SumOver(c.len, 1 .. 0) < T
      BY <3>1, RunsAdd
    <3> QED BY <2>2, <3>2
  <2> HIDE DEF m, R, P, T
  <2>4. i \in 1 .. m /\ P >= m
    BY DEF m, P
  <2> QED BY <2>1, <2>2, <2>3, <2>4
<1>2. at \in LoopState /\ RoomLeft(m, R, P, at, i - 1) /\ Grouped(P, at, i - 1)
  BY DEF LoopInv
<1>3. /\ at.k \in Nat /\ at.cnt \in Nat /\ at.acc \in Nat /\ at.m \in Int /\ at.grp \in Seq(Nat)
  BY <1>2 DEF LoopState
<1>4. /\ at.m = m - (i - 1) /\ at.k <= R - 1
      /\ i - 1 = 0 => at.k = 0 /\ at.cnt = 0
      /\ i - 1 > 0 => at.cnt > 0
      /\ Len(at.grp) = i - 1
      /\ \A j \in 1 .. i - 1 : at.grp[j] <= at.k
  BY <1>2 DEF RoomLeft, Grouped
<1>15. at.k <= R - 1 /\ at.m = m - (i - 1)
  BY <1>4
<1>5. /\ next.k = IF closes THEN at.k + 1 ELSE at.k
      /\ next.cnt = IF closes THEN 1 ELSE at.cnt + 1
      /\ next.m = at.m - 1
      /\ next.grp = Append(at.grp, next.k)
  BY <1>2, StateStays
<1>6. next.acc = at.acc + c.len[i]
  BY DEF AfterRange
<1>7. /\ at.acc = Sum(i - 1) /\ at.cnt <= i - 1
      /\ i - 1 > 0 => Light(c, at, i - 1, at.k, (i - 1) - at.cnt + 1, i - 1)
      /\ \A k \in 0 .. at.k - 1 : \E a, b \in 1 .. i - 1 : Light(c, at, i - 1, k, a, b)
      /\ \/ Sum((i - 1) - at.cnt) * R >= T * at.k
         \/ at.cnt = 1 /\ at.m <= R - 1 - at.k
  BY DEF Shared
<1>8. /\ closes => /\ at.cnt > 0
                   /\ \/ at.cnt >= P
                      \/ /\ at.k < R - 1
                         /\ at.acc * R >= T * (at.k + 1) \/ at.m <= R - 1 - at.k
      /\ ~closes /\ at.cnt > 0 /\ at.k < R - 1 =>
           /\ ~(at.acc * R >= T * (at.k + 1) /\ at.m <= (R - 1 - at.k) * P)
           /\ ~(at.m <= R - 1 - at.k)
  BY DEF Close, HasShare, RestFits
<1>9. next.acc = Sum(i) /\ Sum(i - 1) \in Nat /\ Sum(i) \in Nat /\ c.len[i] \in Nat \ {0}
  <2>1. 1 \in 1 .. m /\ i \in 1 .. m
    BY <1>1
  <2>2. Sum(i) = Sum(i - 1) + c.len[i] /\ Sum(i - 1) \in Nat /\ c.len[i] \in Nat \ {0}
    BY <2>1, RunSum
  <2> QED BY <1>6, <1>7, <2>2
<1>10. next.k \in Nat
  BY <1>3, <1>5
<1>11. \A q : InGroup(next.grp, i, q) =
          IF q = next.k THEN InGroup(at.grp, i - 1, q) \cup {i} ELSE InGroup(at.grp, i - 1, q)
  <2> TAKE q
  <2> DEFINE g == at.grp
             K == next.k
  <2>1. g \in Seq(Nat) /\ K \in Nat /\ i \in Nat \ {0} /\ Len(g) = i - 1
        /\ next.grp = Append(g, K)
    BY <1>1, <1>3, <1>4, <1>5, <1>10
  <2> HIDE DEF g, K, next
  <2>2. InGroup(Append(g, K), i, q) =
          IF q = K THEN InGroup(g, i - 1, q) \cup {i} ELSE InGroup(g, i - 1, q)
    BY <2>1, GroupAppended
  <2> QED BY <2>1, <2>2 DEF g, K
<1>12. at.cnt < P
  BY <1>1, <1>3, <1>7
<1> HIDE DEF m, R, P, T, next, closes, Sum
<1>13. CASE closes
  <2>1. /\ at.cnt > 0 /\ i - 1 > 0 /\ next.k = at.k + 1 /\ next.cnt = 1
    BY <1>1, <1>3, <1>4, <1>5, <1>8, <1>13
  <2>2. Light(c, next, i, next.k, i - next.cnt + 1, i)
    <3>1. InGroup(at.grp, i - 1, next.k) = {}
      <4>1. \A j \in 1 .. i - 1 : at.grp[j] # next.k
        <5> TAKE j \in 1 .. i - 1
        <5>1. at.grp[j] \in Nat /\ at.grp[j] <= at.k
          BY <1>3, <1>4, ElementOfSeq
        <5> QED BY <1>3, <2>1, <5>1
      <4> QED BY <4>1 DEF InGroup
    <3>2. InGroup(next.grp, i, next.k) = {i}
      BY <1>11, <3>1
    <3>3. i - next.cnt + 1 = i /\ i .. i = {i} /\ i .. i - 1 = {} /\ i \in 1 .. i /\ i \in i .. i
      BY <1>1, <2>1
    <3>4. SumOver(c.len, i .. i - 1) * R < T
      <4>1. SumOver(c.len, i .. i - 1) = 0
        BY <3>3, SumEmpty
      <4>2. 0 * R = 0
        BY <1>1
      <4> QED BY <1>1, <4>1, <4>2
    <3> QED BY <3>2, <3>3, <3>4 DEF Light, R, T
  <2>3. ASSUME NEW k \in 0 .. next.k - 1
        PROVE  \E a, b \in 1 .. i : Light(c, next, i, k, a, b)
    <3>1. InGroup(next.grp, i, k) = InGroup(at.grp, i - 1, k)
      <4>1. k # next.k
        BY <1>10
      <4> QED BY <1>11, <4>1
    <3>2. PICK a, b : Light(c, at, i - 1, k, a, b)
      <4>1. CASE k = at.k
        BY <1>7, <2>1, <4>1
      <4>2. CASE k # at.k
        <5>1. k \in 0 .. at.k - 1
          BY <1>3, <2>1, <4>2
        <5> QED BY <1>7, <5>1
      <4> QED BY <4>1, <4>2
    <3>3. Light(c, next, i, k, a, b) /\ a \in 1 .. i /\ b \in 1 .. i
      BY <1>1, <3>1, <3>2, LightStays
    <3> QED BY <3>3
  <2>4. \/ Sum(i - next.cnt) * R >= T * next.k
        \/ next.cnt = 1 /\ next.m <= R - 1 - next.k
    <3>1. at.acc * R >= T * (at.k + 1) \/ at.m <= R - 1 - at.k
      <4>1. ~(at.cnt >= P)
        BY <1>1, <1>3, <1>12
      <4> QED BY <1>8, <1>13, <4>1
    <3>2. CASE at.acc * R >= T * (at.k + 1)
      <4>1. i - next.cnt = i - 1
        BY <2>1
      <4> QED BY <1>7, <2>1, <3>2, <4>1
    <3>3. CASE at.m <= R - 1 - at.k
      <4>1. at.m - 1 <= R - 1 - (at.k + 1)
        BY <1>1, <1>3, <3>3
      <4> QED BY <1>5, <2>1, <4>1
    <3> QED BY <3>1, <3>2, <3>3
  <2>5. next.cnt <= i
    BY <1>1, <2>1
  <2>6. Shared(c, next, i)
    BY <1>9, <2>2, <2>3, <2>4, <2>5 DEF Shared, Sum, R, T
  <2> QED BY <2>6 DEF next
<1>14. CASE ~closes
  <2>1. next.k = at.k /\ next.cnt = at.cnt + 1 /\ i - next.cnt = (i - 1) - at.cnt
    BY <1>1, <1>3, <1>5, <1>14
  <2> DEFINE a == i - next.cnt + 1
             before == (i - 1) - at.cnt
  <2>2. /\ a \in 1 .. i /\ a = before + 1 /\ before \in 0 .. i - 1 /\ i - 1 \in 0 .. m
    BY <1>1, <1>3, <1>7, <2>1
  <2>3. InGroup(next.grp, i, next.k) = a .. i
    <3>1. InGroup(at.grp, i - 1, at.k) = a .. i - 1
      <4>1. CASE i - 1 > 0
        <5>1. a = (i - 1) - at.cnt + 1
          BY <2>2
        <5> HIDE DEF a
        <5> QED BY <1>7, <4>1, <5>1 DEF Light
      <4>2. CASE ~(i - 1 > 0)
        <5>1. 1 .. i - 1 = {} /\ a .. i - 1 = {}
          BY <1>1, <2>2, <4>2
        <5> QED BY <5>1 DEF InGroup
      <4> QED BY <4>1, <4>2
    <3>2. (a .. i - 1) \cup {i} = a .. i
      BY <1>1, <2>2
    <3> HIDE DEF a
    <3> QED BY <1>11, <2>1, <3>1, <3>2
  <2>4. /\ Sum(i - 1) = Sum(before) + SumOver(c.len, a .. i - 1)
        /\ Sum(before) \in Nat /\ SumOver(c.len, a .. i - 1) \in Nat /\ Sum(i - 1) < T
    <3>1. i - 1 < m
      BY <1>1
    <3> HIDE DEF a, before
    <3> QED BY <2>2, <3>1, RunsAdd DEF Sum, m, T
  <2> HIDE DEF a, before
  <2>5. SumOver(c.len, a .. i - 1) * R < T
    <3>1. CASE i - 1 = 0
      <4>1. a .. i - 1 = {}
        BY <1>1, <2>2, <3>1
      <4>2. SumOver(c.len, a .. i - 1) = 0
        BY <4>1, SumEmpty
      <4>3. 0 * R = 0
        BY <1>1
      <4> QED BY <1>1, <4>2, <4>3
    <3>2. CASE i - 1 # 0
      <4>1. at.cnt > 0
        BY <1>1, <1>4, <3>2
      <4>2. ~(at.m <= R - 1 - at.k)
        <5>1. CASE at.k < R - 1
          BY <1>8, <1>14, <4>1, <5>1
        <5>2. CASE ~(at.k < R - 1)
          BY <1>1, <1>3, <1>4, <5>2
        <5> QED BY <5>1, <5>2
      <4>3. Sum(before) * R >= T * at.k
        BY <1>7, <4>2 DEF before
      <4>4. at.acc * R < T * (at.k + 1)
        <5>1. at.acc * R \in Nat /\ T * (at.k + 1) \in Nat
          BY <1>1, <1>3
        <5>2. CASE at.k < R - 1
          <6>1. at.m <= (R - 1 - at.k) * P
            <7> DEFINE left == R - 1 - at.k
            <7>1. left \in Nat \ {0} /\ at.m <= P
              BY <1>1, <1>3, <1>4, <5>2
            <7> HIDE DEF left
            <7>2. (left - 1) * P \in Nat /\ (left - 1) * P = left * P - P /\ left * P \in Nat
              BY <1>1, <7>1
            <7>3. at.m <= left * P
              BY <1>1, <1>3, <7>1, <7>2
            <7> QED BY <7>3 DEF left
          <6>2. ~(at.acc * R >= T * (at.k + 1))
            BY <1>8, <1>14, <4>1, <5>2, <6>1
          <6> QED BY <5>1, <6>2
        <5>3. CASE ~(at.k < R - 1)
          <6>1. at.k + 1 = R
            BY <1>1, <1>3, <1>15, <5>3
          <6>2. at.acc < T
            BY <1>7, <2>4
          <6> DEFINE acc == at.acc
          <6>3. acc \in Nat /\ acc < T
            BY <1>3, <6>2
          <6> HIDE DEF acc
          <6>4. acc * R < T * R
            <7>1. T - acc - 1 \in Nat
              BY <1>1, <6>3
            <7>2. (T - acc - 1) * R \in Nat /\ (T - acc - 1) * R = T * R - acc * R - R
              BY <1>1, <6>3, <7>1
            <7>3. T * R \in Nat /\ acc * R \in Nat
              BY <1>1, <6>3
            <7> QED BY <1>1, <7>2, <7>3
          <6> QED BY <6>1, <6>4 DEF acc
        <5> QED BY <5>2, <5>3
      <4> DEFINE start == Sum(before)
                 part == SumOver(c.len, a .. i - 1)
      <4>5. start \in Nat /\ part \in Nat /\ start * R >= T * at.k
            /\ (start + part) * R < T * (at.k + 1)
        BY <1>7, <2>4, <4>3, <4>4
      <4> HIDE DEF start, part
      <4>6. T \in Nat /\ R \in Nat /\ at.k \in Nat
        BY <1>1, <1>3
      <4>7. part * R < T
        BY <4>5, <4>6, LessThanShare
      <4> QED BY <4>7 DEF part
    <3> QED BY <3>1, <3>2
  <2>6. Light(c, next, i, next.k, i - next.cnt + 1, i)
    <3>1. i \in a .. i
      BY <1>1, <2>2
    <3>2. Light(c, next, i, next.k, a, i)
      BY <2>2, <2>3, <2>5, <3>1 DEF Light, R, T
    <3> QED BY <3>2 DEF a
  <2>7. ASSUME NEW k \in 0 .. next.k - 1
        PROVE  \E x, y \in 1 .. i : Light(c, next, i, k, x, y)
    <3>1. InGroup(next.grp, i, k) = InGroup(at.grp, i - 1, k)
      <4>1. k # next.k
        BY <1>10
      <4> QED BY <1>11, <4>1
    <3>2. PICK x, y : Light(c, at, i - 1, k, x, y)
      BY <1>7, <2>1
    <3>3. Light(c, next, i, k, x, y) /\ x \in 1 .. i /\ y \in 1 .. i
      BY <1>1, <3>1, <3>2, LightStays
    <3> QED BY <3>3
  <2>8. \/ Sum(i - next.cnt) * R >= T * next.k
        \/ at.cnt = 1 /\ at.m <= R - 1 - at.k
    <3>1. CASE Sum((i - 1) - at.cnt) * R >= T * at.k
      BY <2>1, <3>1
    <3>2. CASE at.cnt = 1 /\ at.m <= R - 1 - at.k
      BY <1>4, <3>2
    <3> QED BY <1>7, <3>1, <3>2
  <2>9. Sum(i - next.cnt) * R >= T * next.k
    <3> SUFFICES ASSUME at.cnt = 1, at.m <= R - 1 - at.k PROVE FALSE
      BY <2>8
    <3>1. at.k < R - 1
      BY <1>1, <1>3, <1>4
    <3> QED BY <1>8, <1>14, <3>1
  <2>10. next.cnt <= i
    BY <1>1, <1>3, <1>7, <2>1
  <2>11. Shared(c, next, i)
    BY <1>9, <2>6, <2>7, <2>9, <2>10 DEF Shared, Sum, R, T
  <2> QED BY <2>11 DEF next
<1> QED BY <1>13, <1>14

LEMMA SplitShares ==
  ASSUME NEW c \in Calls, OverBudget(c), MaxParts(c) >= NumRanges(c),
         NEW k \in 0 .. Split(c).n - 1
  PROVE  \E a, b \in 1 .. NumRanges(c) :
           /\ a <= b /\ {i \in DOMAIN Split(c).grp : Split(c).grp[i] = k} = a .. b
           /\ SumOver(c.len, a .. b - 1) * Split(c).n < Total(c.len)
<1> DEFINE m == NumRanges(c)
<1>1. m \in Nat \ {0}
  BY CallFacts
<1>2. PICK after : SplitOf(c, after) /\ \A i \in 0 .. m : LoopInv(c, i, after[i])
  BY SplitUnfolds
<1> DEFINE S == {i \in 0 .. m : Shared(c, after[i], i)}
<1> HIDE DEF m
<1>3. after[0] = FirstState(m) /\ \A i \in 1 .. m : after[i] = AfterRange(c, after[i - 1], i)
  BY <1>2 DEF SplitOf, m
<1>4. 0 \in S
  BY <1>1, <1>3, SharesStart DEF m
<1>5. ASSUME NEW i \in 1 .. m, i - 1 \in S PROVE i \in S
  <2>1. i - 1 \in 0 .. m /\ Shared(c, after[i - 1], i - 1)
    BY <1>5
  <2>2. LoopInv(c, i - 1, after[i - 1])
    BY <1>2, <2>1
  <2>3. Shared(c, AfterRange(c, after[i - 1], i), i)
    BY <2>1, <2>2, SharesKept DEF m
  <2> QED BY <1>1, <1>3, <2>3
<1>6. Shared(c, after[m], m)
  <2> HIDE DEF S
  <2>1. m \in Nat /\ m \in 0 .. m
    BY <1>1
  <2>2. \A i \in 0 .. m : i \in S
    BY <2>1, <1>4, <1>5, UpTo
  <2> QED BY <2>1, <2>2 DEF S
<1> DEFINE at == after[m]
<1>7. Split(c).n = at.k + 1 /\ Split(c).grp = at.grp
  BY <1>2 DEF SplitOf, m
<1>8. at.k \in Nat /\ DOMAIN at.grp = 1 .. m
  <2>1. LoopInv(c, m, at)
    BY <1>1, <1>2
  <2>2. at.k \in Nat /\ at.grp \in Seq(Nat) /\ Len(at.grp) = m
    BY <2>1 DEF LoopInv, LoopState, Grouped
  <2> QED BY <2>2, LenProperties
<1> HIDE DEF at, S
<1>9. Shared(c, at, m) /\ m > 0
  BY <1>1, <1>6 DEF at
<1>10. PICK a, b : Light(c, at, m, k, a, b)
  <2>1. CASE k = at.k
    BY <1>9, <2>1 DEF Shared
  <2>2. CASE k # at.k
    <3>1. k \in 0 .. at.k - 1
      BY <1>7, <1>8, <2>2
    <3> QED BY <1>9, <3>1 DEF Shared
  <2> QED BY <2>1, <2>2
<1>11. /\ a \in 1 .. m /\ b \in a .. m /\ InGroup(at.grp, m, k) = a .. b
       /\ SumOver(c.len, a .. b - 1) * Requests(c) < Total(c.len)
  BY <1>10 DEF Light
<1>12. a \in 1 .. m /\ b \in 1 .. m /\ a <= b
  BY <1>1, <1>11
<1>13. {i \in DOMAIN Split(c).grp : Split(c).grp[i] = k} = a .. b
  BY <1>7, <1>8, <1>11 DEF InGroup
<1>14. Split(c).n = Requests(c)
  BY SplitFits
<1> QED BY <1>11, <1>12, <1>13, <1>14 DEF m

-----------------------------------------------------------------------------
(* A plan, once made, is the plan of its call.                             *)
PlanInv == call \in Calls /\ plan \in {NoPlan, PlanOf(call)}

LEMMA PlanInvHolds == PlanSpec => []PlanInv
<1>1. PlanInit => PlanInv
  BY DEF PlanInit, PlanInv
<1>2. PlanInv /\ [MakePlan]_vars => PlanInv'
  BY DEF PlanInv, MakePlan, vars, PlanOf, Merge, Split, Separate
<1> QED BY <1>1, <1>2, PTL DEF PlanSpec

LEMMA PlanGives ==
  PlanInv => Assigned /\ MergeWithinLimit /\ PartsFit /\ Cheapest /\ SharesSimilar
<1> SUFFICES ASSUME PlanInv, Planned
             PROVE  Assigned /\ MergeWithinLimit /\ PartsFit /\ Cheapest /\ SharesSimilar
  BY DEF Assigned, MergeWithinLimit, PartsFit, Cheapest, SharesSimilar, Planned, NoPlan
<1>1. call \in Calls /\ plan = PlanOf(call)
  BY DEF PlanInv, Planned
<1>2. ~OverBudget(call) => plan = Separate(call)
  BY <1>1, CallFacts DEF PlanOf, OverBudget
<1>3. OverBudget(call) /\ call.multipart => plan = Split(call)
  BY <1>1, CallFacts DEF PlanOf, OverBudget
<1>4. OverBudget(call) /\ ~call.multipart => plan = Separate(call) \/ plan = Merge(call)
  BY <1>1, CallFacts DEF PlanOf, OverBudget
<1>5. AssignsAll(call, plan)
  BY <1>1, <1>2, <1>3, <1>4, SeparateAssigns, MergeAssigns, SplitFits
<1>6. Assigned
  BY <1>5 DEF Assigned, AssignsAll
<1>7. MergeWithinLimit
  <2> SUFFICES ASSUME ~call.multipart, call.max_blocks > 0, plan.n < NumRanges(call)
               PROVE  Span(call, CutsOf(plan)) <= call.max_blocks
    BY DEF MergeWithinLimit
  <2>1. Separate(call).n = NumRanges(call) /\ NumRanges(call) \in Nat
    BY <1>1, CallFacts DEF Separate
  <2>2. plan # Separate(call)
    BY <2>1
  <2>3. OverBudget(call) /\ plan = Merge(call)
    BY <1>2, <1>4, <2>2
  <2>4. plan.n = BestG(call) /\ CutsOf(plan) = Cuts(call, BestG(call))
    BY <1>1, <2>3, MergeAssigns DEF CutsOf
  <2>5. BestG(call) # NumRanges(call)
    BY <2>1, <2>4
  <2>6. Within(call, Cuts(call, BestG(call)))
    BY <1>1, <2>3, <2>5, BestFits DEF Fitting
  <2> QED BY <2>4, <2>6 DEF Within
<1>8. PartsFit
  <2> SUFFICES ASSUME Over, call.multipart
               PROVE  /\ plan.n = Requests(call)
                      /\ \A k \in 0 .. plan.n - 1 : Cardinality(InRequest(k)) <= MaxParts(call)
    BY DEF PartsFit
  <2>1. OverBudget(call) /\ plan = Split(call)
    BY <1>3 DEF Over, OverBudget
  <2> QED BY <1>1, <2>1, SplitFits DEF InRequest
<1>9. Cheapest
  <2> SUFFICES ASSUME Over, ~call.multipart, ~call.oom,
                      NEW S \in SUBSET DOMAIN call.gap,
                      S = DOMAIN call.gap \/ Within(call, S)
               PROVE  Cost(call, CutsOf(plan)) <= Cost(call, S)
    BY DEF Cheapest
  <2>1. OverBudget(call) /\ plan = Merge(call)
    <3>1. OverBudget(call) /\ call.max_req \in Int /\ NumRanges(call) \in Nat
      BY <1>1, CallFacts DEF Over, OverBudget
    <3>2. ~(call.max_req <= 0) /\ ~(NumRanges(call) <= call.max_req)
      BY <3>1 DEF OverBudget
    <3>3. PlanOf(call) = Merge(call)
      BY <3>2 DEF PlanOf
    <3> QED BY <1>1, <3>1, <3>3
  <2>2. CutsOf(plan) = Cuts(call, BestG(call))
    BY <1>1, <2>1, MergeAssigns DEF CutsOf
  <2>3. CostOf(call, BestG(call)) <= Cost(call, S)
    BY <1>1, <2>1, BestIsCheapest
  <2> QED BY <2>2, <2>3 DEF CostOf
<1>10. SharesSimilar
  <2> SUFFICES ASSUME Over, call.multipart, MaxParts(call) >= NumRanges(call),
                      NEW k \in 0 .. plan.n - 1
               PROVE  LET R    == InRequest(k)
                          last == CHOOSE i \in R : \A j \in R : j <= i
                          size == Total([i \in R |-> call.len[i]])
                      IN  (size - call.len[last]) * plan.n < Total(call.len)
    BY DEF SharesSimilar
  <2> DEFINE R == InRequest(k)
             last == CHOOSE i \in R : \A j \in R : j <= i
  <2>1. OverBudget(call) /\ plan = Split(call)
    BY <1>3 DEF Over, OverBudget
  <2>2. PICK a, b \in 1 .. NumRanges(call) :
          /\ a <= b /\ R = a .. b
          /\ SumOver(call.len, a .. b - 1) * Split(call).n < Total(call.len)
    BY <1>1, <2>1, SplitShares DEF InRequest
  <2>3. last = b
    <3>1. a \in Nat /\ b \in Nat /\ b \in R /\ \A j \in R : j <= b
      BY <1>1, <2>2, CallFacts
    <3>2. last \in R /\ \A j \in R : j <= last
      BY <3>1
    <3>3. last \in Nat
      BY <2>2, <3>2
    <3> HIDE DEF last
    <3> QED BY <3>1, <3>2, <3>3
  <2>4. Total([i \in R |-> call.len[i]]) = SumOver(call.len, R)
    BY DEF SumOver
  <2>5. /\ SumOver(call.len, R) = SumOver(call.len, a .. b - 1) + call.len[b]
        /\ SumOver(call.len, a .. b - 1) \in Nat /\ call.len[b] \in Nat
    BY <1>1, <2>2, RunSum
  <2>6. SumOver(call.len, R) - call.len[b] = SumOver(call.len, a .. b - 1)
    BY <2>5
  <2> HIDE DEF R, last
  <2> QED BY <2>1, <2>2, <2>3, <2>4, <2>6 DEF R, last
<1> QED BY <1>6, <1>7, <1>8, <1>9, <1>10

(* Every range has its request, and every request its run of ranges.       *)
THEOREM PlanAssigned == PlanSpec => []Assigned
BY PlanInvHolds, PlanGives, PTL

(* A merge never fetches more than the caller's limit.                     *)
THEOREM PlanMergeWithinLimit == PlanSpec => []MergeWithinLimit
BY PlanInvHolds, PlanGives, PTL

(* The multi-range requests are as many as asked for, none of them over    *)
(* max_parts.                                                              *)
THEOREM PlanPartsFit == PlanSpec => []PartsFit
BY PlanInvHolds, PlanGives, PTL

(* No way to cut the ranges into requests, within the limit, costs less    *)
(* than the planner's merge.                                               *)
THEOREM PlanCheapest == PlanSpec => []Cheapest
BY PlanInvHolds, PlanGives, PTL

(* A multi-range request exceeds an equal share of the blocks by less than *)
(* its last range, while max_parts does not interfere.                     *)
THEOREM PlanSharesSimilar == PlanSpec => []SharesSimilar
BY PlanInvHolds, PlanGives, PTL
=============================================================================
