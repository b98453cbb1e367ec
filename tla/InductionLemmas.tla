---------------------------- MODULE InductionLemmas ----------------------------
(***************************************************************************)
(* Induction without operator parameters, and counting: every set of       *)
(* naturals has a least element, what holds at each successor holds        *)
(* everywhere, a function defined from its value at the previous number    *)
(* exists, a sequence that climbs by at most one misses no number, and the *)
(* places in a strict order are the first naturals.  The proofs about the  *)
(* recursive functions and the sorted sets of the other modules rest here. *)
(***************************************************************************)
EXTENDS Integers, FiniteSets, Functions, FiniteSetTheorems, WellFoundedInduction, TLAPS

(* The naturals are well founded. *)
LEMMA LeastNatural ==
  ASSUME NEW S, S \subseteq Nat, S # {}
  PROVE  \E m \in S : \A y \in S : m <= y
<1> DEFINE R == OpToRel(<, Nat)
<1>1. IsWellFoundedOn(R, Nat)
  BY NatLessThanWellFounded
<1>2. \A y, m \in Nat : y < m => << y, m >> \in R
  BY DEF OpToRel
<1> HIDE DEF R
<1>3. PICK m \in S : \A y \in S : ~(<< y, m >> \in R)
  BY <1>1, WFMin
<1>4. \A y \in S : m <= y
  <2> TAKE y \in S
  <2>1. m \in Nat /\ y \in Nat
    OBVIOUS
  <2>2. ~(y < m)
    BY <1>2, <1>3, <2>1
  <2> QED BY <2>1, <2>2
<1> QED BY <1>4

(* A set of numbers up to n that holds 0 and the successors of its members *)
(* below n holds them all.                                                 *)
LEMMA UpTo ==
  ASSUME NEW n \in Nat, NEW S, 0 \in S,
         \A i \in 1 .. n : i - 1 \in S => i \in S
  PROVE  \A i \in 0 .. n : i \in S
<1> SUFFICES ASSUME NEW k \in 0 .. n, k \notin S PROVE FALSE
  OBVIOUS
<1> DEFINE Out == {i \in 0 .. n : i \notin S}
<1>1. Out \subseteq Nat /\ Out # {}
  OBVIOUS
<1>2. PICK m \in Out : \A y \in Out : m <= y
  BY <1>1, LeastNatural
<1>3. m \in 1 .. n /\ m - 1 \in 0 .. n /\ m - 1 < m
  BY <1>2
<1>4. m - 1 \in S
  <2>1. ~(m <= m - 1)
    BY <1>3
  <2> QED BY <1>2, <1>3, <2>1
<1> QED BY <1>2, <1>3, <1>4

(***************************************************************************)
(* The function whose value at i comes from its value at i - 1.  The lemma *)
(* is about named predicates, which a proof keeps closed when it cites it. *)
(***************************************************************************)
StepsIn(F, n, V) == F \in [(1 .. n) \X V -> V]
Iterates(f, base, n, F) == f[0] = base /\ \A i \in 1 .. n : f[i] = F[<< i, f[i - 1] >>]
HasIterates(base, n, F, V) == \E f \in [0 .. n -> V] : Iterates(f, base, n, F)

LEMMA Recursion ==
  ASSUME NEW V, NEW base \in V, NEW n \in Nat, NEW F, StepsIn(F, n, V)
  PROVE  HasIterates(base, n, F, V)
<1>0. F \in [(1 .. n) \X V -> V]
  BY DEF StepsIn
<1> DEFINE Upto(m) == \E f \in [0 .. m -> V] :
                        f[0] = base /\ \A i \in 1 .. m : f[i] = F[<< i, f[i - 1] >>]
           S == {m \in 0 .. n : Upto(m)}
<1>1. 0 \in S
  <2>1. [i \in 0 .. 0 |-> base] \in [0 .. 0 -> V]
    OBVIOUS
  <2>2. Upto(0)
    <3> WITNESS [i \in 0 .. 0 |-> base] \in [0 .. 0 -> V]
    <3> QED OBVIOUS
  <2> QED BY <2>2
<1>2. ASSUME NEW m \in 1 .. n, m - 1 \in S PROVE m \in S
  <2>1. PICK f \in [0 .. m - 1 -> V] :
          f[0] = base /\ \A i \in 1 .. m - 1 : f[i] = F[<< i, f[i - 1] >>]
    BY <1>2
  <2> DEFINE g == [i \in 0 .. m |-> IF i = m THEN F[<< m, f[m - 1] >>] ELSE f[i]]
  <2>2. f[m - 1] \in V
    OBVIOUS
  <2>3. F[<< m, f[m - 1] >>] \in V
    BY <1>0, <2>2
  <2>4. g \in [0 .. m -> V]
    <3> SUFFICES ASSUME NEW i \in 0 .. m PROVE g[i] \in V
      OBVIOUS
    <3>1. i = m \/ i \in 0 .. m - 1
      OBVIOUS
    <3> QED BY <2>3, <3>1
  <2>5. g[0] = base
    BY <2>1
  <2>6. ASSUME NEW i \in 1 .. m PROVE g[i] = F[<< i, g[i - 1] >>]
    <3>1. i - 1 \in 0 .. m /\ i - 1 # m /\ g[i - 1] = f[i - 1]
      OBVIOUS
    <3>2. CASE i = m
      BY <3>1, <3>2
    <3>3. CASE i # m
      <4>1. i \in 1 .. m - 1
        BY <3>3
      <4> QED BY <2>1, <3>1, <3>3, <4>1
    <3> QED BY <3>2, <3>3
  <2>7. Upto(m)
    <3> HIDE DEF g
    <3> QED BY <2>4, <2>5, <2>6
  <2> QED BY <2>7
<1> HIDE DEF S
<1>3. n \in S
  BY <1>1, <1>2, UpTo
<1> QED BY <1>3 DEF S, HasIterates, Iterates

-----------------------------------------------------------------------------
(* A function that starts at 0 and grows by at most one takes every value  *)
(* up to its last, and never falls.                                        *)
ClimbsTo(f, m) ==
  /\ f \in [1 .. m -> Nat] /\ f[1] = 0
  /\ \A i \in 2 .. m : f[i] \in {f[i - 1], f[i - 1] + 1}

LEMMA Climbing ==
  ASSUME NEW m \in Nat \ {0}, NEW f, ClimbsTo(f, m)
  PROVE  /\ {f[i] : i \in 1 .. m} = 0 .. f[m]
         /\ \A i, j \in 1 .. m : i < j => f[i] <= f[j]
<1>1. /\ f \in [1 .. m -> Nat] /\ f[1] = 0
      /\ \A i \in 2 .. m : f[i] \in {f[i - 1], f[i - 1] + 1}
  BY DEF ClimbsTo
<1> DEFINE n == m - 1
           S == {k \in 0 .. n :
                   /\ \A i \in 1 .. k + 1 : f[i] <= f[k + 1]
                   /\ \A v \in 0 .. f[k + 1] : \E i \in 1 .. k + 1 : f[i] = v}
<1>2. n \in Nat
  OBVIOUS
<1>3. 0 \in S
  BY <1>1
<1>4. ASSUME NEW k \in 1 .. n, k - 1 \in S PROVE k \in S
  <2>1. /\ \A i \in 1 .. k : f[i] <= f[k]
        /\ \A v \in 0 .. f[k] : \E i \in 1 .. k : f[i] = v
    BY <1>4
  <2>2. k + 1 \in 2 .. m /\ k \in 1 .. m /\ f[k] \in Nat /\ f[k + 1] \in Nat
    BY <1>1
  <2>3. f[k + 1] = f[k] \/ f[k + 1] = f[k] + 1
    BY <1>1, <2>2
  <2>4. ASSUME NEW i \in 1 .. k + 1 PROVE f[i] <= f[k + 1]
    <3>1. i \in 1 .. m /\ f[i] \in Nat
      BY <1>1, <2>2
    <3>2. CASE i = k + 1
      BY <2>2, <3>2
    <3>3. CASE i # k + 1
      <4>1. i \in 1 .. k
        BY <3>3
      <4> QED BY <2>1, <2>2, <2>3, <3>1, <4>1
    <3> QED BY <3>2, <3>3
  <2>5. ASSUME NEW v \in 0 .. f[k + 1] PROVE \E i \in 1 .. k + 1 : f[i] = v
    <3>1. CASE v = f[k + 1]
      BY <3>1
    <3>2. CASE v # f[k + 1]
      <4>1. v \in 0 .. f[k]
        BY <2>2, <2>3, <3>2
      <4> QED BY <2>1, <4>1
    <3> QED BY <3>1, <3>2
  <2> QED BY <2>4, <2>5
<1>5. \A k \in 0 .. n : k \in S
  <2> HIDE DEF S, n
  <2> QED BY <1>2, <1>3, <1>4, UpTo
<1>6. \A i, j \in 1 .. m : i < j => f[i] <= f[j]
  <2> TAKE i, j \in 1 .. m
  <2> HAVE i < j
  <2>1. j - 1 \in 0 .. n /\ i \in 1 .. (j - 1) + 1 /\ (j - 1) + 1 = j
    OBVIOUS
  <2>2. j - 1 \in S
    <3> HIDE DEF S, n
    <3> QED BY <1>5, <2>1
  <2>3. \A k \in 1 .. (j - 1) + 1 : f[k] <= f[(j - 1) + 1]
    BY <2>2
  <2> QED BY <2>1, <2>3
<1>7. {f[i] : i \in 1 .. m} = 0 .. f[m]
  <2>1. n \in S /\ n + 1 = m
    BY <1>2, <1>5
  <2>2. f[m] \in Nat
    BY <1>1
  <2>3. ASSUME NEW i \in 1 .. m PROVE f[i] \in 0 .. f[m]
    <3>1. f[i] <= f[m] /\ f[i] \in Nat
      BY <1>1, <2>1
    <3> QED BY <2>2, <3>1
  <2>4. ASSUME NEW v \in 0 .. f[m] PROVE \E i \in 1 .. m : f[i] = v
    BY <2>1
  <2> QED BY <2>3, <2>4
<1> QED BY <1>6, <1>7

-----------------------------------------------------------------------------
(* An order is a set of pairs; the place of a is the number of members of  *)
(* S before it.                                                            *)
OrdersStrictly(R, S) ==
  \A a, b, c \in S :
    /\ << a, a >> \notin R
    /\ a # b => << a, b >> \in R \/ << b, a >> \in R
    /\ << a, b >> \in R /\ << b, c >> \in R => << a, c >> \in R

Before(R, S, a) == {b \in S : << b, a >> \in R}
Places(R, S) == [a \in S |-> Cardinality(Before(R, S, a))]

LEMMA IntervalSize ==
  ASSUME NEW n \in Nat PROVE IsFiniteSet(0 .. n - 1) /\ Cardinality(0 .. n - 1) = n
<1>1. 0 \in Int /\ n - 1 \in Int
  OBVIOUS
<1>2. /\ IsFiniteSet(0 .. n - 1)
      /\ Cardinality(0 .. n - 1) = IF 0 > n - 1 THEN 0 ELSE n - 1 - 0 + 1
  BY <1>1, FS_Interval
<1> QED BY <1>2

(* Every place is taken once.                                              *)
LEMMA PlacesAreAll ==
  ASSUME NEW S, IsFiniteSet(S), NEW R, OrdersStrictly(R, S)
  PROVE  Places(R, S) \in Bijection(S, 0 .. Cardinality(S) - 1)
<1> DEFINE n == Cardinality(S)
           r == Places(R, S)
           B(a) == Before(R, S, a)
<1>1. n \in Nat
  BY FS_CardinalityType
<1>2. \A a \in S : IsFiniteSet(B(a)) /\ Cardinality(B(a)) \in 0 .. n - 1
  <2> TAKE a \in S
  <2>1. B(a) \in SUBSET (S \ {a})
    BY DEF OrdersStrictly, Before
  <2>2. IsFiniteSet(S \ {a}) /\ Cardinality(S \ {a}) = n - 1
    BY FS_RemoveElement
  <2>3. IsFiniteSet(B(a)) /\ Cardinality(B(a)) <= n - 1
    BY <2>1, <2>2, FS_Subset
  <2>4. Cardinality(B(a)) \in Nat
    BY <2>3, FS_CardinalityType
  <2> QED BY <1>1, <2>3, <2>4
<1>3. \A a, b \in S : << a, b >> \in R => Cardinality(B(a)) # Cardinality(B(b))
  <2> SUFFICES ASSUME NEW a \in S, NEW b \in S, << a, b >> \in R
               PROVE  Cardinality(B(a)) # Cardinality(B(b))
    OBVIOUS
  <2>1. B(a) \in SUBSET B(b) /\ a \in B(b) /\ a \notin B(a)
    BY DEF OrdersStrictly, Before
  <2>2. B(a) # B(b)
    BY <2>1
  <2> QED BY <1>2, <2>1, <2>2, FS_Subset
<1>4. r \in [S -> 0 .. n - 1] /\ \A a \in S : r[a] = Cardinality(B(a))
  BY <1>2 DEF Places
<1> HIDE DEF r, B
<1>5. \A a, b \in S : r[a] = r[b] => a = b
  BY <1>3, <1>4 DEF OrdersStrictly
<1>6. r \in Injection(S, 0 .. n - 1)
  BY <1>4, <1>5 DEF Injection, IsInjective
<1>7. IsFiniteSet(0 .. n - 1) /\ Cardinality(0 .. n - 1) = n
  BY <1>1, IntervalSize
<1>8. r \in Surjection(S, 0 .. n - 1)
  BY <1>6, <1>7, FS_Injection
<1> QED BY <1>6, <1>8 DEF Bijection, r

(* The members at the first k places are k.                                *)
LEMMA FirstPlaces ==
  ASSUME NEW S, IsFiniteSet(S), NEW R, OrdersStrictly(R, S), NEW k \in 0 .. Cardinality(S)
  PROVE  Cardinality({a \in S : Cardinality(Before(R, S, a)) < k}) = k
<1> DEFINE n == Cardinality(S)
           r == Places(R, S)
           T == {a \in S : r[a] < k}
           f == [a \in T |-> r[a]]
<1>1. n \in Nat /\ k \in Nat /\ k <= n
  BY FS_CardinalityType
<1>2. r \in Bijection(S, 0 .. n - 1)
  BY PlacesAreAll
<1>3. r \in [S -> 0 .. n - 1] /\ (\A a, b \in S : r[a] = r[b] => a = b)
      /\ \A v \in 0 .. n - 1 : \E a \in S : r[a] = v
  BY <1>2 DEF Bijection, Injection, IsInjective, Surjection
<1>4. T = {a \in S : Cardinality(Before(R, S, a)) < k}
  BY DEF Places
<1> HIDE DEF r
<1>5. f \in [T -> 0 .. k - 1]
  BY <1>1, <1>3
<1>6. \A v \in 0 .. k - 1 : \E a \in T : f[a] = v
  <2> TAKE v \in 0 .. k - 1
  <2>1. v \in 0 .. n - 1 /\ v < k
    BY <1>1
  <2>2. PICK a \in S : r[a] = v
    BY <1>3, <2>1
  <2> QED BY <2>1, <2>2
<1>7. \A a, b \in T : f[a] = f[b] => a = b
  BY <1>3
<1>8. IsFiniteSet(T)
  BY FS_Subset
<1> HIDE DEF T, f
<1>9. f \in Bijection(T, 0 .. k - 1)
  BY <1>5, <1>6, <1>7 DEF Bijection, Injection, IsInjective, Surjection
<1>10. Cardinality(0 .. k - 1) = Cardinality(T)
  BY <1>8, <1>9, FS_Bijection DEF ExistsBijection
<1> QED BY <1>1, <1>4, <1>10, IntervalSize
=============================================================================
