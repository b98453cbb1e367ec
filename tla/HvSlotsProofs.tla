----------------------------- MODULE HvSlotsProofs -----------------------------
(***************************************************************************)
(* Theorems about HvSlots: its lists and chains are whole, a slot in use   *)
(* has the bytes of its block, a statement's end gives memory back, and    *)
(* the whole implements HvCache.                                           *)
(*                                                                         *)
(* A struct is described by the lists its links spell out: u and p, the    *)
(* slots of the LRU and of the pinned list, c[b], the chain of bucket b,   *)
(* and f, the free list.  Recency, Hashed and Freed say that the links of  *)
(* a struct are those of such lists, Whole and Good that it has them.  For *)
(* every function of the code a lemma says which lists the struct has      *)
(* afterwards; BlocksOf follows from u and p.                              *)
(***************************************************************************)
EXTENDS HvSlots, InductionLemmas

-----------------------------------------------------------------------------
(* What stands at place i of a list of slots; outside it, the link's -1.   *)
At(q, i) == IF i \in 1 .. Len(q) THEN q[i] ELSE -1

Ran(q) == {q[i] : i \in 1 .. Len(q)}

Once(q) == \A i, j \in 1 .. Len(q) : q[i] = q[j] => i = j

(* A list of slots out of S, none twice. *)
ListIn(q, S) == q \in Seq(S) /\ Once(q)

LEMMA MadeSeq ==
  ASSUME NEW n \in Nat, NEW S, NEW f \in [1 .. n -> S]
  PROVE  f \in Seq(S) /\ Len(f) = n /\ DOMAIN f = 1 .. n
OBVIOUS

LEMMA NaturalMin ==
  ASSUME NEW S, S \subseteq Nat, S # {}
  PROVE  Min(S) \in S /\ \A y \in S : Min(S) <= y
<1>1. \E m \in S : \A y \in S : m <= y
  BY LeastNatural
<1> QED BY <1>1 DEF Min

LEMMA ListFacts ==
  ASSUME NEW S, NEW q, ListIn(q, S)
  PROVE  /\ Len(q) \in Nat /\ DOMAIN q = 1 .. Len(q)
         /\ \A i \in 1 .. Len(q) : q[i] \in S
         /\ q = [i \in 1 .. Len(q) |-> q[i]]
         /\ Ran(q) \subseteq S
BY DEF ListIn, Ran

LEMMA RanSize ==
  ASSUME NEW S, NEW q, ListIn(q, S)
  PROVE  IsFiniteSet(Ran(q)) /\ Cardinality(Ran(q)) = Len(q)
<1> DEFINE n == Len(q)
           f == [i \in 1 .. n |-> q[i]]
<1>1. n \in Nat
  BY ListFacts
<1>2. f \in Bijection(1 .. n, Ran(q))
  BY DEF ListIn, Once, Ran, Bijection, Injection, IsInjective, Surjection
<1>3. IsFiniteSet(1 .. n) /\ Cardinality(1 .. n) = n
  <2>1. 1 \in Int /\ n \in Int
    BY <1>1
  <2>2. /\ IsFiniteSet(1 .. n)
        /\ Cardinality(1 .. n) = IF 1 > n THEN 0 ELSE n - 1 + 1
    BY <2>1, FS_Interval
  <2> QED BY <1>1, <2>2
<1> HIDE DEF f, n
<1>4. ExistsBijection(1 .. n, Ran(q))
  BY <1>2 DEF ExistsBijection
<1>5. IsFiniteSet(Ran(q))
  <2>1. Ran(q) = {q[i] : i \in 1 .. n}
    BY DEF Ran, n
  <2>2. f \in Surjection(1 .. n, Ran(q))
    BY <1>2 DEF Bijection
  <2> QED BY <1>3, <2>2, FS_Surjection
<1>6. Cardinality(1 .. n) = Cardinality(Ran(q))
  BY <1>3, <1>4, <1>5, FS_Bijection
<1> QED BY <1>3, <1>5, <1>6 DEF n

(* No list is longer than what it is made of. *)
LEMMA ListShort ==
  ASSUME NEW m \in Nat, NEW q, ListIn(q, 0 .. m - 1)
  PROVE  Len(q) <= m
<1>1. IsFiniteSet(Ran(q)) /\ Cardinality(Ran(q)) = Len(q) /\ Ran(q) \subseteq 0 .. m - 1
  BY RanSize, ListFacts
<1>2. IsFiniteSet(0 .. m - 1) /\ Cardinality(0 .. m - 1) = m
  BY IntervalSize
<1> QED BY <1>1, <1>2, FS_Subset

-----------------------------------------------------------------------------
(* The lists the operations make: one more in front, one less, one         *)
(* replaced, the first m, and two in a row.                                *)
Headed(s, q) == [i \in 1 .. Len(q) + 1 |-> IF i = 1 THEN s ELSE q[i - 1]]
Cut(q, j)  == [i \in 1 .. Len(q) - 1 |-> IF i < j THEN q[i] ELSE q[i + 1]]
Swap(q, s, d) == [i \in 1 .. Len(q) |-> IF q[i] = s THEN d ELSE q[i]]

LEMMA HeadedFacts ==
  ASSUME NEW S, NEW q, ListIn(q, S), NEW s \in S, s \notin Ran(q)
  PROVE  /\ ListIn(Headed(s, q), S) /\ Len(Headed(s, q)) = Len(q) + 1
         /\ Ran(Headed(s, q)) = Ran(q) \cup {s}
         /\ Headed(s, q)[1] = s
         /\ \A i \in 1 .. Len(q) : Headed(s, q)[i + 1] = q[i]
<1> DEFINE n == Len(q)
           c == Headed(s, q)
<1>1. n \in Nat /\ \A i \in 1 .. n : q[i] \in S
  BY ListFacts
<1>2. c \in [1 .. n + 1 -> S]
  BY <1>1 DEF Headed
<1>3. c \in Seq(S) /\ Len(c) = n + 1
  <2> HIDE DEF c
  <2>1. n + 1 \in Nat
    BY <1>1
  <2> QED BY <1>2, <2>1, MadeSeq
<1>4. c[1] = s /\ (\A i \in 1 .. n : c[i + 1] = q[i]) /\ \A i \in 2 .. n + 1 : c[i] = q[i - 1]
  BY <1>1 DEF Headed
<1>5. Once(c)
  <2> SUFFICES ASSUME NEW i \in 1 .. n + 1, NEW j \in 1 .. n + 1, c[i] = c[j] PROVE i = j
    BY <1>3 DEF Once
  <2> HIDE DEF c
  <2>1. CASE i = 1 \/ j = 1
    BY <1>1, <1>4, <2>1 DEF Ran
  <2>2. CASE i # 1 /\ j # 1
    <3>1. i - 1 \in 1 .. n /\ j - 1 \in 1 .. n
      BY <1>1, <2>2
    <3> QED BY <1>4, <2>2, <3>1 DEF ListIn, Once
  <2> QED BY <2>1, <2>2
<1>6. Ran(c) = Ran(q) \cup {s}
  <2> HIDE DEF c
  <2>1. ASSUME NEW i \in 1 .. n + 1 PROVE c[i] \in Ran(q) \cup {s}
    <3>1. i = 1 \/ i - 1 \in 1 .. n
      BY <1>1
    <3> QED BY <1>1, <1>4, <3>1 DEF Ran
  <2>2. s \in Ran(c)
    BY <1>1, <1>3, <1>4 DEF Ran
  <2>3. ASSUME NEW i \in 1 .. n PROVE q[i] \in Ran(c)
    <3>1. i + 1 \in 1 .. n + 1
      BY <1>1
    <3> QED BY <1>3, <1>4, <3>1 DEF Ran
  <2> QED BY <1>3, <2>1, <2>2, <2>3 DEF Ran
<1> QED BY <1>3, <1>4, <1>5, <1>6 DEF ListIn

LEMMA CutFacts ==
  ASSUME NEW S, NEW q, ListIn(q, S), NEW j \in 1 .. Len(q)
  PROVE  /\ ListIn(Cut(q, j), S) /\ Len(Cut(q, j)) = Len(q) - 1
         /\ Ran(Cut(q, j)) = Ran(q) \ {q[j]}
         /\ \A i \in 1 .. Len(q) - 1 : Cut(q, j)[i] = IF i < j THEN q[i] ELSE q[i + 1]
<1> DEFINE n == Len(q)
           c == Cut(q, j)
<1>1. n \in Nat /\ (\A i \in 1 .. n : q[i] \in S) /\ j \in 1 .. n /\ n - 1 \in Nat
  BY ListFacts
<1>2. \A i \in 1 .. n - 1 : c[i] = IF i < j THEN q[i] ELSE q[i + 1]
  BY DEF Cut
<1>3. c \in [1 .. n - 1 -> S]
  <2>1. \A i \in 1 .. n - 1 : i \in 1 .. n /\ i + 1 \in 1 .. n
    BY <1>1
  <2>2. \A i \in 1 .. n - 1 : q[i] \in S /\ q[i + 1] \in S
    BY <1>1, <2>1
  <2> QED BY <2>2 DEF Cut
<1> HIDE DEF c
<1>4. c \in Seq(S) /\ Len(c) = n - 1
  BY <1>1, <1>3, MadeSeq
<1> DEFINE g(i) == IF i < j THEN i ELSE i + 1
<1>5. \A i \in 1 .. n - 1 : g(i) \in 1 .. n /\ g(i) # j /\ c[i] = q[g(i)]
  BY <1>1, <1>2
<1>6. \A i, k \in 1 .. n - 1 : g(i) = g(k) => i = k
  BY <1>1
<1>7. \A k \in 1 .. n : k # j => \E i \in 1 .. n - 1 : g(i) = k
  <2> TAKE k \in 1 .. n
  <2> HAVE k # j
  <2>1. CASE k < j
    <3>1. k \in 1 .. n - 1 /\ g(k) = k
      BY <1>1, <2>1
    <3> QED BY <3>1
  <2>2. CASE k > j
    <3>1. k - 1 \in 1 .. n - 1 /\ g(k - 1) = k
      BY <1>1, <2>2
    <3> QED BY <3>1
  <2> QED BY <1>1, <2>1, <2>2
<1> HIDE DEF g
<1>8. Once(q)
  BY DEF ListIn
<1>9. Once(c)
  BY <1>4, <1>5, <1>6, <1>8 DEF Once
<1>10. Ran(c) = Ran(q) \ {q[j]}
  <2>1. \A i \in 1 .. n - 1 : c[i] \in Ran(q) \ {q[j]}
    BY <1>1, <1>5, <1>8 DEF Once, Ran
  <2>2. \A k \in 1 .. n : q[k] # q[j] => q[k] \in Ran(c)
    BY <1>4, <1>5, <1>7 DEF Ran
  <2> QED BY <1>4, <2>1, <2>2 DEF Ran
<1> QED BY <1>2, <1>4, <1>9, <1>10 DEF ListIn, c

LEMMA SwapFacts ==
  ASSUME NEW S, NEW q, ListIn(q, S), NEW s, NEW d \in S, d \notin Ran(q)
  PROVE  /\ ListIn(Swap(q, s, d), S) /\ Len(Swap(q, s, d)) = Len(q)
         /\ Ran(Swap(q, s, d)) = IF s \in Ran(q) THEN (Ran(q) \ {s}) \cup {d} ELSE Ran(q)
         /\ \A i \in 1 .. Len(q) : Swap(q, s, d)[i] = IF q[i] = s THEN d ELSE q[i]
<1> DEFINE n == Len(q)
           c == Swap(q, s, d)
<1>1. n \in Nat /\ (\A i \in 1 .. n : q[i] \in S) /\ Once(q)
  BY ListFacts DEF ListIn
<1>2. \A i \in 1 .. n : c[i] = IF q[i] = s THEN d ELSE q[i]
  BY DEF Swap
<1>3. c \in [1 .. n -> S]
  BY <1>1 DEF Swap
<1> HIDE DEF c
<1>4. c \in Seq(S) /\ Len(c) = n
  BY <1>1, <1>3, MadeSeq
<1>5. Once(c)
  BY <1>1, <1>2, <1>4 DEF Once, Ran
<1>6. Ran(c) = IF s \in Ran(q) THEN (Ran(q) \ {s}) \cup {d} ELSE Ran(q)
  BY <1>1, <1>2, <1>4 DEF Ran
<1> QED BY <1>2, <1>4, <1>5, <1>6 DEF ListIn, c

-----------------------------------------------------------------------------
(* A link leads along q: from `first` to the first of its slots, and from  *)
(* each to the next.                                                       *)
Leads(h, first, field, q) ==
  /\ first = At(q, 1)
  /\ \A i \in 1 .. Len(q) : h.slot[q[i]][field] = At(q, i + 1)

(* The first m of a list. *)
Upto(q, m) == [i \in 1 .. m |-> q[i]]

LEMMA UptoFacts ==
  ASSUME NEW S, NEW q \in Seq(S), NEW m \in 0 .. Len(q)
  PROVE  /\ Upto(q, m) \in Seq(S) /\ Len(Upto(q, m)) = m
         /\ \A i \in 1 .. m : Upto(q, m)[i] = q[i]
         /\ Upto(q, Len(q)) = q /\ Upto(q, 0) = << >>
         /\ m < Len(q) => Append(Upto(q, m), q[m + 1]) = Upto(q, m + 1)
<1>1. m \in Nat /\ Len(q) \in Nat /\ \A i \in 1 .. Len(q) : q[i] \in S
  OBVIOUS
<1>2. Upto(q, m) \in [1 .. m -> S]
  BY <1>1 DEF Upto
<1>3. /\ Upto(q, m) \in Seq(S) /\ Len(Upto(q, m)) = m
      /\ \A i \in 1 .. m : Upto(q, m)[i] = q[i]
  <2> DEFINE u == Upto(q, m)
  <2>1. \A i \in 1 .. m : u[i] = q[i]
    BY DEF Upto
  <2> HIDE DEF u
  <2>2. u \in Seq(S) /\ Len(u) = m
    BY <1>1, <1>2, MadeSeq DEF u
  <2> QED BY <2>1, <2>2 DEF u
<1>4. Upto(q, Len(q)) = q
  BY DEF Upto
<1>5. Upto(q, 0) = << >>
  BY DEF Upto
<1>6. ASSUME m < Len(q) PROVE Append(Upto(q, m), q[m + 1]) = Upto(q, m + 1)
  <2> DEFINE u == Upto(q, m)
             w == Upto(q, m + 1)
             a == Append(u, q[m + 1])
  <2>1. q[m + 1] \in S /\ m + 1 \in Nat
    BY <1>1, <1>6
  <2>2. \A i \in 1 .. m : u[i] = q[i]
    BY DEF Upto
  <2>3. w = [i \in 1 .. m + 1 |-> q[i]]
    BY DEF Upto
  <2> HIDE DEF u, w
  <2>4. u \in Seq(S) /\ Len(u) = m
    BY <1>3 DEF u
  <2>5. a \in Seq(S) /\ Len(a) = m + 1 /\ a[m + 1] = q[m + 1] /\ \A i \in 1 .. m : a[i] = u[i]
    BY <2>1, <2>4
  <2> HIDE DEF a
  <2>6. a = [i \in 1 .. m + 1 |-> a[i]]
    BY <2>5
  <2>7. \A i \in 1 .. m + 1 : a[i] = q[i]
    <3> TAKE i \in 1 .. m + 1
    <3>1. i = m + 1 \/ i \in 1 .. m
      BY <1>1
    <3> QED BY <2>2, <2>5, <3>1
  <2>8. a = w
    BY <2>3, <2>6, <2>7
  <2> QED BY <2>8 DEF a, u, w
<1> QED BY <1>3, <1>4, <1>5, <1>6

(* Following the link gives the list. *)
LEMMA AlongIs ==
  ASSUME NEW h, NEW m \in Nat, Slots(h) = 0 .. m - 1, NEW q, ListIn(q, Slots(h)),
         NEW first, NEW field, Leads(h, first, field, q)
  PROVE  Along(h, first, field) = q
<1> DEFINE S == Slots(h)
           n == Len(q)
           c == Cardinality(Slots(h))
           leads(p) == IF p = << >> THEN first
                       ELSE IF Last(p) \in S THEN h.slot[Last(p)][field] ELSE -1
           longer(p) == IF leads(p) = -1 THEN p ELSE Append(p, leads(p))
           path[i \in 0 .. c + 1] == IF i = 0 THEN << >> ELSE longer(path[i - 1])
           pre(i) == IF i <= n THEN Upto(q, i) ELSE q
           f == [i \in 0 .. c + 1 |-> pre(i)]
<1>1. c = m /\ n \in Nat /\ n <= c
  BY IntervalSize, ListShort, ListFacts
<1>2. q \in Seq(S) /\ \A i \in 1 .. n : q[i] \in S /\ q[i] # -1
  BY ListFacts DEF ListIn
<1>3. first = At(q, 1) /\ \A i \in 1 .. n : h.slot[q[i]][field] = At(q, i + 1)
  BY DEF Leads
<1>4. Along(h, first, field) = path[c + 1]
  BY DEF Along
<1>5. pre(0) = << >>
  BY <1>1, <1>2, UptoFacts
<1>6. ASSUME NEW i \in 1 .. c + 1 PROVE pre(i) = longer(pre(i - 1))
  <2>1. CASE i - 1 < n
    <3> DEFINE p == Upto(q, i - 1)
    <3>0. i - 1 \in 0 .. n /\ i \in 1 .. n /\ (i - 1) + 1 = i
      BY <1>1, <2>1
    <3>1. p \in Seq(S) /\ Len(p) = i - 1 /\ (\A k \in 1 .. i - 1 : p[k] = q[k])
          /\ (i - 1 = 0 => p = << >>) /\ Append(p, q[i]) = Upto(q, i)
      <4> DEFINE k == i - 1
      <4>1. k \in 0 .. n /\ k < n /\ k + 1 = i
        BY <2>1, <3>0
      <4> HIDE DEF k
      <4>2. /\ Upto(q, k) \in Seq(S) /\ Len(Upto(q, k)) = k
            /\ \A x \in 1 .. k : Upto(q, k)[x] = q[x]
        BY <1>2, <4>1, UptoFacts
      <4>3. Upto(q, 0) = << >> /\ Append(Upto(q, k), q[k + 1]) = Upto(q, k + 1)
        BY <1>2, <4>1, UptoFacts
      <4> QED BY <4>1, <4>2, <4>3 DEF k
    <3>2. pre(i - 1) = p /\ pre(i) = Upto(q, i)
      BY <1>1, <2>1
    <3> HIDE DEF p, pre
    <3>3. leads(p) = q[i]
      <4>1. CASE i = 1
        BY <1>3, <3>0, <3>1, <4>1 DEF At
      <4>2. CASE i # 1
        <5>1. i - 1 \in 1 .. n /\ i - 1 \in 1 .. i - 1
          BY <3>0, <4>2
        <5>2. p # << >> /\ Last(p) = q[i - 1]
          BY <3>1, <5>1 DEF Last
        <5>3. h.slot[q[i - 1]][field] = q[i]
          BY <1>3, <3>0, <5>1 DEF At
        <5> QED BY <1>2, <5>1, <5>2, <5>3
      <4> QED BY <4>1, <4>2
    <3>4. leads(p) # -1
      BY <1>2, <3>0, <3>3
    <3> HIDE DEF leads
    <3> QED BY <3>1, <3>2, <3>3, <3>4
  <2>2. CASE i - 1 >= n
    <3>1. pre(i - 1) = q /\ pre(i) = q
      <4>1. Upto(q, n) = q
        BY <1>1, <1>2, UptoFacts
      <4> QED BY <1>1, <2>2, <4>1
    <3>2. leads(q) = -1
      <4>1. CASE n = 0
        <5>1. q = << >>
          BY <1>2, <4>1
        <5> QED BY <1>3, <4>1, <5>1 DEF At
      <4>2. CASE n # 0
        <5>1. n \in 1 .. n /\ Last(q) = q[n] /\ q # << >>
          BY <1>1, <1>2, <4>2 DEF Last
        <5>2. h.slot[q[n]][field] = -1
          BY <1>1, <1>3, <5>1 DEF At
        <5> QED BY <1>2, <5>1, <5>2
      <4> QED BY <4>1, <4>2
    <3> HIDE DEF pre, leads
    <3> QED BY <3>1, <3>2
  <2> QED BY <1>1, <2>1, <2>2
<1> HIDE DEF pre, longer
<1>7. f = [i \in 0 .. c + 1 |-> IF i = 0 THEN << >> ELSE longer(f[i - 1])]
  <2>1. \A i \in 1 .. c + 1 : i - 1 \in 0 .. c + 1 /\ f[i - 1] = pre(i - 1)
    BY <1>1
  <2> QED BY <1>1, <1>5, <1>6, <2>1
<1>8. path = [i \in 0 .. c + 1 |-> IF i = 0 THEN << >> ELSE longer(path[i - 1])]
  BY <1>7
<1> HIDE DEF path, f
<1> DEFINE I == {i \in 0 .. c + 1 : path[i] = pre(i)}
<1>9. 0 \in I
  BY <1>1, <1>5, <1>8
<1>10. \A i \in 1 .. c + 1 : i - 1 \in I => i \in I
  BY <1>1, <1>6, <1>8
<1> HIDE DEF I
<1>11. c + 1 \in I
  <2>1. c + 1 \in Nat /\ c + 1 \in 0 .. c + 1
    BY <1>1
  <2> HIDE DEF c
  <2> QED BY <1>9, <1>10, <2>1, UpTo
<1> QED BY <1>1, <1>4, <1>11 DEF I, pre

-----------------------------------------------------------------------------
(* A backward link leads along q from its end: the list is doubly linked.  *)
Back(h, last, q) ==
  /\ last = At(q, Len(q))
  /\ \A i \in 1 .. Len(q) : h.slot[q[i]].prev = At(q, i - 1)

(* Only place j of a list holds what place j holds.                        *)
Placed(q) == \A x \in Int : \A k \in 1 .. Len(q) : At(q, x) = q[k] => x = k

LEMMA AtPlaced ==
  ASSUME NEW S, S \subseteq Nat, NEW q, ListIn(q, S)
  PROVE  Placed(q)
<1>1. Len(q) \in Nat /\ (\A j \in 1 .. Len(q) : q[j] \in S) /\ Once(q)
  BY ListFacts DEF ListIn
<1>2. \A j \in 1 .. Len(q) : q[j] # -1
  BY <1>1
<1> QED BY <1>1, <1>2 DEF At, Once, Placed

LEMMA LeadsKept ==
  ASSUME NEW h, NEW g, NEW q, NEW first, NEW field, Leads(h, first, field, q),
         \A i \in 1 .. Len(q) : g.slot[q[i]][field] = h.slot[q[i]][field]
  PROVE  Leads(g, first, field, q)
BY DEF Leads

LEMMA LeadsHeaded ==
  ASSUME NEW S, S \subseteq Nat, NEW q, ListIn(q, S), NEW s \in S, s \notin Ran(q),
         NEW h, NEW g, NEW first, NEW field, Leads(h, first, field, q),
         \A i \in 1 .. Len(q) : g.slot[q[i]][field] = h.slot[q[i]][field],
         g.slot[s][field] = first
  PROVE  Leads(g, s, field, Headed(s, q))
<1> DEFINE n == Len(q)
           c == Headed(s, q)
<1>1. n \in Nat /\ Len(c) = n + 1 /\ c[1] = s /\ \A i \in 1 .. n : c[i + 1] = q[i]
  BY ListFacts, HeadedFacts
<1> HIDE DEF c
<1>2. At(c, 1) = s /\ \A i \in 0 .. n : At(c, i + 2) = At(q, i + 1)
  <2>1. At(c, 1) = s
    BY <1>1 DEF At
  <2>2. ASSUME NEW i \in 0 .. n PROVE At(c, i + 2) = At(q, i + 1)
    <3>1. CASE i = n
      BY <1>1, <3>1 DEF At
    <3>2. CASE i # n
      <4>1. i + 1 \in 1 .. n /\ i + 2 \in 1 .. n + 1 /\ i + 2 = (i + 1) + 1
        BY <1>1, <3>2
      <4> QED BY <1>1, <4>1 DEF At
    <3> QED BY <3>1, <3>2
  <2> QED BY <2>1, <2>2
<1>3. ASSUME NEW i \in 1 .. n + 1 PROVE g.slot[c[i]][field] = At(c, i + 1)
  <2>1. CASE i = 1
    <3>1. 0 \in 0 .. n /\ At(c, 0 + 2) = At(q, 0 + 1)
      BY <1>1, <1>2
    <3> QED BY <1>1, <2>1, <3>1 DEF Leads
  <2>2. CASE i # 1
    <3> DEFINE k == i - 1
    <3>1. k \in 1 .. n /\ k \in 0 .. n /\ i = k + 1
      BY <1>1, <2>2
    <3> HIDE DEF k
    <3>2. c[i] = q[k] /\ At(c, k + 2) = At(q, k + 1) /\ i + 1 = k + 2
      BY <1>1, <1>2, <3>1
    <3> QED BY <3>1, <3>2 DEF Leads
  <2> QED BY <2>1, <2>2
<1> QED BY <1>1, <1>2, <1>3 DEF Leads, c

(* What leads to place j of q in h leads past it in g.                     *)
LeadsPast(h, g, field, q, j) ==
  \A i \in 1 .. Len(q) :
    i # j => g.slot[q[i]][field] = IF h.slot[q[i]][field] = q[j]
                                   THEN h.slot[q[j]][field] ELSE h.slot[q[i]][field]

LEMMA LeadsCut ==
  ASSUME NEW S, S \subseteq Nat, NEW q, ListIn(q, S), NEW j \in 1 .. Len(q),
         NEW h, NEW g, NEW first, NEW field, Leads(h, first, field, q),
         LeadsPast(h, g, field, q, j)
  PROVE  Leads(g, IF first = q[j] THEN h.slot[q[j]][field] ELSE first, field, Cut(q, j))
<1>0. \A i \in 1 .. Len(q) :
        i # j => g.slot[q[i]][field] = IF h.slot[q[i]][field] = q[j]
                                       THEN h.slot[q[j]][field] ELSE h.slot[q[i]][field]
  BY DEF LeadsPast
<1> DEFINE n == Len(q)
           c == Cut(q, j)
<1>1. /\ n \in Nat /\ j \in 1 .. n /\ Len(c) = n - 1
      /\ \A i \in 1 .. n - 1 : c[i] = IF i < j THEN q[i] ELSE q[i + 1]
  BY ListFacts, CutFacts
<1>2. first = At(q, 1) /\ \A i \in 1 .. n : h.slot[q[i]][field] = At(q, i + 1)
  BY DEF Leads
<1>3. \A i \in Int : At(q, i) = q[j] <=> i = j
  <2> TAKE i \in Int
  <2>1. At(q, j) = q[j]
    BY <1>1 DEF At
  <2>2. \A x \in Int : \A k \in 1 .. Len(q) : At(q, x) = q[k] => x = k
    BY AtPlaced DEF Placed
  <2> QED BY <1>1, <2>1, <2>2
<1> HIDE DEF c
<1>4. \A i \in Int : i >= 1 => At(c, i) = IF i < j THEN At(q, i) ELSE At(q, i + 1)
  <2> TAKE i \in Int
  <2> HAVE i >= 1
  <2>1. CASE i \in 1 .. n - 1
    <3>1. i \in 1 .. n /\ i + 1 \in 1 .. n
      BY <1>1, <2>1
    <3> QED BY <1>1, <2>1, <3>1 DEF At
  <2>2. CASE i \notin 1 .. n - 1
    <3>1. i >= n /\ ~(i < j) /\ i + 1 \notin 1 .. n
      BY <1>1, <2>2
    <3> QED BY <1>1, <2>2, <3>1 DEF At
  <2> QED BY <2>1, <2>2
<1>5. (IF first = q[j] THEN h.slot[q[j]][field] ELSE first) = At(c, 1)
  <2>1. CASE j = 1
    <3>1. first = q[j] /\ h.slot[q[j]][field] = At(q, 1 + 1)
      BY <1>1, <1>2, <1>3, <2>1
    <3>2. At(c, 1) = At(q, 1 + 1)
      BY <1>4, <2>1
    <3> QED BY <3>1, <3>2
  <2>2. CASE j # 1
    <3>1. 1 < j
      BY <1>1, <2>2
    <3> QED BY <1>1, <1>2, <1>3, <1>4, <2>2, <3>1
  <2> QED BY <2>1, <2>2
<1>6. ASSUME NEW i \in 1 .. n - 1 PROVE g.slot[c[i]][field] = At(c, i + 1)
  <2>0. i \in 1 .. n /\ i + 1 \in 1 .. n /\ i \in Int /\ i + 1 \in Int /\ i + 1 >= 1
        /\ (i + 1) + 1 \in Int
    BY <1>1
  <2>1. CASE i + 1 < j
    <3>1. i < j /\ i # j /\ c[i] = q[i] /\ At(c, i + 1) = At(q, i + 1)
      BY <1>1, <1>4, <2>0, <2>1
    <3>2. h.slot[q[i]][field] = At(q, i + 1) /\ At(q, i + 1) # q[j]
      BY <1>1, <1>2, <1>3, <2>0, <2>1
    <3> QED BY <1>0, <2>0, <3>1, <3>2
  <2>2. CASE i + 1 = j
    <3>1. i < j /\ i # j /\ c[i] = q[i] /\ At(c, i + 1) = At(q, j + 1)
      BY <1>1, <1>4, <2>0, <2>2
    <3>2. h.slot[q[i]][field] = q[j] /\ h.slot[q[j]][field] = At(q, j + 1)
      BY <1>1, <1>2, <1>3, <2>0, <2>2
    <3> QED BY <1>0, <2>0, <3>1, <3>2
  <2>3. CASE i + 1 > j
    <3>1. ~(i < j) /\ ~(i + 1 < j) /\ i + 1 # j /\ (i + 1) + 1 # j
      BY <1>1, <2>0, <2>3
    <3>2. c[i] = q[i + 1] /\ At(c, i + 1) = At(q, (i + 1) + 1)
      BY <1>1, <1>4, <2>0, <3>1
    <3>3. h.slot[q[i + 1]][field] = At(q, (i + 1) + 1) /\ At(q, (i + 1) + 1) # q[j]
      BY <1>2, <1>3, <2>0, <3>1
    <3> QED BY <1>0, <2>0, <3>1, <3>2, <3>3
  <2> QED BY <1>1, <2>0, <2>1, <2>2, <2>3
<1> QED BY <1>1, <1>5, <1>6 DEF Leads, c

(* What leads to s in h leads to d in g, and d to where s led.             *)
LeadsTo(h, g, field, q, s, d) ==
  /\ \A i \in 1 .. Len(q) :
       q[i] # s => g.slot[q[i]][field] = IF h.slot[q[i]][field] = s
                                         THEN d ELSE h.slot[q[i]][field]
  /\ s \in Ran(q) => g.slot[d][field] = h.slot[s][field]

LEMMA LeadsSwap ==
  ASSUME NEW S, S \subseteq Nat, NEW q, ListIn(q, S), NEW s \in S, NEW d \in S, d \notin Ran(q),
         NEW h, NEW g, NEW first, NEW field, Leads(h, first, field, q),
         LeadsTo(h, g, field, q, s, d)
  PROVE  Leads(g, IF first = s THEN d ELSE first, field, Swap(q, s, d))
<1> DEFINE n == Len(q)
           c == Swap(q, s, d)
<1>1. /\ n \in Nat /\ Len(c) = n /\ Once(q)
      /\ \A i \in 1 .. n : c[i] = IF q[i] = s THEN d ELSE q[i]
  BY ListFacts, SwapFacts DEF ListIn
<1>2. first = At(q, 1) /\ \A i \in 1 .. n : h.slot[q[i]][field] = At(q, i + 1)
  BY DEF Leads
<1> HIDE DEF c
<1>3. \A i \in Int : At(c, i) = IF At(q, i) = s THEN d ELSE At(q, i)
  <2>1. s # -1
    OBVIOUS
  <2> QED BY <1>1, <2>1 DEF At
<1>4. (IF first = s THEN d ELSE first) = At(c, 1)
  BY <1>2, <1>3
<1>5. ASSUME NEW i \in 1 .. n PROVE g.slot[c[i]][field] = At(c, i + 1)
  <2>0. i + 1 \in Int
    OBVIOUS
  <2>1. CASE q[i] = s
    <3>1. c[i] = d /\ g.slot[d][field] = h.slot[s][field] /\ h.slot[s][field] = At(q, i + 1)
      BY <1>1, <1>2, <2>1 DEF Ran, LeadsTo
    <3>2. At(q, i + 1) # s
      <4>1. \A x \in Int : \A k \in 1 .. Len(q) : At(q, x) = q[k] => x = k
        BY AtPlaced DEF Placed
      <4> QED BY <2>0, <2>1, <4>1
    <3> QED BY <1>3, <2>0, <3>1, <3>2
  <2>2. CASE q[i] # s
    BY <1>1, <1>2, <1>3, <2>0, <2>2 DEF LeadsTo
  <2> QED BY <2>1, <2>2
<1> QED BY <1>1, <1>4, <1>5 DEF Leads, c

LEMMA BackKept ==
  ASSUME NEW h, NEW g, NEW q, NEW last, Back(h, last, q),
         \A i \in 1 .. Len(q) : g.slot[q[i]].prev = h.slot[q[i]].prev
  PROVE  Back(g, last, q)
BY DEF Back

LEMMA BackHeaded ==
  ASSUME NEW S, S \subseteq Nat, NEW q, ListIn(q, S), NEW s \in S, s \notin Ran(q),
         NEW h, NEW g, NEW last, Back(h, last, q),
         \A i \in 1 .. Len(q) : g.slot[q[i]].prev = IF i = 1 THEN s ELSE h.slot[q[i]].prev,
         g.slot[s].prev = -1
  PROVE  Back(g, IF last < 0 THEN s ELSE last, Headed(s, q))
<1> DEFINE n == Len(q)
           c == Headed(s, q)
<1>1. n \in Nat /\ Len(c) = n + 1 /\ c[1] = s /\ \A i \in 1 .. n : c[i + 1] = q[i]
  BY ListFacts, HeadedFacts
<1>2. last = At(q, n) /\ \A i \in 1 .. n : h.slot[q[i]].prev = At(q, i - 1)
  BY DEF Back
<1> HIDE DEF c
<1>3. (IF last < 0 THEN s ELSE last) = At(c, n + 1)
  <2>1. CASE n = 0
    BY <1>1, <1>2, <2>1 DEF At
  <2>2. CASE n # 0
    <3>1. n \in 1 .. n /\ last = q[n] /\ q[n] \in S /\ n + 1 \in 1 .. n + 1
      BY <1>1, <1>2, <2>2, ListFacts DEF At
    <3>2. last \in Nat
      BY <3>1
    <3>3. ~(last < 0)
      BY <3>2
    <3> QED BY <1>1, <3>1, <3>3 DEF At
  <2> QED BY <2>1, <2>2
<1>4. ASSUME NEW i \in 1 .. n + 1 PROVE g.slot[c[i]].prev = At(c, i - 1)
  <2>1. CASE i = 1
    BY <1>1, <2>1 DEF At
  <2>2. CASE i # 1
    <3> DEFINE k == i - 1
    <3>1. k \in 1 .. n /\ i = k + 1 /\ k \in 1 .. n + 1
      BY <1>1, <2>2
    <3> HIDE DEF k
    <3>2. c[i] = q[k] /\ i - 1 = k
      BY <1>1, <3>1
    <3>3. CASE k = 1
      <4>1. g.slot[q[k]].prev = s /\ At(c, k) = s
        BY <1>1, <3>1, <3>3 DEF At
      <4> QED BY <3>2, <4>1
    <3>4. CASE k # 1
      <4> DEFINE z == k - 1
      <4>1. z \in 1 .. n /\ k = z + 1
        BY <1>1, <3>1, <3>4
      <4> HIDE DEF z
      <4>2. g.slot[q[k]].prev = At(q, k - 1) /\ k - 1 = z
        BY <1>2, <3>1, <3>4, <4>1
      <4>3. At(q, z) = q[z] /\ At(c, k) = c[k] /\ c[k] = q[z]
        BY <1>1, <3>1, <4>1 DEF At
      <4> QED BY <3>2, <4>2, <4>3
    <3> QED BY <3>3, <3>4
  <2> QED BY <2>1, <2>2
<1> QED BY <1>1, <1>3, <1>4 DEF Back, c

LEMMA BackCut ==
  ASSUME NEW S, S \subseteq Nat, NEW q, ListIn(q, S), NEW j \in 1 .. Len(q),
         NEW h, NEW g, NEW last, Back(h, last, q),
         \A i \in 1 .. Len(q) :
           i # j => g.slot[q[i]].prev = IF h.slot[q[i]].prev = q[j]
                                        THEN h.slot[q[j]].prev ELSE h.slot[q[i]].prev
  PROVE  Back(g, IF last = q[j] THEN h.slot[q[j]].prev ELSE last, Cut(q, j))
<1> DEFINE n == Len(q)
           c == Cut(q, j)
<1>1. /\ n \in Nat /\ j \in 1 .. n /\ Len(c) = n - 1
      /\ \A i \in 1 .. n - 1 : c[i] = IF i < j THEN q[i] ELSE q[i + 1]
  BY ListFacts, CutFacts
<1>2. last = At(q, n) /\ \A i \in 1 .. n : h.slot[q[i]].prev = At(q, i - 1)
  BY DEF Back
<1>3. \A i \in Int : At(q, i) = q[j] <=> i = j
  <2> TAKE i \in Int
  <2>1. At(q, j) = q[j]
    BY <1>1 DEF At
  <2>2. \A x \in Int : \A k \in 1 .. Len(q) : At(q, x) = q[k] => x = k
    BY AtPlaced DEF Placed
  <2> QED BY <1>1, <2>1, <2>2
<1> HIDE DEF c
<1>4. \A i \in Int : i <= n - 1 => At(c, i) = IF i < j THEN At(q, i) ELSE At(q, i + 1)
  <2> TAKE i \in Int
  <2> HAVE i <= n - 1
  <2>1. CASE i \in 1 .. n - 1
    <3>1. i \in 1 .. n /\ i + 1 \in 1 .. n
      BY <1>1, <2>1
    <3> QED BY <1>1, <2>1, <3>1 DEF At
  <2>2. CASE i \notin 1 .. n - 1
    <3>1. i < 1 /\ i < j /\ i \notin 1 .. n
      BY <1>1, <2>2
    <3> QED BY <1>1, <2>2, <3>1 DEF At
  <2> QED BY <2>1, <2>2
<1>5. (IF last = q[j] THEN h.slot[q[j]].prev ELSE last) = At(c, n - 1)
  <2>1. CASE j = n
    <3>1. last = q[j] /\ h.slot[q[j]].prev = At(q, n - 1) /\ n - 1 < j /\ n - 1 \in Int
      BY <1>1, <1>2, <1>3, <2>1
    <3> QED BY <1>1, <1>4, <3>1
  <2>2. CASE j # n
    <3>1. last # q[j] /\ ~(n - 1 < j) /\ n - 1 \in Int /\ (n - 1) + 1 = n
      BY <1>1, <1>2, <1>3, <2>2
    <3> QED BY <1>1, <1>2, <1>4, <3>1
  <2> QED BY <2>1, <2>2
<1>6. ASSUME NEW i \in 1 .. n - 1 PROVE g.slot[c[i]].prev = At(c, i - 1)
  <2>0. i \in 1 .. n /\ i + 1 \in 1 .. n /\ i \in Int /\ i - 1 \in Int /\ i - 1 <= n - 1
    BY <1>1
  <2>1. CASE i < j
    <3>1. i # j /\ i - 1 < j /\ i - 1 # j /\ c[i] = q[i] /\ At(c, i - 1) = At(q, i - 1)
      BY <1>1, <1>4, <2>0, <2>1
    <3>2. h.slot[q[i]].prev = At(q, i - 1) /\ At(q, i - 1) # q[j]
      BY <1>2, <1>3, <2>0, <3>1
    <3> QED BY <2>0, <3>1, <3>2
  <2>2. CASE i = j
    <3>1. i + 1 # j /\ i - 1 < j /\ c[i] = q[i + 1] /\ At(c, i - 1) = At(q, j - 1)
      BY <1>1, <1>4, <2>0, <2>2
    <3>2. h.slot[q[i + 1]].prev = At(q, (i + 1) - 1) /\ (i + 1) - 1 = j
          /\ h.slot[q[j]].prev = At(q, j - 1) /\ At(q, j) = q[j]
      BY <1>1, <1>2, <1>3, <2>0, <2>2
    <3> QED BY <2>0, <3>1, <3>2
  <2>3. CASE i > j
    <3>1. ~(i < j) /\ ~(i - 1 < j) /\ i + 1 # j /\ (i + 1) - 1 = i /\ i # j /\ (i - 1) + 1 = i
      BY <1>1, <2>0, <2>3
    <3>2. c[i] = q[i + 1] /\ At(c, i - 1) = At(q, i)
      BY <1>1, <1>4, <2>0, <3>1
    <3>3. h.slot[q[i + 1]].prev = At(q, i) /\ At(q, i) # q[j]
      BY <1>2, <1>3, <2>0, <3>1
    <3> QED BY <2>0, <3>1, <3>2, <3>3
  <2> QED BY <1>1, <2>0, <2>1, <2>2, <2>3
<1> QED BY <1>1, <1>5, <1>6 DEF Back, c

LEMMA BackSwap ==
  ASSUME NEW S, S \subseteq Nat, NEW q, ListIn(q, S), NEW s \in S, NEW d \in S, d \notin Ran(q),
         NEW h, NEW g, NEW last, Back(h, last, q),
         \A i \in 1 .. Len(q) :
           q[i] # s => g.slot[q[i]].prev = IF h.slot[q[i]].prev = s THEN d ELSE h.slot[q[i]].prev,
         s \in Ran(q) => g.slot[d].prev = h.slot[s].prev
  PROVE  Back(g, IF last = s THEN d ELSE last, Swap(q, s, d))
<1> DEFINE n == Len(q)
           c == Swap(q, s, d)
<1>1. /\ n \in Nat /\ Len(c) = n /\ Once(q)
      /\ \A i \in 1 .. n : c[i] = IF q[i] = s THEN d ELSE q[i]
  BY ListFacts, SwapFacts DEF ListIn
<1>2. last = At(q, n) /\ \A i \in 1 .. n : h.slot[q[i]].prev = At(q, i - 1)
  BY DEF Back
<1> HIDE DEF c
<1>3. \A i \in Int : At(c, i) = IF At(q, i) = s THEN d ELSE At(q, i)
  <2>1. s # -1
    OBVIOUS
  <2> QED BY <1>1, <2>1 DEF At
<1>4. (IF last = s THEN d ELSE last) = At(c, n)
  BY <1>1, <1>2, <1>3
<1>5. ASSUME NEW i \in 1 .. n PROVE g.slot[c[i]].prev = At(c, i - 1)
  <2>0. i - 1 \in Int
    OBVIOUS
  <2>1. CASE q[i] = s
    <3>1. c[i] = d /\ g.slot[d].prev = h.slot[s].prev /\ h.slot[s].prev = At(q, i - 1)
      BY <1>1, <1>2, <2>1 DEF Ran
    <3>2. At(q, i - 1) # s
      <4>1. \A x \in Int : \A k \in 1 .. Len(q) : At(q, x) = q[k] => x = k
        BY AtPlaced DEF Placed
      <4> QED BY <2>0, <2>1, <4>1
    <3> QED BY <1>3, <2>0, <3>1, <3>2
  <2>2. CASE q[i] # s
    BY <1>1, <1>2, <1>3, <2>0, <2>2
  <2> QED BY <2>1, <2>2
<1> QED BY <1>1, <1>4, <1>5 DEF Back, c

-----------------------------------------------------------------------------
(* The struct, and the slots and buckets it has. *)
SlotType == [key : Int, state : {"free", "lru", "pin"}, data : Int,
             prev : Int, next : Int, hnext : Int]
ListType == [head : Int, tail : Int, n : Int]
Sized(m, nb) ==
  [slot : [0 .. m - 1 -> SlotType], aslot : Nat, nchunk : Nat, n : Int,
   lru : ListType, pin : ListType, freehead : Int, bucket : [0 .. nb - 1 -> Int]]
CacheType == UNION {Sized(m, nb) : m \in Nat, nb \in Nat \ {0}}

NumSlots(h)   == Cardinality(Slots(h))
NumBuckets(h) == Cardinality(DOMAIN h.bucket)

LEMMA SizedFacts ==
  ASSUME NEW m \in Nat, NEW nb \in Nat \ {0}, NEW h \in Sized(m, nb)
  PROVE  /\ h \in CacheType
         /\ NumSlots(h) = m /\ Slots(h) = 0 .. m - 1 /\ h.slot \in [0 .. m - 1 -> SlotType]
         /\ NumBuckets(h) = nb /\ DOMAIN h.bucket = 0 .. nb - 1
         /\ h.bucket \in [0 .. nb - 1 -> Int]
         /\ \A k : BucketOf(h, k) = HashOf[k] % nb
<1>1. /\ h.slot \in [0 .. m - 1 -> SlotType] /\ h.bucket \in [0 .. nb - 1 -> Int]
      /\ Slots(h) = 0 .. m - 1 /\ DOMAIN h.bucket = 0 .. nb - 1
  BY DEF Sized, Slots
<1>2. NumSlots(h) = m /\ Cardinality(DOMAIN h.bucket) = nb
  BY <1>1, IntervalSize DEF NumSlots
<1> QED BY <1>1, <1>2 DEF CacheType, NumBuckets, BucketOf

LEMMA IsSized ==
  ASSUME NEW h \in CacheType
  PROVE  /\ NumSlots(h) \in Nat /\ NumBuckets(h) \in Nat \ {0}
         /\ h \in Sized(NumSlots(h), NumBuckets(h))
<1>1. PICK m \in Nat, nb \in Nat \ {0} : h \in Sized(m, nb)
  BY DEF CacheType
<1>2. NumSlots(h) = m /\ NumBuckets(h) = nb
  BY <1>1, SizedFacts
<1> QED BY <1>1, <1>2

LEMMA SlotsAre ==
  ASSUME NEW h \in CacheType
  PROVE  /\ NumSlots(h) \in Nat /\ Slots(h) = 0 .. NumSlots(h) - 1
         /\ Slots(h) \subseteq Nat /\ h.slot \in [Slots(h) -> SlotType]
<1> DEFINE m == NumSlots(h)
           nb == NumBuckets(h)
<1>1. m \in Nat /\ nb \in Nat \ {0} /\ h \in Sized(m, nb)
  BY IsSized
<1> HIDE DEF m, nb
<1>2. Slots(h) = 0 .. m - 1 /\ h.slot \in [0 .. m - 1 -> SlotType]
  BY <1>1, SizedFacts
<1> QED BY <1>1, <1>2 DEF m

LEMMA BucketsAre ==
  ASSUME NEW h \in CacheType
  PROVE  /\ NumBuckets(h) \in Nat \ {0} /\ DOMAIN h.bucket = 0 .. NumBuckets(h) - 1
         /\ h.bucket \in [DOMAIN h.bucket -> Int]
         /\ \A k \in Blocks : BucketOf(h, k) \in DOMAIN h.bucket
<1> DEFINE m == NumSlots(h)
           nb == NumBuckets(h)
<1>1. m \in Nat /\ nb \in Nat \ {0} /\ h \in Sized(m, nb)
  BY IsSized
<1> HIDE DEF m, nb
<1>2. DOMAIN h.bucket = 0 .. nb - 1 /\ h.bucket \in [0 .. nb - 1 -> Int]
      /\ \A k : BucketOf(h, k) = HashOf[k] % nb
  BY <1>1, SizedFacts
<1>3. \A k \in Blocks : HashOf[k] % nb \in 0 .. nb - 1
  BY <1>1, SlotsAssumption DEF Blocks
<1> QED BY <1>1, <1>2, <1>3 DEF nb

(***************************************************************************)
(* What the struct is to stand for: q is the doubly linked list l ...      *)
(***************************************************************************)
Links(h, l, q) ==
  /\ ListIn(q, Slots(h))
  /\ Leads(h, l.head, "next", q)
  /\ Back(h, l.tail, q)
  /\ l.n = Len(q)

On(h, L) == {s \in Slots(h) : h.slot[s].state = L}

(* ... u and p the two recency lists, ... *)
Recency(h, u, p) ==
  /\ Links(h, h.lru, u) /\ Ran(u) = On(h, "lru")
  /\ Links(h, h.pin, p) /\ Ran(p) = On(h, "pin")
  /\ h.n = Len(u) + Len(p)

(* ... c[b] the chain of bucket b, ... *)
Hashed(h, c) ==
  \A b \in DOMAIN h.bucket :
    /\ ListIn(c[b], Slots(h))
    /\ Leads(h, h.bucket[b], "hnext", c[b])
    /\ Ran(c[b]) = {s \in Live(h) : BucketOf(h, h.slot[s].key) = b}

(* ... and f the free list, of all free slots but `taken`. *)
Freed(h, f, taken) ==
  /\ ListIn(f, Slots(h))
  /\ Leads(h, h.freehead, "hnext", f)
  /\ Ran(f) = On(h, "free") \ taken

(* No two slots hold one block, and each has memory with its bytes. *)
Filled(h) ==
  /\ \A s \in Live(h) : /\ h.slot[s].key \in Blocks
                        /\ h.slot[s].data = h.slot[s].key
                        /\ s < h.nchunk * Chunk
  /\ \A s, t \in Live(h) : h.slot[s].key = h.slot[t].key => s = t

(* The chunks are those the slots need, or no more than the budget's. *)
Chunked(h) ==
  /\ NumSlots(h) <= h.nchunk * Chunk
  /\ h.nchunk <= Keep \/ (h.nchunk - 1) * Chunk < NumSlots(h)

Whole(h, u, p, c) == Recency(h, u, p) /\ Hashed(h, c) /\ Filled(h) /\ Chunked(h)

Good(h) ==
  /\ h \in CacheType
  /\ \E u, p, c, f : Whole(h, u, p, c) /\ Freed(h, f, {})

-----------------------------------------------------------------------------
LEMMA ReverseFacts ==
  ASSUME NEW S, S \subseteq Nat, NEW q, ListIn(q, S), NEW h, NEW last, Back(h, last, q)
  PROVE  ListIn(Reverse(q), S) /\ Leads(h, last, "prev", Reverse(q))
<1> DEFINE n == Len(q)
           r == Reverse(q)
<1>1. n \in Nat /\ (\A i \in 1 .. n : q[i] \in S) /\ Once(q)
  BY ListFacts DEF ListIn
<1>2. \A i \in 1 .. n : n - i + 1 \in 1 .. n
  BY <1>1
<1>3. r = [i \in 1 .. n |-> q[n - i + 1]]
  BY DEF Reverse
<1> HIDE DEF r
<1>4. r \in [1 .. n -> S]
  BY <1>1, <1>2, <1>3
<1>5. r \in Seq(S) /\ Len(r) = n
  BY <1>1, <1>4, MadeSeq
<1>6. \A i \in 1 .. n : r[i] = q[n - i + 1]
  BY <1>3
<1>7. Once(r)
  <2> SUFFICES ASSUME NEW i \in 1 .. n, NEW j \in 1 .. n, r[i] = r[j] PROVE i = j
    BY <1>5 DEF Once
  <2>1. q[n - i + 1] = q[n - j + 1] /\ n - i + 1 \in 1 .. n /\ n - j + 1 \in 1 .. n
    BY <1>2, <1>6
  <2>2. n - i + 1 = n - j + 1
    BY <1>1, <2>1 DEF Once
  <2> QED BY <1>1, <2>2
<1>8. \A i \in Int : At(r, i) = At(q, n - i + 1)
  <2> TAKE i \in Int
  <2>1. i \in 1 .. n <=> n - i + 1 \in 1 .. n
    BY <1>1
  <2> QED BY <1>5, <1>6, <2>1 DEF At
<1>9. last = At(r, 1)
  <2>1. At(r, 1) = At(q, n - 1 + 1) /\ n - 1 + 1 = n
    BY <1>1, <1>8
  <2> QED BY <2>1 DEF Back
<1>10. ASSUME NEW i \in 1 .. n PROVE h.slot[r[i]].prev = At(r, i + 1)
  <2> DEFINE k == n - i + 1
  <2>1. k \in 1 .. n /\ r[i] = q[k]
    BY <1>2, <1>6
  <2>2. At(r, i + 1) = At(q, n - (i + 1) + 1) /\ n - (i + 1) + 1 = k - 1
    BY <1>1, <1>8
  <2> QED BY <2>1, <2>2 DEF Back
<1> QED BY <1>5, <1>7, <1>9, <1>10 DEF Leads, ListIn, r

LEMMA LinksAlong ==
  ASSUME NEW h \in CacheType, NEW l, NEW q, Links(h, l, q)
  PROVE  Along(h, l.head, "next") = q /\ Along(h, l.tail, "prev") = Reverse(q)
<1>1. NumSlots(h) \in Nat /\ Slots(h) = 0 .. NumSlots(h) - 1 /\ Slots(h) \subseteq Nat
  BY SlotsAre
<1>2. ListIn(q, Slots(h)) /\ Leads(h, l.head, "next", q) /\ Back(h, l.tail, q)
  BY DEF Links
<1>3. ListIn(Reverse(q), Slots(h)) /\ Leads(h, l.tail, "prev", Reverse(q))
  BY <1>1, <1>2, ReverseFacts
<1> QED BY <1>1, <1>2, <1>3, AlongIs

LEMMA ChainAlong ==
  ASSUME NEW h \in CacheType, NEW c, Hashed(h, c), NEW b \in DOMAIN h.bucket
  PROVE  Chain(h, b) = c[b]
BY SlotsAre, AlongIs DEF Hashed, Chain

LEMMA FreeAlong ==
  ASSUME NEW h \in CacheType, NEW f, NEW taken, Freed(h, f, taken)
  PROVE  FreeList(h) = f
BY SlotsAre, AlongIs DEF Freed, FreeList

LEMMA OnceInjective ==
  ASSUME NEW S, NEW q, ListIn(q, S)
  PROVE  IsInjective(q) /\ ToSet(q) = Ran(q)
BY ListFacts DEF ListIn, Once, IsInjective, ToSet, Ran

(* The invariants of a good struct. *)
LEMMA GoodIsRight == Good(hv) => ListsWhole /\ ChainsExact /\ BytesOfBlock
<1> SUFFICES ASSUME Good(hv) PROVE ListsWhole /\ ChainsExact /\ BytesOfBlock
  OBVIOUS
<1>0. hv \in CacheType
  BY DEF Good
<1>1. PICK u, p, c, f : Whole(hv, u, p, c) /\ Freed(hv, f, {})
  BY DEF Good
<1>2. /\ Links(hv, hv.lru, u) /\ Ran(u) = On(hv, "lru")
      /\ Links(hv, hv.pin, p) /\ Ran(p) = On(hv, "pin") /\ hv.n = Len(u) + Len(p)
  BY <1>1 DEF Whole, Recency
<1>3. /\ ListOf(hv, "lru") = u /\ Along(hv, hv.lru.tail, "prev") = Reverse(u)
      /\ ListOf(hv, "pin") = p /\ Along(hv, hv.pin.tail, "prev") = Reverse(p)
  BY <1>0, <1>2, LinksAlong DEF ListOf
<1>4. ListIn(u, Slots(hv)) /\ ListIn(p, Slots(hv)) /\ hv.lru.n = Len(u) /\ hv.pin.n = Len(p)
  BY <1>2 DEF Links
<1>5. ListIn(f, Slots(hv)) /\ Ran(f) = On(hv, "free") /\ FreeList(hv) = f
  BY <1>0, <1>1, FreeAlong DEF Freed
<1>6. On(hv, "free") = Slots(hv) \ Live(hv)
  BY DEF On, Live
<1>7. IsInjective(u) /\ ToSet(u) = Ran(u) /\ IsInjective(p) /\ ToSet(p) = Ran(p)
      /\ IsInjective(f) /\ ToSet(f) = Ran(f)
  BY <1>4, <1>5, OnceInjective
<1>8. ListsWhole
  <2>1. ASSUME NEW L \in {"lru", "pin"}
        PROVE /\ ToSet(ListOf(hv, L)) = {s \in Slots(hv) : hv.slot[s].state = L}
              /\ Along(hv, hv[L].tail, "prev") = Reverse(ListOf(hv, L))
              /\ hv[L].n = Len(ListOf(hv, L))
              /\ IsInjective(ListOf(hv, L))
    <3>1. CASE L = "lru"
      BY <1>2, <1>3, <1>4, <1>7, <3>1 DEF On
    <3>2. CASE L = "pin"
      BY <1>2, <1>3, <1>4, <1>7, <3>2 DEF On
    <3> QED BY <3>1, <3>2
  <2>2. hv.n = hv.lru.n + hv.pin.n
    BY <1>2, <1>4
  <2> QED BY <1>5, <1>6, <1>7, <2>1, <2>2 DEF ListsWhole
<1>9. ChainsExact
  <2> SUFFICES ASSUME NEW b \in DOMAIN hv.bucket
               PROVE  /\ ToSet(Chain(hv, b)) = {s \in Live(hv) : BucketOf(hv, hv.slot[s].key) = b}
                      /\ IsInjective(Chain(hv, b))
    BY DEF ChainsExact
  <2>1. Hashed(hv, c)
    BY <1>1 DEF Whole
  <2>2. Chain(hv, b) = c[b]
    BY <1>0, <2>1, ChainAlong
  <2>3. ListIn(c[b], Slots(hv)) /\ Ran(c[b]) = {s \in Live(hv) : BucketOf(hv, hv.slot[s].key) = b}
    BY <2>1 DEF Hashed
  <2> QED BY <2>2, <2>3, OnceInjective
<1>10. BytesOfBlock
  BY <1>1 DEF Whole, Filled, BytesOfBlock
<1> QED BY <1>8, <1>9, <1>10

-----------------------------------------------------------------------------
(* One field of the struct is set. *)
LEMMA SetSlot ==
  ASSUME NEW m \in Nat, NEW nb \in Nat \ {0}, NEW h \in Sized(m, nb),
         NEW sl \in [0 .. m - 1 -> SlotType]
  PROVE  LET g == [h EXCEPT !.slot = sl]
         IN  /\ g \in Sized(m, nb) /\ g.slot = sl
             /\ g.lru = h.lru /\ g.pin = h.pin
             /\ g.bucket = h.bucket /\ g.freehead = h.freehead /\ g.nchunk = h.nchunk
             /\ g.aslot = h.aslot /\ g.n = h.n
BY DEF Sized

LEMMA SetLru ==
  ASSUME NEW m \in Nat, NEW nb \in Nat \ {0}, NEW h \in Sized(m, nb), NEW l \in ListType
  PROVE  LET g == [h EXCEPT !.lru = l]
         IN  /\ g \in Sized(m, nb) /\ g.slot = h.slot
             /\ g.lru = l /\ g.pin = h.pin
             /\ g.bucket = h.bucket /\ g.freehead = h.freehead /\ g.nchunk = h.nchunk
             /\ g.aslot = h.aslot /\ g.n = h.n
BY DEF Sized

LEMMA SetPin ==
  ASSUME NEW m \in Nat, NEW nb \in Nat \ {0}, NEW h \in Sized(m, nb), NEW l \in ListType
  PROVE  LET g == [h EXCEPT !.pin = l]
         IN  /\ g \in Sized(m, nb) /\ g.slot = h.slot
             /\ g.lru = h.lru /\ g.pin = l
             /\ g.bucket = h.bucket /\ g.freehead = h.freehead /\ g.nchunk = h.nchunk
             /\ g.aslot = h.aslot /\ g.n = h.n
BY DEF Sized

(* One field of one list is set. *)
LEMMA NestedLists ==
  ASSUME NEW m \in Nat, NEW nb \in Nat \ {0}, NEW h \in Sized(m, nb), NEW x,
         NEW L \in {"lru", "pin"}
  PROVE  /\ L = "lru" => /\ [h EXCEPT ![L].head = x] = [h EXCEPT !.lru = [h.lru EXCEPT !.head = x]]
                         /\ [h EXCEPT ![L].tail = x] = [h EXCEPT !.lru = [h.lru EXCEPT !.tail = x]]
         /\ L = "pin" => /\ [h EXCEPT ![L].head = x] = [h EXCEPT !.pin = [h.pin EXCEPT !.head = x]]
                         /\ [h EXCEPT ![L].tail = x] = [h EXCEPT !.pin = [h.pin EXCEPT !.tail = x]]
<1>1. CASE L = "lru"
  BY <1>1 DEF Sized
<1>2. CASE L = "pin"
  BY <1>2 DEF Sized
<1> QED BY <1>1, <1>2

(* One field of a slot is set. *)
LEMMA SetNext ==
  ASSUME NEW m \in Nat, NEW f \in [0 .. m - 1 -> SlotType], NEW p \in 0 .. m - 1, NEW x \in Int
  PROVE  LET g == [f EXCEPT ![p].next = x]
         IN  /\ g \in [0 .. m - 1 -> SlotType]
             /\ \A y \in 0 .. m - 1 :
                  /\ g[y].key = f[y].key /\ g[y].state = f[y].state /\ g[y].data = f[y].data
                  /\ g[y].prev = f[y].prev /\ g[y].hnext = f[y].hnext
                  /\ g[y].next = IF y = p THEN x ELSE f[y].next
BY DEF SlotType

SetsPrev(g, f, m, p, x) ==
  /\ g \in [0 .. m - 1 -> SlotType]
  /\ \A y \in 0 .. m - 1 :
       /\ g[y].key = f[y].key /\ g[y].state = f[y].state /\ g[y].data = f[y].data
       /\ g[y].next = f[y].next /\ g[y].hnext = f[y].hnext
       /\ g[y].prev = IF y = p THEN x ELSE f[y].prev

LEMMA SetPrev ==
  ASSUME NEW m \in Nat, NEW f \in [0 .. m - 1 -> SlotType], NEW p \in 0 .. m - 1, NEW x \in Int,
         NEW g, g = [f EXCEPT ![p].prev = x]
  PROVE  SetsPrev(g, f, m, p, x)
BY DEF SetsPrev, SlotType

(* Only links of the recency lists differ. *)
HashKept(h, g) ==
  /\ \A y \in Slots(h) : /\ g.slot[y].key = h.slot[y].key /\ g.slot[y].data = h.slot[y].data
                         /\ g.slot[y].hnext = h.slot[y].hnext
  /\ g.bucket = h.bucket /\ g.freehead = h.freehead /\ g.nchunk = h.nchunk
  /\ g.aslot = h.aslot /\ g.n = h.n

StateKept(h, g) == \A y \in Slots(h) : g.slot[y].state = h.slot[y].state

(* LinkBefore, LinkAfter and hvListUnlink, field by field: p comes before, x after. *)
LinkedBefore(h, g, L, p, x) ==
  /\ HashKept(h, g) /\ StateKept(h, g)
  /\ \A y \in Slots(h) : /\ g.slot[y].next = IF y = p THEN x ELSE h.slot[y].next
                         /\ g.slot[y].prev = h.slot[y].prev
  /\ g.lru.head = IF L = "lru" /\ p < 0 THEN x ELSE h.lru.head
  /\ g.pin.head = IF L = "pin" /\ p < 0 THEN x ELSE h.pin.head
  /\ g.lru.tail = h.lru.tail /\ g.lru.n = h.lru.n
  /\ g.pin.tail = h.pin.tail /\ g.pin.n = h.pin.n

LinkedAfter(h, g, L, p, x) ==
  /\ HashKept(h, g) /\ StateKept(h, g)
  /\ \A y \in Slots(h) : /\ g.slot[y].prev = IF y = x THEN p ELSE h.slot[y].prev
                         /\ g.slot[y].next = h.slot[y].next
  /\ g.lru.tail = IF L = "lru" /\ x < 0 THEN p ELSE h.lru.tail
  /\ g.pin.tail = IF L = "pin" /\ x < 0 THEN p ELSE h.pin.tail
  /\ g.lru.head = h.lru.head /\ g.lru.n = h.lru.n
  /\ g.pin.head = h.pin.head /\ g.pin.n = h.pin.n

Unlinked(h, g, L, p, x) ==
  /\ HashKept(h, g) /\ StateKept(h, g)
  /\ \A y \in Slots(h) : /\ g.slot[y].next = IF y = p THEN x ELSE h.slot[y].next
                         /\ g.slot[y].prev = IF y = x THEN p ELSE h.slot[y].prev
  /\ g.lru.head = IF L = "lru" /\ p < 0 THEN x ELSE h.lru.head
  /\ g.pin.head = IF L = "pin" /\ p < 0 THEN x ELSE h.pin.head
  /\ g.lru.tail = IF L = "lru" /\ x < 0 THEN p ELSE h.lru.tail
  /\ g.pin.tail = IF L = "pin" /\ x < 0 THEN p ELSE h.pin.tail
  /\ g.lru.n = IF L = "lru" THEN h.lru.n - 1 ELSE h.lru.n
  /\ g.pin.n = IF L = "pin" THEN h.pin.n - 1 ELSE h.pin.n

LEMMA LinkBeforeFacts ==
  ASSUME NEW m \in Nat, NEW nb \in Nat \ {0}, NEW h \in Sized(m, nb),
         NEW L \in {"lru", "pin"}, NEW p \in -1 .. m - 1, NEW x \in -1 .. m - 1
  PROVE  LinkBefore(h, L, p, x) \in Sized(m, nb) /\ LinkedBefore(h, LinkBefore(h, L, p, x), L, p, x)
<1> DEFINE g == LinkBefore(h, L, p, x)
<1>1. h.slot \in [0 .. m - 1 -> SlotType] /\ Slots(h) = 0 .. m - 1 /\ x \in Int
      /\ h.lru \in ListType /\ h.pin \in ListType
  <2>1. h.slot \in [0 .. m - 1 -> SlotType] /\ Slots(h) = 0 .. m - 1
    BY SizedFacts
  <2>2. h.lru \in ListType /\ h.pin \in ListType
    BY DEF Sized
  <2> QED BY <2>1, <2>2
<1>2. CASE p >= 0
  <2> DEFINE sl == [h.slot EXCEPT ![p].next = x]
  <2>1. p \in 0 .. m - 1
    BY <1>2
  <2>2. g = [h EXCEPT !.slot = sl]
    BY <1>2, <2>1 DEF LinkBefore, Sized
  <2>3. /\ sl \in [0 .. m - 1 -> SlotType]
        /\ \A y \in 0 .. m - 1 :
             /\ sl[y].key = h.slot[y].key /\ sl[y].state = h.slot[y].state
             /\ sl[y].data = h.slot[y].data
             /\ sl[y].prev = h.slot[y].prev /\ sl[y].hnext = h.slot[y].hnext
             /\ sl[y].next = IF y = p THEN x ELSE h.slot[y].next
    BY <1>1, <2>1, SetNext
  <2> HIDE DEF sl, g
  <2>4. /\ g \in Sized(m, nb) /\ g.slot = sl
        /\ g.lru = h.lru /\ g.pin = h.pin
        /\ g.bucket = h.bucket /\ g.freehead = h.freehead /\ g.nchunk = h.nchunk
        /\ g.aslot = h.aslot /\ g.n = h.n
    BY <2>2, <2>3, SetSlot
  <2>5. ~(p < 0)
    BY <1>2
  <2>6. HashKept(h, g) /\ StateKept(h, g)
    BY <1>1, <2>3, <2>4 DEF HashKept, StateKept
  <2> QED BY <1>1, <2>3, <2>4, <2>5, <2>6 DEF g, LinkedBefore
<1>3. ASSUME p < 0, L = "lru" PROVE g = [h EXCEPT !.lru = [h.lru EXCEPT !.head = x]]
  <2>1. g = [h EXCEPT ![L].head = x]
    BY <1>3 DEF LinkBefore
  <2> HIDE DEF g
  <2> QED BY <1>3, <2>1, NestedLists
<1>4. ASSUME p < 0, L = "pin" PROVE g = [h EXCEPT !.pin = [h.pin EXCEPT !.head = x]]
  <2>1. g = [h EXCEPT ![L].head = x]
    BY <1>4 DEF LinkBefore
  <2> HIDE DEF g
  <2> QED BY <1>4, <2>1, NestedLists
<1>5. CASE p < 0
  <2>1. p \notin 0 .. m - 1
    BY <1>5
  <2>2. CASE L = "lru"
    <3> DEFINE l == [h.lru EXCEPT !.head = x]
    <3>1. l \in ListType /\ l.head = x /\ l.tail = h.lru.tail /\ l.n = h.lru.n
      BY <1>1 DEF ListType
    <3>2. g = [h EXCEPT !.lru = l]
      BY <1>3, <1>5, <2>2
    <3> HIDE DEF l, g
    <3>3. /\ g \in Sized(m, nb) /\ g.slot = h.slot
          /\ g.lru = l /\ g.pin = h.pin
          /\ g.bucket = h.bucket /\ g.freehead = h.freehead /\ g.nchunk = h.nchunk
          /\ g.aslot = h.aslot /\ g.n = h.n
      BY <3>1, <3>2, SetLru
    <3>4. HashKept(h, g) /\ StateKept(h, g)
      BY <3>3 DEF HashKept, StateKept
    <3> QED BY <1>1, <1>5, <2>1, <2>2, <3>1, <3>3, <3>4 DEF g, LinkedBefore
  <2>3. CASE L = "pin"
    <3> DEFINE l == [h.pin EXCEPT !.head = x]
    <3>1. l \in ListType /\ l.head = x /\ l.tail = h.pin.tail /\ l.n = h.pin.n
      BY <1>1 DEF ListType
    <3>2. g = [h EXCEPT !.pin = l]
      BY <1>4, <1>5, <2>3
    <3> HIDE DEF l, g
    <3>3. /\ g \in Sized(m, nb) /\ g.slot = h.slot
          /\ g.lru = h.lru /\ g.pin = l
          /\ g.bucket = h.bucket /\ g.freehead = h.freehead /\ g.nchunk = h.nchunk
          /\ g.aslot = h.aslot /\ g.n = h.n
      BY <3>1, <3>2, SetPin
    <3>4. HashKept(h, g) /\ StateKept(h, g)
      BY <3>3 DEF HashKept, StateKept
    <3> QED BY <1>1, <1>5, <2>1, <2>3, <3>1, <3>3, <3>4 DEF g, LinkedBefore
  <2> QED BY <2>2, <2>3
<1> QED BY <1>2, <1>5

LEMMA LinkAfterFacts ==
  ASSUME NEW m \in Nat, NEW nb \in Nat \ {0}, NEW h \in Sized(m, nb),
         NEW L \in {"lru", "pin"}, NEW p \in -1 .. m - 1, NEW x \in -1 .. m - 1
  PROVE  LinkAfter(h, L, x, p) \in Sized(m, nb) /\ LinkedAfter(h, LinkAfter(h, L, x, p), L, p, x)
<1> DEFINE g == LinkAfter(h, L, x, p)
<1>1. h.slot \in [0 .. m - 1 -> SlotType] /\ Slots(h) = 0 .. m - 1 /\ p \in Int
      /\ h.lru \in ListType /\ h.pin \in ListType
  <2>1. h.slot \in [0 .. m - 1 -> SlotType] /\ Slots(h) = 0 .. m - 1
    BY SizedFacts
  <2>2. h.lru \in ListType /\ h.pin \in ListType
    BY DEF Sized
  <2> QED BY <2>1, <2>2
<1>2. CASE x >= 0
  <2> DEFINE sl == [h.slot EXCEPT ![x].prev = p]
  <2>1. x \in 0 .. m - 1
    BY <1>2
  <2>2. g = [h EXCEPT !.slot = sl]
    BY <1>2, <2>1 DEF LinkAfter, Sized
  <2>3. /\ sl \in [0 .. m - 1 -> SlotType]
        /\ \A y \in 0 .. m - 1 :
             /\ sl[y].key = h.slot[y].key /\ sl[y].state = h.slot[y].state
             /\ sl[y].data = h.slot[y].data
             /\ sl[y].next = h.slot[y].next /\ sl[y].hnext = h.slot[y].hnext
             /\ sl[y].prev = IF y = x THEN p ELSE h.slot[y].prev
    <3>1. sl = [h.slot EXCEPT ![x].prev = p]
      OBVIOUS
    <3> HIDE DEF sl
    <3>2. SetsPrev(sl, h.slot, m, x, p)
      BY <1>1, <2>1, <3>1, SetPrev
    <3> QED BY <3>2 DEF SetsPrev
  <2> HIDE DEF sl, g
  <2>4. /\ g \in Sized(m, nb) /\ g.slot = sl
        /\ g.lru = h.lru /\ g.pin = h.pin
        /\ g.bucket = h.bucket /\ g.freehead = h.freehead /\ g.nchunk = h.nchunk
        /\ g.aslot = h.aslot /\ g.n = h.n
    BY <2>2, <2>3, SetSlot
  <2>5. ~(x < 0)
    BY <1>2
  <2>6. HashKept(h, g) /\ StateKept(h, g)
    BY <1>1, <2>3, <2>4 DEF HashKept, StateKept
  <2> QED BY <1>1, <2>3, <2>4, <2>5, <2>6 DEF g, LinkedAfter
<1>3. ASSUME x < 0, L = "lru" PROVE g = [h EXCEPT !.lru = [h.lru EXCEPT !.tail = p]]
  <2>1. g = [h EXCEPT ![L].tail = p]
    BY <1>3 DEF LinkAfter
  <2> HIDE DEF g
  <2> QED BY <1>3, <2>1, NestedLists
<1>4. ASSUME x < 0, L = "pin" PROVE g = [h EXCEPT !.pin = [h.pin EXCEPT !.tail = p]]
  <2>1. g = [h EXCEPT ![L].tail = p]
    BY <1>4 DEF LinkAfter
  <2> HIDE DEF g
  <2> QED BY <1>4, <2>1, NestedLists
<1>5. CASE x < 0
  <2>1. x \notin 0 .. m - 1
    BY <1>5
  <2>2. CASE L = "lru"
    <3> DEFINE l == [h.lru EXCEPT !.tail = p]
    <3>1. l \in ListType /\ l.tail = p /\ l.head = h.lru.head /\ l.n = h.lru.n
      BY <1>1 DEF ListType
    <3>2. g = [h EXCEPT !.lru = l]
      BY <1>3, <1>5, <2>2
    <3> HIDE DEF l, g
    <3>3. /\ g \in Sized(m, nb) /\ g.slot = h.slot
          /\ g.lru = l /\ g.pin = h.pin
          /\ g.bucket = h.bucket /\ g.freehead = h.freehead /\ g.nchunk = h.nchunk
          /\ g.aslot = h.aslot /\ g.n = h.n
      BY <3>1, <3>2, SetLru
    <3>4. HashKept(h, g) /\ StateKept(h, g)
      BY <3>3 DEF HashKept, StateKept
    <3> QED BY <1>1, <1>5, <2>1, <2>2, <3>1, <3>3, <3>4 DEF g, LinkedAfter
  <2>3. CASE L = "pin"
    <3> DEFINE l == [h.pin EXCEPT !.tail = p]
    <3>1. l \in ListType /\ l.tail = p /\ l.head = h.pin.head /\ l.n = h.pin.n
      BY <1>1 DEF ListType
    <3>2. g = [h EXCEPT !.pin = l]
      BY <1>4, <1>5, <2>3
    <3> HIDE DEF l, g
    <3>3. /\ g \in Sized(m, nb) /\ g.slot = h.slot
          /\ g.lru = h.lru /\ g.pin = l
          /\ g.bucket = h.bucket /\ g.freehead = h.freehead /\ g.nchunk = h.nchunk
          /\ g.aslot = h.aslot /\ g.n = h.n
      BY <3>1, <3>2, SetPin
    <3>4. HashKept(h, g) /\ StateKept(h, g)
      BY <3>3 DEF HashKept, StateKept
    <3> QED BY <1>1, <1>5, <2>1, <2>3, <3>1, <3>3, <3>4 DEF g, LinkedAfter
  <2> QED BY <2>2, <2>3
<1> QED BY <1>2, <1>5

LEMMA UnlinkFacts ==
  ASSUME NEW m \in Nat, NEW nb \in Nat \ {0}, NEW h \in Sized(m, nb),
         NEW s \in 0 .. m - 1, NEW L \in {"lru", "pin"}, h.slot[s].state = L,
         NEW p \in -1 .. m - 1, h.slot[s].prev = p,
         NEW x \in -1 .. m - 1, h.slot[s].next = x
  PROVE  Unlink(h, s) \in Sized(m, nb) /\ Unlinked(h, Unlink(h, s), L, p, x)
<1> DEFINE g1 == LinkBefore(h, L, p, x)
           g2 == LinkAfter(g1, L, x, p)
           g == [g2 EXCEPT ![L].n = @ - 1]
<1>1. Unlink(h, s) = g
  BY DEF Unlink
<1>2. Slots(h) = 0 .. m - 1
  BY SizedFacts
<1>3. /\ g1 \in Sized(m, nb) /\ HashKept(h, g1) /\ StateKept(h, g1)
      /\ \A y \in 0 .. m - 1 : /\ g1.slot[y].next = IF y = p THEN x ELSE h.slot[y].next
                               /\ g1.slot[y].prev = h.slot[y].prev
      /\ g1.lru.head = IF L = "lru" /\ p < 0 THEN x ELSE h.lru.head
      /\ g1.pin.head = IF L = "pin" /\ p < 0 THEN x ELSE h.pin.head
      /\ g1.lru.tail = h.lru.tail /\ g1.lru.n = h.lru.n
      /\ g1.pin.tail = h.pin.tail /\ g1.pin.n = h.pin.n
  <2>1. g1 \in Sized(m, nb) /\ LinkedBefore(h, g1, L, p, x)
    BY LinkBeforeFacts
  <2> HIDE DEF g1
  <2> QED BY <1>2, <2>1 DEF LinkedBefore
<1> HIDE DEF g1
<1>4. /\ g2 \in Sized(m, nb) /\ HashKept(g1, g2) /\ StateKept(g1, g2)
      /\ \A y \in 0 .. m - 1 : /\ g2.slot[y].prev = IF y = x THEN p ELSE g1.slot[y].prev
                               /\ g2.slot[y].next = g1.slot[y].next
      /\ g2.lru.tail = IF L = "lru" /\ x < 0 THEN p ELSE g1.lru.tail
      /\ g2.pin.tail = IF L = "pin" /\ x < 0 THEN p ELSE g1.pin.tail
      /\ g2.lru.head = g1.lru.head /\ g2.lru.n = g1.lru.n
      /\ g2.pin.head = g1.pin.head /\ g2.pin.n = g1.pin.n
  <2>1. g2 \in Sized(m, nb) /\ LinkedAfter(g1, g2, L, p, x)
    BY <1>3, LinkAfterFacts
  <2> HIDE DEF g2
  <2>2. Slots(g1) = 0 .. m - 1
    BY <1>3, SizedFacts
  <2> QED BY <2>1, <2>2 DEF LinkedAfter
<1> HIDE DEF g2
<1>5. Slots(g1) = 0 .. m - 1 /\ Slots(g2) = 0 .. m - 1
  BY <1>3, <1>4, SizedFacts
<1>6. HashKept(h, g2) /\ StateKept(h, g2)
  BY <1>2, <1>3, <1>4, <1>5 DEF HashKept, StateKept
<1>7. g2.lru \in ListType /\ g2.pin \in ListType
  BY <1>4 DEF Sized
<1>8. /\ g \in Sized(m, nb) /\ g.slot = g2.slot
      /\ g.bucket = g2.bucket /\ g.freehead = g2.freehead /\ g.nchunk = g2.nchunk
      /\ g.aslot = g2.aslot /\ g.n = g2.n
      /\ g.lru.head = g2.lru.head /\ g.lru.tail = g2.lru.tail
      /\ g.pin.head = g2.pin.head /\ g.pin.tail = g2.pin.tail
      /\ g.lru.n = IF L = "lru" THEN g2.lru.n - 1 ELSE g2.lru.n
      /\ g.pin.n = IF L = "pin" THEN g2.pin.n - 1 ELSE g2.pin.n
  <2>1. CASE L = "lru"
    <3> DEFINE l == [g2.lru EXCEPT !.n = @ - 1]
    <3>1. l \in ListType /\ l.head = g2.lru.head /\ l.tail = g2.lru.tail /\ l.n = g2.lru.n - 1
      BY <1>7 DEF ListType
    <3>2. g = [g2 EXCEPT !.lru = l]
      BY <1>4, <2>1 DEF Sized
    <3> HIDE DEF l, g
    <3>3. /\ g \in Sized(m, nb) /\ g.slot = g2.slot /\ g.lru = l /\ g.pin = g2.pin
          /\ g.bucket = g2.bucket /\ g.freehead = g2.freehead /\ g.nchunk = g2.nchunk
          /\ g.aslot = g2.aslot /\ g.n = g2.n
      BY <1>4, <3>1, <3>2, SetLru
    <3> QED BY <2>1, <3>1, <3>3
  <2>2. CASE L = "pin"
    <3> DEFINE l == [g2.pin EXCEPT !.n = @ - 1]
    <3>1. l \in ListType /\ l.head = g2.pin.head /\ l.tail = g2.pin.tail /\ l.n = g2.pin.n - 1
      BY <1>7 DEF ListType
    <3>2. g = [g2 EXCEPT !.pin = l]
      BY <1>4, <2>2 DEF Sized
    <3> HIDE DEF l, g
    <3>3. /\ g \in Sized(m, nb) /\ g.slot = g2.slot /\ g.lru = g2.lru /\ g.pin = l
          /\ g.bucket = g2.bucket /\ g.freehead = g2.freehead /\ g.nchunk = g2.nchunk
          /\ g.aslot = g2.aslot /\ g.n = g2.n
      BY <1>4, <3>1, <3>2, SetPin
    <3> QED BY <2>2, <3>1, <3>3
  <2> QED BY <2>1, <2>2
<1> HIDE DEF g
<1>9. HashKept(h, g) /\ StateKept(h, g)
  BY <1>6, <1>8 DEF HashKept, StateKept
<1> QED BY <1>1, <1>2, <1>3, <1>4, <1>8, <1>9 DEF Unlinked

-----------------------------------------------------------------------------
(* A list without slot s. *)
Less(q, s) == IF s \in Ran(q) THEN Cut(q, CHOOSE j \in 1 .. Len(q) : q[j] = s) ELSE q

LEMMA LessFacts ==
  ASSUME NEW S, NEW q, ListIn(q, S), NEW s
  PROVE  /\ ListIn(Less(q, s), S) /\ Ran(Less(q, s)) = Ran(q) \ {s}
         /\ Len(Less(q, s)) = IF s \in Ran(q) THEN Len(q) - 1 ELSE Len(q)
         /\ \A j \in 1 .. Len(q) : q[j] = s => Less(q, s) = Cut(q, j)
<1>1. CASE s \notin Ran(q)
  BY <1>1 DEF Less, Ran
<1>2. CASE s \in Ran(q)
  <2> DEFINE j == CHOOSE j \in 1 .. Len(q) : q[j] = s
  <2>1. j \in 1 .. Len(q) /\ q[j] = s
    BY <1>2 DEF Ran
  <2>2. Less(q, s) = Cut(q, j)
    BY <1>2 DEF Less
  <2> HIDE DEF j
  <2>3. \A i \in 1 .. Len(q) : q[i] = s => i = j
    BY <2>1 DEF ListIn, Once
  <2> QED BY <1>2, <2>1, <2>2, <2>3, CutFacts
<1> QED BY <1>1, <1>2

(* The two recency lists. *)
Listed(h, u, p) ==
  Links(h, h.lru, u) /\ Links(h, h.pin, p) /\ Ran(u) \cap Ran(p) = {}

LEMMA LinksKept ==
  ASSUME NEW h, NEW g, NEW l, NEW k, NEW q, Links(h, l, q), Slots(g) = Slots(h),
         k.head = l.head, k.tail = l.tail, k.n = l.n,
         \A y \in Ran(q) : g.slot[y].next = h.slot[y].next /\ g.slot[y].prev = h.slot[y].prev
  PROVE  Links(g, k, q)
<1>1. \A i \in 1 .. Len(q) : q[i] \in Ran(q)
  BY DEF Ran
<1>2. Leads(g, l.head, "next", q)
  BY <1>1, LeadsKept DEF Links
<1>3. Back(g, l.tail, q)
  BY <1>1, BackKept DEF Links
<1> QED BY <1>2, <1>3 DEF Links

LEMMA LinksCut ==
  ASSUME NEW h, NEW g, NEW l, NEW k, NEW q, Links(h, l, q), Slots(g) = Slots(h), Slots(h) \subseteq Nat,
         NEW j \in 1 .. Len(q), NEW s, s = q[j],
         NEW p, h.slot[s].prev = p, NEW x, h.slot[s].next = x,
         \A y \in Ran(q) : /\ g.slot[y].next = IF y = p THEN x ELSE h.slot[y].next
                           /\ g.slot[y].prev = IF y = x THEN p ELSE h.slot[y].prev,
         k.head = IF p < 0 THEN x ELSE l.head, k.tail = IF x < 0 THEN p ELSE l.tail,
         k.n = l.n - 1
  PROVE  Links(g, k, Cut(q, j))
<1> DEFINE n == Len(q)
           S == Slots(h)
<1>1. /\ ListIn(q, S) /\ Leads(h, l.head, "next", q) /\ Back(h, l.tail, q) /\ l.n = n
      /\ n \in Nat /\ \A i \in 1 .. n : q[i] \in Nat /\ q[i] \in Ran(q)
  BY ListFacts DEF Links, Ran
<1>2. \A i \in Int : \A z \in 1 .. n : At(q, i) = q[z] <=> i = z
  <2>1. Placed(q)
    BY <1>1, AtPlaced
  <2>2. \A z \in 1 .. n : At(q, z) = q[z]
    BY DEF At
  <2> QED BY <2>1, <2>2 DEF Placed
<1>3. /\ l.head = At(q, 1) /\ \A i \in 1 .. n : h.slot[q[i]].next = At(q, i + 1)
      /\ l.tail = At(q, n) /\ \A i \in 1 .. n : h.slot[q[i]].prev = At(q, i - 1)
  BY <1>1 DEF Leads, Back
<1>4. p = At(q, j - 1) /\ x = At(q, j + 1) /\ j - 1 \in Int /\ j + 1 \in Int
  BY <1>3
<1>5. \A i \in 1 .. n : (q[i] = p <=> h.slot[q[i]].next = s) /\ (q[i] = x <=> h.slot[q[i]].prev = s)
  <2> TAKE i \in 1 .. n
  <2>1. q[i] = p <=> j - 1 = i
    BY <1>2, <1>4
  <2>2. h.slot[q[i]].next = s <=> i + 1 = j
    <3>1. i + 1 \in Int
      OBVIOUS
    <3> QED BY <1>2, <1>3, <3>1
  <2>3. q[i] = x <=> j + 1 = i
    BY <1>2, <1>4
  <2>4. h.slot[q[i]].prev = s <=> i - 1 = j
    <3>1. i - 1 \in Int
      OBVIOUS
    <3> QED BY <1>2, <1>3, <3>1
  <2> QED BY <2>1, <2>2, <2>3, <2>4
<1>6. (p < 0 <=> l.head = s) /\ (x < 0 <=> l.tail = s)
  <2>1. p < 0 <=> j = 1
    <3>1. CASE j = 1
      BY <1>4, <3>1 DEF At
    <3>2. CASE j # 1
      <4>1. j - 1 \in 1 .. n
        BY <1>1, <3>2
      <4>2. p \in Nat
        BY <1>1, <1>4, <4>1 DEF At
      <4> QED BY <3>2, <4>2
    <3> QED BY <3>1, <3>2
  <2>2. x < 0 <=> j = n
    <3>1. CASE j = n
      BY <1>1, <1>4, <3>1 DEF At
    <3>2. CASE j # n
      <4>1. j + 1 \in 1 .. n
        BY <1>1, <3>2
      <4>2. x \in Nat
        BY <1>1, <1>4, <4>1 DEF At
      <4> QED BY <3>2, <4>2
    <3> QED BY <3>1, <3>2
  <2>3. l.head = s <=> j = 1
    BY <1>2, <1>3
  <2>4. l.tail = s <=> j = n
    BY <1>1, <1>2, <1>3
  <2> QED BY <2>1, <2>2, <2>3, <2>4
<1>7. ListIn(Cut(q, j), S) /\ Len(Cut(q, j)) = n - 1
  BY <1>1, CutFacts
<1>8. Leads(g, k.head, "next", Cut(q, j))
  <2>1. \A i \in 1 .. n : g.slot[q[i]].next = IF h.slot[q[i]].next = q[j]
                                              THEN h.slot[q[j]].next ELSE h.slot[q[i]].next
    BY <1>1, <1>5
  <2>2. k.head = IF l.head = q[j] THEN h.slot[q[j]].next ELSE l.head
    BY <1>6
  <2>3. LeadsPast(h, g, "next", q, j)
    BY <2>1 DEF LeadsPast
  <2>4. Leads(g, IF l.head = q[j] THEN h.slot[q[j]]["next"] ELSE l.head, "next", Cut(q, j))
    BY <1>1, <2>3, LeadsCut
  <2> QED BY <2>2, <2>4
<1>9. Back(g, k.tail, Cut(q, j))
  <2>1. \A i \in 1 .. n : g.slot[q[i]].prev = IF h.slot[q[i]].prev = q[j]
                                              THEN h.slot[q[j]].prev ELSE h.slot[q[i]].prev
    BY <1>1, <1>5
  <2>2. k.tail = IF l.tail = q[j] THEN h.slot[q[j]].prev ELSE l.tail
    BY <1>6
  <2> QED BY <1>1, <2>1, <2>2, BackCut
<1> QED BY <1>1, <1>7, <1>8, <1>9 DEF Links

(* The neighbours of a slot are on its list. *)
LEMMA Neighbours ==
  ASSUME NEW h, NEW l, NEW q, Links(h, l, q), NEW s \in Ran(q)
  PROVE  /\ h.slot[s].prev \in Ran(q) \cup {-1} /\ h.slot[s].next \in Ran(q) \cup {-1}
         /\ s \in Slots(h) /\ Ran(q) \subseteq Slots(h)
<1>1. PICK j \in 1 .. Len(q) : q[j] = s
  BY DEF Ran
<1>2. h.slot[s].next = At(q, j + 1) /\ h.slot[s].prev = At(q, j - 1)
  BY <1>1 DEF Links, Leads, Back
<1>3. ListIn(q, Slots(h))
  BY DEF Links
<1>4. Ran(q) \subseteq Slots(h)
  BY <1>3, ListFacts
<1> QED BY <1>2, <1>4 DEF At, Ran

LEMMA UnlinkLists ==
  ASSUME NEW m \in Nat, NEW nb \in Nat \ {0}, NEW h \in Sized(m, nb), NEW u, NEW p, Listed(h, u, p),
         NEW s, (h.slot[s].state = "lru" /\ s \in Ran(u)) \/ (h.slot[s].state = "pin" /\ s \in Ran(p))
  PROVE  /\ Unlink(h, s) \in Sized(m, nb)
         /\ HashKept(h, Unlink(h, s)) /\ StateKept(h, Unlink(h, s))
         /\ Listed(Unlink(h, s), Less(u, s), Less(p, s))
<1> DEFINE L == h.slot[s].state
           a == h.slot[s].prev
           x == h.slot[s].next
           g == Unlink(h, s)
<1>1. Slots(h) = 0 .. m - 1 /\ Slots(h) \subseteq Nat
  <2>1. Slots(h) = 0 .. m - 1
    BY SizedFacts
  <2> QED BY <2>1
<1>2. /\ Links(h, h.lru, u) /\ Links(h, h.pin, p) /\ Ran(u) \cap Ran(p) = {}
      /\ ListIn(u, Slots(h)) /\ ListIn(p, Slots(h))
  BY DEF Listed, Links
<1>3. /\ s \in 0 .. m - 1 /\ a \in -1 .. m - 1 /\ x \in -1 .. m - 1 /\ L \in {"lru", "pin"}
      /\ Ran(u) \subseteq 0 .. m - 1 /\ Ran(p) \subseteq 0 .. m - 1
      /\ (L = "lru" => a \in Ran(u) \cup {-1} /\ x \in Ran(u) \cup {-1})
      /\ (L = "pin" => a \in Ran(p) \cup {-1} /\ x \in Ran(p) \cup {-1})
  <2>1. Ran(u) \subseteq 0 .. m - 1 /\ Ran(p) \subseteq 0 .. m - 1
    BY <1>1, <1>2, ListFacts
  <2>2. CASE L = "lru"
    <3>1. a \in Ran(u) \cup {-1} /\ x \in Ran(u) \cup {-1}
      BY <1>2, <2>2, Neighbours
    <3> QED BY <2>1, <2>2, <3>1
  <2>3. CASE L = "pin"
    <3>1. a \in Ran(p) \cup {-1} /\ x \in Ran(p) \cup {-1}
      BY <1>2, <2>3, Neighbours
    <3> QED BY <2>1, <2>3, <3>1
  <2> QED BY <2>2, <2>3
<1>4. g \in Sized(m, nb) /\ Unlinked(h, g, L, a, x)
  <2> HIDE DEF g
  <2>1. Unlink(h, s) \in Sized(m, nb) /\ Unlinked(h, Unlink(h, s), L, a, x)
    <3> DEFINE LL == L
               aa == a
               xx == x
    <3>1. LL \in {"lru", "pin"} /\ h.slot[s].state = LL /\ aa \in -1 .. m - 1 /\ h.slot[s].prev = aa
          /\ xx \in -1 .. m - 1 /\ h.slot[s].next = xx
      BY <1>3
    <3> HIDE DEF LL, aa, xx
    <3>2. Unlink(h, s) \in Sized(m, nb) /\ Unlinked(h, Unlink(h, s), LL, aa, xx)
      BY <1>3, <3>1, UnlinkFacts
    <3> QED BY <3>2 DEF LL, aa, xx
  <2> QED BY <2>1 DEF g
<1>5. Slots(g) = Slots(h)
  BY <1>1, <1>4, SizedFacts
<1> HIDE DEF g, L, a, x
<1>6. /\ \A y \in Slots(h) : /\ g.slot[y].next = IF y = a THEN x ELSE h.slot[y].next
                             /\ g.slot[y].prev = IF y = x THEN a ELSE h.slot[y].prev
      /\ g.lru.head = IF L = "lru" /\ a < 0 THEN x ELSE h.lru.head
      /\ g.pin.head = IF L = "pin" /\ a < 0 THEN x ELSE h.pin.head
      /\ g.lru.tail = IF L = "lru" /\ x < 0 THEN a ELSE h.lru.tail
      /\ g.pin.tail = IF L = "pin" /\ x < 0 THEN a ELSE h.pin.tail
      /\ g.lru.n = IF L = "lru" THEN h.lru.n - 1 ELSE h.lru.n
      /\ g.pin.n = IF L = "pin" THEN h.pin.n - 1 ELSE h.pin.n
      /\ HashKept(h, g) /\ StateKept(h, g)
  BY <1>4 DEF Unlinked
<1>7. h.slot[s].prev = a /\ h.slot[s].next = x /\ h.slot[s].state = L
  BY DEF a, x, L
<1>8. Ran(Less(u, s)) \cap Ran(Less(p, s)) = {}
  BY <1>2, LessFacts
<1>9. CASE L = "lru"
  <2>1. s \in Ran(u) /\ s \notin Ran(p)
    BY <1>2, <1>7, <1>9
  <2>2. PICK j \in 1 .. Len(u) : u[j] = s
    BY <2>1 DEF Ran
  <2>3. Less(u, s) = Cut(u, j) /\ Less(p, s) = p
    BY <1>2, <2>1, <2>2, LessFacts DEF Less
  <2>4. Links(g, g.lru, Cut(u, j))
    <3>1. \A y \in Ran(u) : /\ g.slot[y].next = IF y = a THEN x ELSE h.slot[y].next
                            /\ g.slot[y].prev = IF y = x THEN a ELSE h.slot[y].prev
      BY <1>1, <1>3, <1>6
    <3>2. g.lru.head = IF a < 0 THEN x ELSE h.lru.head
      BY <1>6, <1>9
    <3>3. g.lru.tail = IF x < 0 THEN a ELSE h.lru.tail
      BY <1>6, <1>9
    <3>4. g.lru.n = h.lru.n - 1
      BY <1>6, <1>9
    <3>5. /\ Links(h, h.lru, u) /\ Slots(g) = Slots(h) /\ Slots(h) \subseteq Nat
          /\ h.slot[s].prev = a /\ h.slot[s].next = x /\ s = u[j]
      BY <1>1, <1>2, <1>5, <1>7, <2>2
    <3> QED BY <3>1, <3>2, <3>3, <3>4, <3>5, LinksCut
  <2>5. Links(g, g.pin, p)
    <3>1. \A y \in Ran(p) : g.slot[y].next = h.slot[y].next /\ g.slot[y].prev = h.slot[y].prev
      <4>1. \A y \in Ran(p) : y # a /\ y # x /\ y \in Slots(h)
        BY <1>1, <1>2, <1>3, <1>9
      <4> QED BY <1>6, <4>1
    <3>2. g.pin.head = h.pin.head /\ g.pin.tail = h.pin.tail /\ g.pin.n = h.pin.n
      BY <1>6, <1>9
    <3> QED BY <1>2, <1>5, <3>1, <3>2, LinksKept
  <2> QED BY <1>4, <1>6, <1>8, <2>3, <2>4, <2>5 DEF Listed, g
<1>10. CASE L = "pin"
  <2>1. s \in Ran(p) /\ s \notin Ran(u)
    BY <1>2, <1>7, <1>10
  <2>2. PICK j \in 1 .. Len(p) : p[j] = s
    BY <2>1 DEF Ran
  <2>3. Less(p, s) = Cut(p, j) /\ Less(u, s) = u
    BY <1>2, <2>1, <2>2, LessFacts DEF Less
  <2>4. Links(g, g.pin, Cut(p, j))
    <3>1. \A y \in Ran(p) : /\ g.slot[y].next = IF y = a THEN x ELSE h.slot[y].next
                            /\ g.slot[y].prev = IF y = x THEN a ELSE h.slot[y].prev
      BY <1>1, <1>3, <1>6
    <3>2. g.pin.head = IF a < 0 THEN x ELSE h.pin.head
      BY <1>6, <1>10
    <3>3. g.pin.tail = IF x < 0 THEN a ELSE h.pin.tail
      BY <1>6, <1>10
    <3>4. g.pin.n = h.pin.n - 1
      BY <1>6, <1>10
    <3>5. /\ Links(h, h.pin, p) /\ Slots(g) = Slots(h) /\ Slots(h) \subseteq Nat
          /\ h.slot[s].prev = a /\ h.slot[s].next = x /\ s = p[j]
      BY <1>1, <1>2, <1>5, <1>7, <2>2
    <3> QED BY <3>1, <3>2, <3>3, <3>4, <3>5, LinksCut
  <2>5. Links(g, g.lru, u)
    <3>1. \A y \in Ran(u) : g.slot[y].next = h.slot[y].next /\ g.slot[y].prev = h.slot[y].prev
      <4>1. \A y \in Ran(u) : y # a /\ y # x /\ y \in Slots(h)
        BY <1>1, <1>2, <1>3, <1>10
      <4> QED BY <1>6, <4>1
    <3>2. g.lru.head = h.lru.head /\ g.lru.tail = h.lru.tail /\ g.lru.n = h.lru.n
      BY <1>6, <1>10
    <3> QED BY <1>2, <1>5, <3>1, <3>2, LinksKept
  <2> QED BY <1>4, <1>6, <1>8, <2>3, <2>4, <2>5 DEF Listed, g
<1> QED BY <1>3, <1>9, <1>10

-----------------------------------------------------------------------------
(* hvListPushFront, and the state of the slot, field by field. *)
Pushed(h, g, L, s, head) ==
  /\ HashKept(h, g)
  /\ \A y \in Slots(h) : /\ g.slot[y].state = IF y = s THEN L ELSE h.slot[y].state
                         /\ g.slot[y].next = IF y = s THEN head ELSE h.slot[y].next
                         /\ g.slot[y].prev = IF y = head THEN s
                                             ELSE IF y = s THEN -1 ELSE h.slot[y].prev
  /\ g.lru.head = IF L = "lru" THEN s ELSE h.lru.head
  /\ g.pin.head = IF L = "pin" THEN s ELSE h.pin.head
  /\ g.lru.tail = IF L = "lru" /\ h.lru.tail < 0 THEN s ELSE h.lru.tail
  /\ g.pin.tail = IF L = "pin" /\ h.pin.tail < 0 THEN s ELSE h.pin.tail
  /\ g.lru.n = IF L = "lru" THEN h.lru.n + 1 ELSE h.lru.n
  /\ g.pin.n = IF L = "pin" THEN h.pin.n + 1 ELSE h.pin.n

LEMMA PushFacts ==
  ASSUME NEW m \in Nat, NEW nb \in Nat \ {0}, NEW h \in Sized(m, nb),
         NEW s \in 0 .. m - 1, NEW L \in {"lru", "pin"},
         NEW head \in -1 .. m - 1, h[L].head = head
  PROVE  PushFront(h, L, s) \in Sized(m, nb) /\ Pushed(h, PushFront(h, L, s), L, s, head)
<1> DEFINE g == [h EXCEPT !.slot[s].state = L, !.slot[s].prev = -1, !.slot[s].next = head]
           f == IF head >= 0 THEN [g EXCEPT !.slot[head].prev = s] ELSE g
           r == [f EXCEPT ![L] = [head |-> s, tail |-> IF @.tail < 0 THEN s ELSE @.tail,
                                  n |-> @.n + 1]]
<1>1. PushFront(h, L, s) = r
  BY DEF PushFront
<1>2. /\ h.slot \in [0 .. m - 1 -> SlotType] /\ Slots(h) = 0 .. m - 1
  BY SizedFacts
<1>3. h.lru \in ListType /\ h.pin \in ListType
  BY DEF Sized
<1> DEFINE s1 == [h.slot EXCEPT ![s].state = L]
           s2 == [s1 EXCEPT ![s].prev = -1]
           sg == [s2 EXCEPT ![s].next = head]
<1>4. /\ sg \in [0 .. m - 1 -> SlotType]
      /\ \A y \in 0 .. m - 1 :
           /\ sg[y].key = h.slot[y].key /\ sg[y].data = h.slot[y].data
           /\ sg[y].hnext = h.slot[y].hnext
           /\ sg[y].state = IF y = s THEN L ELSE h.slot[y].state
           /\ sg[y].next = IF y = s THEN head ELSE h.slot[y].next
           /\ sg[y].prev = IF y = s THEN -1 ELSE h.slot[y].prev
  <2>1. /\ s1 \in [0 .. m - 1 -> SlotType]
        /\ \A y \in 0 .. m - 1 :
             /\ s1[y].key = h.slot[y].key /\ s1[y].data = h.slot[y].data
             /\ s1[y].next = h.slot[y].next /\ s1[y].prev = h.slot[y].prev
             /\ s1[y].hnext = h.slot[y].hnext
             /\ s1[y].state = IF y = s THEN L ELSE h.slot[y].state
    BY <1>2 DEF SlotType
  <2> HIDE DEF s1
  <2>2. /\ s2 \in [0 .. m - 1 -> SlotType]
        /\ \A y \in 0 .. m - 1 :
             /\ s2[y].key = s1[y].key /\ s2[y].data = s1[y].data
             /\ s2[y].state = s1[y].state
             /\ s2[y].next = s1[y].next /\ s2[y].hnext = s1[y].hnext
             /\ s2[y].prev = IF y = s THEN -1 ELSE s1[y].prev
    <3>1. s1 \in [0 .. m - 1 -> SlotType] /\ s2 = [s1 EXCEPT ![s].prev = -1] /\ -1 \in Int
      BY <2>1
    <3> HIDE DEF s2
    <3>2. SetsPrev(s2, s1, m, s, -1)
      BY <3>1, SetPrev
    <3> QED BY <3>2 DEF SetsPrev
  <2> HIDE DEF s2
  <2>3. /\ sg \in [0 .. m - 1 -> SlotType]
        /\ \A y \in 0 .. m - 1 :
             /\ sg[y].key = s2[y].key /\ sg[y].data = s2[y].data
             /\ sg[y].state = s2[y].state
             /\ sg[y].prev = s2[y].prev /\ sg[y].hnext = s2[y].hnext
             /\ sg[y].next = IF y = s THEN head ELSE s2[y].next
    <3>1. head \in Int
      OBVIOUS
    <3> QED BY <2>2, <3>1, SetNext
  <2> HIDE DEF sg
  <2> QED BY <2>1, <2>2, <2>3
<1>5. g = [h EXCEPT !.slot = sg]
  BY DEF Sized
<1> HIDE DEF sg, g
<1>6. /\ g \in Sized(m, nb) /\ g.slot = sg /\ g.lru = h.lru /\ g.pin = h.pin
      /\ g.bucket = h.bucket /\ g.freehead = h.freehead /\ g.nchunk = h.nchunk
      /\ g.aslot = h.aslot /\ g.n = h.n
  BY <1>4, <1>5, SetSlot
<1>7. /\ f \in Sized(m, nb) /\ f.lru = h.lru /\ f.pin = h.pin
      /\ f.bucket = h.bucket /\ f.freehead = h.freehead /\ f.nchunk = h.nchunk
      /\ f.aslot = h.aslot /\ f.n = h.n
      /\ \A y \in 0 .. m - 1 :
           /\ f.slot[y].key = sg[y].key /\ f.slot[y].data = sg[y].data
           /\ f.slot[y].hnext = sg[y].hnext /\ f.slot[y].state = sg[y].state
           /\ f.slot[y].next = sg[y].next
           /\ f.slot[y].prev = IF y = head THEN s ELSE sg[y].prev
  <2>1. CASE head >= 0
    <3> DEFINE sf == [g.slot EXCEPT ![head].prev = s]
    <3>1. head \in 0 .. m - 1 /\ s \in Int
      BY <2>1
    <3>2. f = [g EXCEPT !.slot = sf]
      BY <1>6, <2>1, <3>1 DEF Sized
    <3>3. /\ sf \in [0 .. m - 1 -> SlotType]
          /\ \A y \in 0 .. m - 1 :
               /\ sf[y].key = sg[y].key /\ sf[y].state = sg[y].state /\ sf[y].data = sg[y].data
               /\ sf[y].next = sg[y].next /\ sf[y].hnext = sg[y].hnext
               /\ sf[y].prev = IF y = head THEN s ELSE sg[y].prev
      <4>1. g.slot = sg /\ sg \in [0 .. m - 1 -> SlotType] /\ sf = [g.slot EXCEPT ![head].prev = s]
        BY <1>4, <1>6
      <4> HIDE DEF sf
      <4>2. SetsPrev(sf, sg, m, head, s)
        BY <3>1, <4>1, SetPrev
      <4> QED BY <4>2 DEF SetsPrev
    <3> HIDE DEF sf, f
    <3>4. /\ f \in Sized(m, nb) /\ f.slot = sf /\ f.lru = g.lru /\ f.pin = g.pin
          /\ f.bucket = g.bucket /\ f.freehead = g.freehead /\ f.nchunk = g.nchunk
          /\ f.aslot = g.aslot /\ f.n = g.n
      BY <1>6, <3>2, <3>3, SetSlot
    <3> QED BY <1>6, <3>3, <3>4
  <2>2. CASE head < 0
    <3>1. f = g /\ \A y \in 0 .. m - 1 : y # head
      BY <2>2
    <3> HIDE DEF f
    <3> QED BY <1>6, <3>1
  <2> QED BY <2>1, <2>2
<1> HIDE DEF f
<1> DEFINE more(l) == [head |-> s, tail |-> IF l.tail < 0 THEN s ELSE l.tail, n |-> l.n + 1]
<1>8. ASSUME NEW l \in ListType
      PROVE  /\ more(l) \in ListType /\ more(l).head = s /\ more(l).n = l.n + 1
             /\ more(l).tail = IF l.tail < 0 THEN s ELSE l.tail
  BY DEF ListType
<1>9. CASE L = "lru"
  <2> DEFINE l == more(h.lru)
  <2>1. r = [f EXCEPT !.lru = l]
    BY <1>7, <1>9 DEF Sized
  <2>2. l \in ListType /\ l.head = s /\ l.n = h.lru.n + 1
        /\ l.tail = IF h.lru.tail < 0 THEN s ELSE h.lru.tail
    BY <1>3, <1>8
  <2> HIDE DEF l, r
  <2>3. /\ r \in Sized(m, nb) /\ r.slot = f.slot /\ r.lru = l /\ r.pin = f.pin
        /\ r.bucket = f.bucket /\ r.freehead = f.freehead /\ r.nchunk = f.nchunk
        /\ r.aslot = f.aslot /\ r.n = f.n
    BY <1>7, <2>1, <2>2, SetLru
  <2>4. HashKept(h, r)
    BY <1>2, <1>4, <1>7, <2>3 DEF HashKept
  <2> QED BY <1>1, <1>2, <1>4, <1>7, <1>9, <2>2, <2>3, <2>4 DEF Pushed
<1>10. CASE L = "pin"
  <2> DEFINE l == more(h.pin)
  <2>1. r = [f EXCEPT !.pin = l]
    BY <1>7, <1>10 DEF Sized
  <2>2. l \in ListType /\ l.head = s /\ l.n = h.pin.n + 1
        /\ l.tail = IF h.pin.tail < 0 THEN s ELSE h.pin.tail
    BY <1>3, <1>8
  <2> HIDE DEF l, r
  <2>3. /\ r \in Sized(m, nb) /\ r.slot = f.slot /\ r.pin = l /\ r.lru = f.lru
        /\ r.bucket = f.bucket /\ r.freehead = f.freehead /\ r.nchunk = f.nchunk
        /\ r.aslot = f.aslot /\ r.n = f.n
    BY <1>7, <2>1, <2>2, SetPin
  <2>4. HashKept(h, r)
    BY <1>2, <1>4, <1>7, <2>3 DEF HashKept
  <2> QED BY <1>1, <1>2, <1>4, <1>7, <1>10, <2>2, <2>3, <2>4 DEF Pushed
<1> QED BY <1>9, <1>10

LEMMA LinksHeaded ==
  ASSUME NEW h, NEW g, NEW l, NEW k, NEW q, Links(h, l, q), Slots(g) = Slots(h), Slots(h) \subseteq Nat,
         NEW s \in Slots(h), s \notin Ran(q),
         \A y \in Ran(q) : /\ g.slot[y].next = h.slot[y].next
                           /\ g.slot[y].prev = IF y = l.head THEN s ELSE h.slot[y].prev,
         g.slot[s].next = l.head, g.slot[s].prev = -1,
         k.head = s, k.tail = IF l.tail < 0 THEN s ELSE l.tail, k.n = l.n + 1
  PROVE  Links(g, k, Headed(s, q))
<1> DEFINE n == Len(q)
           S == Slots(h)
<1>1. /\ ListIn(q, S) /\ Leads(h, l.head, "next", q) /\ Back(h, l.tail, q) /\ l.n = n
      /\ n \in Nat /\ \A i \in 1 .. n : q[i] \in Nat /\ q[i] \in Ran(q)
  BY ListFacts DEF Links, Ran
<1>2. ListIn(Headed(s, q), S) /\ Len(Headed(s, q)) = n + 1
  BY <1>1, HeadedFacts
<1>3. Leads(g, s, "next", Headed(s, q))
  <2>1. \A i \in 1 .. n : g.slot[q[i]]["next"] = h.slot[q[i]]["next"]
    BY <1>1
  <2>2. g.slot[s]["next"] = l.head
    OBVIOUS
  <2> QED BY <1>1, <2>1, <2>2, LeadsHeaded
<1>4. Back(g, k.tail, Headed(s, q))
  <2>1. \A i \in 1 .. n : q[i] = l.head <=> i = 1
    <3>1. l.head = At(q, 1) /\ Placed(q)
      BY <1>1, AtPlaced DEF Leads
    <3>2. \A i \in 1 .. n : At(q, 1) = q[1]
      BY <1>1 DEF At
    <3> QED BY <1>1, <3>1, <3>2 DEF Placed
  <2>2. \A i \in 1 .. n : g.slot[q[i]].prev = IF i = 1 THEN s ELSE h.slot[q[i]].prev
    BY <1>1, <2>1
  <2> QED BY <1>1, <2>2, BackHeaded
<1> QED BY <1>1, <1>2, <1>3, <1>4 DEF Links

Onto(L, K, s, q) == IF L = K THEN Headed(s, q) ELSE q

LEMMA PushLists ==
  ASSUME NEW m \in Nat, NEW nb \in Nat \ {0}, NEW h \in Sized(m, nb), NEW u, NEW p, Listed(h, u, p),
         NEW s \in 0 .. m - 1, s \notin Ran(u), s \notin Ran(p), NEW L \in {"lru", "pin"}
  PROVE  /\ PushFront(h, L, s) \in Sized(m, nb) /\ HashKept(h, PushFront(h, L, s))
         /\ \A y \in Slots(h) :
              PushFront(h, L, s).slot[y].state = IF y = s THEN L ELSE h.slot[y].state
         /\ Listed(PushFront(h, L, s), Onto(L, "lru", s, u), Onto(L, "pin", s, p))
<1> DEFINE g == PushFront(h, L, s)
           head == h[L].head
<1>1. Slots(h) = 0 .. m - 1 /\ Slots(h) \subseteq Nat
  <2>1. Slots(h) = 0 .. m - 1
    BY SizedFacts
  <2> QED BY <2>1
<1>2. /\ Links(h, h.lru, u) /\ Links(h, h.pin, p) /\ Ran(u) \cap Ran(p) = {}
      /\ ListIn(u, Slots(h)) /\ ListIn(p, Slots(h))
      /\ Ran(u) \subseteq Slots(h) /\ Ran(p) \subseteq Slots(h)
  BY ListFacts DEF Listed, Links
<1>3. /\ h.lru.head \in Ran(u) \cup {-1} /\ h.pin.head \in Ran(p) \cup {-1}
  BY <1>2 DEF Links, Leads, At, Ran
<1>4. head \in -1 .. m - 1 /\ (L = "lru" => head = h.lru.head) /\ (L = "pin" => head = h.pin.head)
  <2>1. (L = "lru" => head = h.lru.head) /\ (L = "pin" => head = h.pin.head)
    OBVIOUS
  <2>2. h.lru.head \in -1 .. m - 1 /\ h.pin.head \in -1 .. m - 1
    BY <1>1, <1>2, <1>3
  <2> QED BY <2>1, <2>2
<1>5. g \in Sized(m, nb) /\ Pushed(h, g, L, s, head)
  <2> DEFINE hd == head
  <2>1. hd \in -1 .. m - 1 /\ h[L].head = hd
    BY <1>4
  <2> HIDE DEF hd
  <2>2. PushFront(h, L, s) \in Sized(m, nb) /\ Pushed(h, PushFront(h, L, s), L, s, hd)
    BY <2>1, PushFacts
  <2> QED BY <2>2 DEF hd
<1>6. Slots(g) = Slots(h)
  BY <1>1, <1>5, SizedFacts
<1> HIDE DEF g, head
<1>7. /\ HashKept(h, g)
      /\ \A y \in Slots(h) : /\ g.slot[y].state = IF y = s THEN L ELSE h.slot[y].state
                             /\ g.slot[y].next = IF y = s THEN head ELSE h.slot[y].next
                             /\ g.slot[y].prev = IF y = head THEN s
                                                 ELSE IF y = s THEN -1 ELSE h.slot[y].prev
      /\ g.lru.head = IF L = "lru" THEN s ELSE h.lru.head
      /\ g.pin.head = IF L = "pin" THEN s ELSE h.pin.head
      /\ g.lru.tail = IF L = "lru" /\ h.lru.tail < 0 THEN s ELSE h.lru.tail
      /\ g.pin.tail = IF L = "pin" /\ h.pin.tail < 0 THEN s ELSE h.pin.tail
      /\ g.lru.n = IF L = "lru" THEN h.lru.n + 1 ELSE h.lru.n
      /\ g.pin.n = IF L = "pin" THEN h.pin.n + 1 ELSE h.pin.n
  BY <1>5 DEF Pushed
<1>8. s \in Slots(h) /\ s \in Nat
  BY <1>1
<1>9. CASE L = "lru"
  <2>1. Links(g, g.lru, Headed(s, u))
    <3>1. s # head
      BY <1>3, <1>4, <1>8, <1>9
    <3>2. \A y \in Ran(u) : /\ g.slot[y].next = h.slot[y].next
                            /\ g.slot[y].prev = IF y = h.lru.head THEN s ELSE h.slot[y].prev
      BY <1>2, <1>4, <1>7, <1>9
    <3>3. g.slot[s].next = h.lru.head /\ g.slot[s].prev = -1
      BY <1>4, <1>7, <1>8, <1>9, <3>1
    <3>4. g.lru.head = s /\ g.lru.tail = (IF h.lru.tail < 0 THEN s ELSE h.lru.tail) /\ g.lru.n = h.lru.n + 1
      BY <1>7, <1>9
    <3> QED BY <1>1, <1>2, <1>6, <1>8, <3>2, <3>3, <3>4, LinksHeaded
  <2>2. Links(g, g.pin, p)
    <3>1. \A y \in Ran(p) : y # s /\ y # head /\ y \in Slots(h)
      BY <1>1, <1>2, <1>3, <1>4, <1>9
    <3>2. \A y \in Ran(p) : g.slot[y].next = h.slot[y].next /\ g.slot[y].prev = h.slot[y].prev
      BY <1>7, <3>1
    <3>3. g.pin.head = h.pin.head /\ g.pin.tail = h.pin.tail /\ g.pin.n = h.pin.n
      BY <1>7, <1>9
    <3> QED BY <1>2, <1>6, <3>2, <3>3, LinksKept
  <2>3. Ran(Headed(s, u)) \cap Ran(p) = {}
    BY <1>2, <1>8, HeadedFacts
  <2>4. Listed(g, Onto(L, "lru", s, u), Onto(L, "pin", s, p))
    BY <1>9, <2>1, <2>2, <2>3 DEF Listed, Onto
  <2> QED BY <1>5, <1>7, <2>4 DEF g
<1>10. CASE L = "pin"
  <2>1. Links(g, g.pin, Headed(s, p))
    <3>1. s # head
      BY <1>3, <1>4, <1>8, <1>10
    <3>2. \A y \in Ran(p) : /\ g.slot[y].next = h.slot[y].next
                            /\ g.slot[y].prev = IF y = h.pin.head THEN s ELSE h.slot[y].prev
      BY <1>2, <1>4, <1>7, <1>10
    <3>3. g.slot[s].next = h.pin.head /\ g.slot[s].prev = -1
      BY <1>4, <1>7, <1>8, <1>10, <3>1
    <3>4. g.pin.head = s /\ g.pin.tail = (IF h.pin.tail < 0 THEN s ELSE h.pin.tail) /\ g.pin.n = h.pin.n + 1
      BY <1>7, <1>10
    <3> QED BY <1>1, <1>2, <1>6, <1>8, <3>2, <3>3, <3>4, LinksHeaded
  <2>2. Links(g, g.lru, u)
    <3>1. \A y \in Ran(u) : y # s /\ y # head /\ y \in Slots(h)
      BY <1>1, <1>2, <1>3, <1>4, <1>10
    <3>2. \A y \in Ran(u) : g.slot[y].next = h.slot[y].next /\ g.slot[y].prev = h.slot[y].prev
      BY <1>7, <3>1
    <3>3. g.lru.head = h.lru.head /\ g.lru.tail = h.lru.tail /\ g.lru.n = h.lru.n
      BY <1>7, <1>10
    <3> QED BY <1>2, <1>6, <3>2, <3>3, LinksKept
  <2>3. Ran(u) \cap Ran(Headed(s, p)) = {}
    BY <1>2, <1>8, HeadedFacts
  <2>4. Listed(g, Onto(L, "lru", s, u), Onto(L, "pin", s, p))
    BY <1>10, <2>1, <2>2, <2>3 DEF Listed, Onto
  <2> QED BY <1>5, <1>7, <2>4 DEF g
<1> QED BY <1>9, <1>10

-----------------------------------------------------------------------------
(* What the recency lists do not touch stays.                              *)
LEMMA FreeSlots ==
  ASSUME NEW h
  PROVE  On(h, "free") = Slots(h) \ Live(h)
BY DEF On, Live

LEMMA HashFrame ==
  ASSUME NEW m \in Nat, NEW nb \in Nat \ {0}, NEW h \in Sized(m, nb), NEW g \in Sized(m, nb),
         HashKept(h, g), Live(g) = Live(h)
  PROVE  /\ \A c : Hashed(h, c) => Hashed(g, c)
         /\ \A f, taken : Freed(h, f, taken) => Freed(g, f, taken)
         /\ Filled(h) => Filled(g)
         /\ Chunked(h) => Chunked(g)
<1>1. /\ Slots(h) = 0 .. m - 1 /\ Slots(g) = Slots(h) /\ DOMAIN h.bucket = DOMAIN g.bucket
      /\ NumSlots(g) = NumSlots(h)
      /\ \A k : BucketOf(g, k) = BucketOf(h, k)
  BY SizedFacts
<1>2. /\ \A y \in Slots(h) : /\ g.slot[y].key = h.slot[y].key /\ g.slot[y].data = h.slot[y].data
                             /\ g.slot[y].hnext = h.slot[y].hnext
      /\ g.bucket = h.bucket /\ g.freehead = h.freehead /\ g.nchunk = h.nchunk
  BY DEF HashKept
<1>3. Live(h) \subseteq Slots(h)
  BY DEF Live
<1>4. ASSUME NEW first, NEW q, ListIn(q, Slots(h)), Leads(h, first, "hnext", q)
      PROVE  Leads(g, first, "hnext", q)
  <2>1. \A i \in 1 .. Len(q) : q[i] \in Slots(h)
    BY <1>4, ListFacts
  <2>2. \A i \in 1 .. Len(q) : g.slot[q[i]]["hnext"] = h.slot[q[i]]["hnext"]
    BY <1>2, <2>1
  <2> QED BY <1>4, <2>2, LeadsKept
<1>5. ASSUME NEW c, Hashed(h, c) PROVE Hashed(g, c)
  <2> SUFFICES ASSUME NEW b \in DOMAIN g.bucket
               PROVE  /\ ListIn(c[b], Slots(g))
                      /\ Leads(g, g.bucket[b], "hnext", c[b])
                      /\ Ran(c[b]) = {s \in Live(g) : BucketOf(g, g.slot[s].key) = b}
    BY DEF Hashed
  <2>1. /\ ListIn(c[b], Slots(h))
        /\ Leads(h, h.bucket[b], "hnext", c[b])
        /\ Ran(c[b]) = {s \in Live(h) : BucketOf(h, h.slot[s].key) = b}
    BY <1>1, <1>5 DEF Hashed
  <2>2. {s \in Live(h) : BucketOf(h, h.slot[s].key) = b} = {s \in Live(g) : BucketOf(g, g.slot[s].key) = b}
    BY <1>1, <1>2, <1>3
  <2> QED BY <1>1, <1>2, <1>4, <2>1, <2>2
<1>6. ASSUME NEW f, NEW taken, Freed(h, f, taken) PROVE Freed(g, f, taken)
  BY <1>1, <1>2, <1>4, <1>6, FreeSlots DEF Freed
<1>7. ASSUME Filled(h) PROVE Filled(g)
  BY <1>1, <1>2, <1>3, <1>7 DEF Filled
<1>8. ASSUME Chunked(h) PROVE Chunked(g)
  BY <1>1, <1>2, <1>8 DEF Chunked
<1> QED BY <1>5, <1>6, <1>7, <1>8

LEMMA RecencyLists ==
  ASSUME NEW h, NEW u, NEW p, Recency(h, u, p)
  PROVE  /\ Listed(h, u, p) /\ Ran(u) \cup Ran(p) \subseteq Live(h)
         /\ ListIn(u, Slots(h)) /\ ListIn(p, Slots(h))
         /\ \A s \in Ran(u) : h.slot[s].state = "lru"
         /\ \A s \in Ran(p) : h.slot[s].state = "pin"
<1>1. Ran(u) = On(h, "lru") /\ Ran(p) = On(h, "pin") /\ Links(h, h.lru, u) /\ Links(h, h.pin, p)
  BY DEF Recency
<1>2. Ran(u) \cap Ran(p) = {}
  BY <1>1 DEF On
<1> QED BY <1>1, <1>2 DEF Listed, On, Live, Links

LEMMA LiveLists ==
  ASSUME NEW h \in CacheType, NEW u, NEW p, Recency(h, u, p), NEW s \in Live(h)
  PROVE  /\ s \in Slots(h)
         /\ (h.slot[s].state = "lru" /\ s \in Ran(u)) \/ (h.slot[s].state = "pin" /\ s \in Ran(p))
<1>1. s \in Slots(h) /\ h.slot[s].state # "free"
  BY DEF Live
<1>2. h.slot[s].state \in {"free", "lru", "pin"}
  BY <1>1, SlotsAre DEF SlotType
<1> QED BY <1>1, <1>2 DEF Recency, On

-----------------------------------------------------------------------------
(* hvSlotMoveTo: a slot in use to the front of a list.                     *)
Fronted(h, g, s, L) ==
  /\ HashKept(h, g)
  /\ \A y \in Slots(h) : g.slot[y].state = IF y = s THEN L ELSE h.slot[y].state

LEMMA MoveLists ==
  ASSUME NEW m \in Nat, NEW nb \in Nat \ {0}, NEW h \in Sized(m, nb), NEW u, NEW p, Recency(h, u, p),
         NEW s \in Live(h), NEW L \in {"lru", "pin"}
  PROVE  /\ MoveToFront(h, s, L) \in Sized(m, nb) /\ Fronted(h, MoveToFront(h, s, L), s, L)
         /\ Listed(MoveToFront(h, s, L), Onto(L, "lru", s, Less(u, s)), Onto(L, "pin", s, Less(p, s)))
<1> DEFINE g1 == Unlink(h, s)
           g == PushFront(g1, L, s)
<1>1. g = MoveToFront(h, s, L)
  BY DEF MoveToFront
<1>2. h \in CacheType /\ Slots(h) = 0 .. m - 1
  BY SizedFacts
<1>3. s \in Slots(h) /\ ((h.slot[s].state = "lru" /\ s \in Ran(u)) \/ (h.slot[s].state = "pin" /\ s \in Ran(p)))
  BY <1>2, LiveLists
<1>4. Listed(h, u, p) /\ ListIn(u, Slots(h)) /\ ListIn(p, Slots(h))
  BY RecencyLists
<1>5. g1 \in Sized(m, nb) /\ HashKept(h, g1) /\ StateKept(h, g1) /\ Listed(g1, Less(u, s), Less(p, s))
  BY <1>3, <1>4, UnlinkLists
<1>6. s \notin Ran(Less(u, s)) /\ s \notin Ran(Less(p, s))
  BY <1>4, LessFacts
<1> HIDE DEF g1
<1>7. Slots(g1) = 0 .. m - 1
  BY <1>5, SizedFacts
<1>8. /\ g \in Sized(m, nb) /\ HashKept(g1, g)
      /\ \A y \in Slots(g1) : g.slot[y].state = IF y = s THEN L ELSE g1.slot[y].state
      /\ Listed(g, Onto(L, "lru", s, Less(u, s)), Onto(L, "pin", s, Less(p, s)))
  BY <1>2, <1>3, <1>5, <1>6, PushLists
<1> HIDE DEF g
<1>9. Fronted(h, g, s, L)
  BY <1>2, <1>5, <1>7, <1>8 DEF Fronted, HashKept, StateKept
<1> QED BY <1>1, <1>8, <1>9

LEMMA OntoFacts ==
  ASSUME NEW S, NEW q, ListIn(q, S), NEW s \in S, s \notin Ran(q), NEW L, NEW K
  PROVE  /\ ListIn(Onto(L, K, s, q), S)
         /\ Ran(Onto(L, K, s, q)) = IF L = K THEN Ran(q) \cup {s} ELSE Ran(q)
         /\ Len(Onto(L, K, s, q)) = IF L = K THEN Len(q) + 1 ELSE Len(q)
BY HeadedFacts DEF Onto

LEMMA MoveWhole ==
  ASSUME NEW m \in Nat, NEW nb \in Nat \ {0}, NEW h \in Sized(m, nb),
         NEW u, NEW p, NEW c, Whole(h, u, p, c), NEW s \in Live(h), NEW L \in {"lru", "pin"}
  PROVE  LET g == MoveToFront(h, s, L)
         IN  /\ g \in Sized(m, nb) /\ HashKept(h, g)
             /\ Whole(g, Onto(L, "lru", s, Less(u, s)), Onto(L, "pin", s, Less(p, s)), c)
             /\ \A f, taken : Freed(h, f, taken) => Freed(g, f, taken)
<1> DEFINE g == MoveToFront(h, s, L)
           u1 == Onto(L, "lru", s, Less(u, s))
           p1 == Onto(L, "pin", s, Less(p, s))
<1>1. Recency(h, u, p) /\ Hashed(h, c) /\ Filled(h) /\ Chunked(h)
  BY DEF Whole
<1>2. g \in Sized(m, nb) /\ Fronted(h, g, s, L) /\ Listed(g, u1, p1)
  BY <1>1, MoveLists
<1> HIDE DEF g
<1>3. /\ HashKept(h, g)
      /\ \A y \in Slots(h) : g.slot[y].state = IF y = s THEN L ELSE h.slot[y].state
  BY <1>2 DEF Fronted
<1>4. Slots(g) = Slots(h) /\ h \in CacheType
  BY <1>2, SizedFacts
<1>5. s \in Slots(h) /\ h.slot[s].state # "free"
  BY DEF Live
<1>6. Live(g) = Live(h)
  BY <1>3, <1>4, <1>5 DEF Live
<1>7. /\ \A k : Hashed(h, k) => Hashed(g, k)
      /\ \A f, taken : Freed(h, f, taken) => Freed(g, f, taken)
      /\ Filled(g) /\ Chunked(g)
  BY <1>1, <1>2, <1>3, <1>6, HashFrame
<1>8. /\ Ran(u) = On(h, "lru") /\ Ran(p) = On(h, "pin") /\ h.n = Len(u) + Len(p)
      /\ ListIn(u, Slots(h)) /\ ListIn(p, Slots(h))
  BY <1>1, RecencyLists DEF Recency
<1>9. (s \in Ran(u) /\ s \notin Ran(p)) \/ (s \in Ran(p) /\ s \notin Ran(u))
  <2>1. Ran(u) \cap Ran(p) = {}
    BY <1>8 DEF On
  <2> QED BY <1>1, <1>4, <2>1, LiveLists
<1>10. /\ ListIn(Less(u, s), Slots(h)) /\ Ran(Less(u, s)) = Ran(u) \ {s}
       /\ Len(Less(u, s)) = IF s \in Ran(u) THEN Len(u) - 1 ELSE Len(u)
       /\ ListIn(Less(p, s), Slots(h)) /\ Ran(Less(p, s)) = Ran(p) \ {s}
       /\ Len(Less(p, s)) = IF s \in Ran(p) THEN Len(p) - 1 ELSE Len(p)
       /\ Len(u) \in Nat /\ Len(p) \in Nat
  BY <1>8, LessFacts, ListFacts
<1>11. /\ Ran(u1) = IF L = "lru" THEN Ran(u) \cup {s} ELSE Ran(u) \ {s}
       /\ Ran(p1) = IF L = "pin" THEN Ran(p) \cup {s} ELSE Ran(p) \ {s}
       /\ Len(u1) = IF L = "lru" THEN Len(Less(u, s)) + 1 ELSE Len(Less(u, s))
       /\ Len(p1) = IF L = "pin" THEN Len(Less(p, s)) + 1 ELSE Len(Less(p, s))
  <2>1. s \notin Ran(Less(u, s)) /\ s \notin Ran(Less(p, s))
    BY <1>10
  <2>2. /\ Ran(u1) = IF L = "lru" THEN Ran(Less(u, s)) \cup {s} ELSE Ran(Less(u, s))
        /\ Len(u1) = IF L = "lru" THEN Len(Less(u, s)) + 1 ELSE Len(Less(u, s))
    BY <1>5, <1>10, <2>1, OntoFacts
  <2>3. /\ Ran(p1) = IF L = "pin" THEN Ran(Less(p, s)) \cup {s} ELSE Ran(Less(p, s))
        /\ Len(p1) = IF L = "pin" THEN Len(Less(p, s)) + 1 ELSE Len(Less(p, s))
    BY <1>5, <1>10, <2>1, OntoFacts
  <2> HIDE DEF u1, p1
  <2> QED BY <1>10, <2>2, <2>3
<1> HIDE DEF u1, p1
<1>12. Ran(u1) = On(g, "lru") /\ Ran(p1) = On(g, "pin")
  BY <1>3, <1>4, <1>5, <1>8, <1>11 DEF On
<1>13. g.n = Len(u1) + Len(p1)
  <2>1. g.n = h.n
    BY <1>3 DEF HashKept
  <2>2. Len(Less(u, s)) + Len(Less(p, s)) + 1 = Len(u) + Len(p)
    <3> DEFINE a == Len(u)
               b == Len(p)
               x == Len(Less(u, s))
               y == Len(Less(p, s))
    <3>1. a \in Nat /\ b \in Nat
      BY <1>10
    <3>2. (x = a - 1 /\ y = b) \/ (x = a /\ y = b - 1)
      BY <1>9, <1>10
    <3> HIDE DEF a, b, x, y
    <3>3. x + y + 1 = a + b
      BY <3>1, <3>2
    <3> QED BY <3>3 DEF a, b, x, y
  <2>3. Len(u1) + Len(p1) = Len(Less(u, s)) + Len(Less(p, s)) + 1
    <3>1. Len(Less(u, s)) \in Nat /\ Len(Less(p, s)) \in Nat
      BY <1>10, ListFacts
    <3>2. CASE L = "lru"
      BY <1>11, <3>1, <3>2
    <3>3. CASE L = "pin"
      BY <1>11, <3>1, <3>3
    <3> QED BY <3>2, <3>3
  <2> QED BY <1>8, <2>1, <2>2, <2>3
<1>14. Recency(g, u1, p1)
  BY <1>2, <1>12, <1>13 DEF Recency, Listed
<1>15. Whole(g, u1, p1, c)
  BY <1>1, <1>7, <1>14 DEF Whole
<1> QED BY <1>2, <1>3, <1>7, <1>15 DEF g, u1, p1

-----------------------------------------------------------------------------
(* A slot in use hangs in the chain of its block's bucket, and only there. *)
LEMMA OnChain ==
  ASSUME NEW h \in CacheType, NEW c, Hashed(h, c), Filled(h), NEW s \in Live(h)
  PROVE  LET b == BucketOf(h, h.slot[s].key)
         IN  /\ b \in DOMAIN h.bucket /\ s \in Ran(c[b]) /\ ListIn(c[b], Slots(h))
             /\ \A x \in DOMAIN h.bucket : s \in Ran(c[x]) => x = b
<1>1. h.slot[s].key \in Blocks
  BY DEF Filled
<1>2. BucketOf(h, h.slot[s].key) \in DOMAIN h.bucket
  BY <1>1, BucketsAre
<1> QED BY <1>2 DEF Hashed

(* What a link of a slot in use, or a bucket, leads to is on its chain. *)
LEMMA LeadsOn ==
  ASSUME NEW h \in CacheType, NEW c, Hashed(h, c), Filled(h), NEW s \in Live(h), NEW q,
         q = c[BucketOf(h, h.slot[s].key)], NEW i \in 1 .. Len(q), q[i] = s
  PROVE  /\ \A y \in Live(h) : h.slot[y].hnext = s <=> i > 1 /\ y = q[i - 1]
         /\ \A x \in DOMAIN h.bucket :
              h.bucket[x] = s <=> i = 1 /\ x = BucketOf(h, h.slot[s].key)
<1> DEFINE b == BucketOf(h, h.slot[s].key)
<1>1. /\ b \in DOMAIN h.bucket /\ ListIn(q, Slots(h)) /\ Slots(h) \subseteq Nat
      /\ \A x \in DOMAIN h.bucket : s \in Ran(c[x]) => x = b
  BY OnChain, SlotsAre
<1> HIDE DEF b
<1>2. ASSUME NEW x \in DOMAIN h.bucket, NEW k \in Int, At(c[x], k) = s PROVE x = b /\ k = i
  <2>1. s # -1
    BY <1>1 DEF Live
  <2>2. k \in 1 .. Len(c[x]) /\ c[x][k] = s
    BY <1>2, <2>1 DEF At
  <2>3. x = b
    BY <1>1, <2>2 DEF Ran
  <2>4. q = c[x]
    BY <2>3 DEF b
  <2> QED BY <1>1, <2>2, <2>3, <2>4 DEF ListIn, Once
<1>3. \A x \in DOMAIN h.bucket : Leads(h, h.bucket[x], "hnext", c[x])
  BY DEF Hashed
<1>4. Leads(h, h.bucket[b], "hnext", q) /\ Len(q) \in Nat
  BY <1>1, <1>3, ListFacts DEF b
<1>5. ASSUME NEW y \in Live(h) PROVE h.slot[y].hnext = s <=> i > 1 /\ y = q[i - 1]
  <2>1. PICK x \in DOMAIN h.bucket : y \in Ran(c[x])
    BY OnChain
  <2>2. PICK k \in 1 .. Len(c[x]) : c[x][k] = y
    BY <2>1 DEF Ran
  <2>3. h.slot[y].hnext = At(c[x], k + 1) /\ k + 1 \in Int
    BY <1>3, <2>1, <2>2 DEF Leads
  <2>4. ASSUME h.slot[y].hnext = s PROVE i > 1 /\ y = q[i - 1]
    <3>1. x = b /\ k + 1 = i
      BY <1>2, <2>3, <2>4
    <3>2. q = c[x] /\ k = i - 1 /\ i > 1
      BY <3>1, <2>2 DEF b
    <3> QED BY <2>2, <3>2
  <2>5. ASSUME i > 1, y = q[i - 1] PROVE h.slot[y].hnext = s
    <3>1. i - 1 \in 1 .. Len(q) /\ (i - 1) + 1 = i
      BY <1>4, <2>5
    <3>2. h.slot[q[i - 1]].hnext = At(q, i)
      BY <1>4, <3>1 DEF Leads
    <3> QED BY <2>5, <3>2 DEF At
  <2> QED BY <2>4, <2>5
<1>6. ASSUME NEW x \in DOMAIN h.bucket PROVE h.bucket[x] = s <=> i = 1 /\ x = b
  <2>1. h.bucket[x] = At(c[x], 1)
    BY <1>3 DEF Leads
  <2>2. h.bucket[x] = s => i = 1 /\ x = b
    BY <1>2, <2>1
  <2>3. ASSUME i = 1, x = b PROVE h.bucket[x] = s
    <3>1. h.bucket[b] = At(q, 1)
      BY <1>4 DEF Leads
    <3> QED BY <2>3, <3>1 DEF At
  <2> QED BY <2>2, <2>3
<1> QED BY <1>5, <1>6 DEF b

(* hvEvict's and hvSlotRelocate's walk, field by field. *)
Relinked(h, g, s, d) ==
  /\ \A y \in Slots(h) :
       /\ g.slot[y].key = h.slot[y].key /\ g.slot[y].data = h.slot[y].data
       /\ g.slot[y].next = h.slot[y].next /\ g.slot[y].prev = h.slot[y].prev
       /\ g.slot[y].hnext = IF y \in Live(h) /\ h.slot[y].hnext = s THEN d ELSE h.slot[y].hnext
  /\ \A x \in DOMAIN h.bucket : g.bucket[x] = IF h.bucket[x] = s THEN d ELSE h.bucket[x]
  /\ g.lru = h.lru /\ g.pin = h.pin /\ g.freehead = h.freehead /\ g.nchunk = h.nchunk
  /\ g.aslot = h.aslot /\ g.n = h.n

LEMMA SetBucket ==
  ASSUME NEW m \in Nat, NEW nb \in Nat \ {0}, NEW h \in Sized(m, nb),
         NEW bk \in [0 .. nb - 1 -> Int]
  PROVE  LET g == [h EXCEPT !.bucket = bk]
         IN  /\ g \in Sized(m, nb) /\ g.slot = h.slot /\ g.bucket = bk
             /\ g.lru = h.lru /\ g.pin = h.pin
             /\ g.freehead = h.freehead /\ g.nchunk = h.nchunk
             /\ g.aslot = h.aslot /\ g.n = h.n
BY DEF Sized

LEMMA RelinkFacts ==
  ASSUME NEW m \in Nat, NEW nb \in Nat \ {0}, NEW h \in Sized(m, nb),
         NEW c, Hashed(h, c), Filled(h), NEW s \in Live(h), NEW d \in Int
  PROVE  /\ Relink(h, s, d) \in Sized(m, nb) /\ StateKept(h, Relink(h, s, d))
         /\ Relinked(h, Relink(h, s, d), s, d)
<1> DEFINE b == BucketOf(h, h.slot[s].key)
           q == c[b]
           i == CHOOSE i \in DOMAIN q : q[i] = s
           g == Relink(h, s, d)
<1>1. /\ h \in CacheType /\ Slots(h) = 0 .. m - 1 /\ h.slot \in [0 .. m - 1 -> SlotType]
      /\ DOMAIN h.bucket = 0 .. nb - 1 /\ h.bucket \in [0 .. nb - 1 -> Int]
  BY SizedFacts
<1>2. b \in DOMAIN h.bucket /\ s \in Ran(q) /\ ListIn(q, Slots(h)) /\ Chain(h, b) = q
  BY <1>1, OnChain, ChainAlong
<1>3. i \in 1 .. Len(q) /\ q[i] = s /\ Len(q) \in Nat /\ \A k \in 1 .. Len(q) : q[k] \in Live(h)
  <2>1. DOMAIN q = 1 .. Len(q) /\ Len(q) \in Nat
    BY <1>2, ListFacts
  <2>2. \E k \in DOMAIN q : q[k] = s
    BY <1>2, <2>1 DEF Ran
  <2>3. i \in 1 .. Len(q) /\ q[i] = s
    BY <2>1, <2>2
  <2>4. Ran(q) \subseteq Live(h)
    BY <1>2 DEF Hashed
  <2> QED BY <2>1, <2>3, <2>4 DEF Ran
<1>4. g = IF h.bucket[b] = s THEN [h EXCEPT !.bucket[b] = d]
          ELSE [h EXCEPT !.slot[q[i - 1]].hnext = d]
  BY <1>2 DEF Relink
<1> HIDE DEF i, g
<1>5. /\ \A y \in Live(h) : h.slot[y].hnext = s <=> i > 1 /\ y = q[i - 1]
      /\ \A x \in DOMAIN h.bucket : h.bucket[x] = s <=> i = 1 /\ x = b
  <2>1. q = c[BucketOf(h, h.slot[s].key)] /\ b = BucketOf(h, h.slot[s].key)
    OBVIOUS
  <2> HIDE DEF b, q
  <2>2. h \in CacheType /\ i \in 1 .. Len(q) /\ q[i] = s
    BY <1>1, <1>3
  <2>3. /\ \A y \in Live(h) : h.slot[y].hnext = s <=> i > 1 /\ y = q[i - 1]
        /\ \A x \in DOMAIN h.bucket :
             h.bucket[x] = s <=> i = 1 /\ x = BucketOf(h, h.slot[s].key)
    BY <2>1, <2>2, LeadsOn
  <2> QED BY <2>1, <2>3
<1> HIDE DEF b, q
<1>6. CASE i = 1
  <2> DEFINE bk == [h.bucket EXCEPT ![b] = d]
  <2>1. g = [h EXCEPT !.bucket = bk]
    BY <1>2, <1>4, <1>5, <1>6 DEF Sized
  <2>2. /\ bk \in [0 .. nb - 1 -> Int]
        /\ \A x \in 0 .. nb - 1 : bk[x] = IF h.bucket[x] = s THEN d ELSE h.bucket[x]
    BY <1>1, <1>2, <1>5, <1>6
  <2> HIDE DEF bk
  <2>3. /\ g \in Sized(m, nb) /\ g.slot = h.slot /\ g.bucket = bk
        /\ g.lru = h.lru /\ g.pin = h.pin
        /\ g.freehead = h.freehead /\ g.nchunk = h.nchunk
        /\ g.aslot = h.aslot /\ g.n = h.n
    BY <2>1, <2>2, SetBucket
  <2>4. \A y \in Live(h) : h.slot[y].hnext # s
    BY <1>5, <1>6
  <2> QED BY <1>1, <2>2, <2>3, <2>4 DEF Relinked, StateKept, g
<1>7. CASE i > 1
  <2> DEFINE a == q[i - 1]
             sl == [h.slot EXCEPT ![a].hnext = d]
  <2>1. a \in Live(h) /\ a \in 0 .. m - 1
    <3>1. i - 1 \in 1 .. Len(q)
      BY <1>3, <1>7
    <3> QED BY <1>1, <1>3, <3>1 DEF Live
  <2>2. h.bucket[b] # s
    BY <1>2, <1>5, <1>7
  <2>3. g = [h EXCEPT !.slot = sl]
    BY <1>4, <2>1, <2>2 DEF Sized
  <2>4. \A y \in Live(h) : h.slot[y].hnext = s <=> y = a
    BY <1>5, <1>7
  <2> HIDE DEF a
  <2>5. /\ sl \in [0 .. m - 1 -> SlotType]
        /\ \A y \in 0 .. m - 1 :
             /\ sl[y].key = h.slot[y].key /\ sl[y].state = h.slot[y].state
             /\ sl[y].data = h.slot[y].data
             /\ sl[y].next = h.slot[y].next /\ sl[y].prev = h.slot[y].prev
             /\ sl[y].hnext = IF y = a THEN d ELSE h.slot[y].hnext
    BY <1>1, <2>1 DEF SlotType
  <2> HIDE DEF sl
  <2>6. /\ g \in Sized(m, nb) /\ g.slot = sl
        /\ g.lru = h.lru /\ g.pin = h.pin
        /\ g.bucket = h.bucket /\ g.freehead = h.freehead /\ g.nchunk = h.nchunk
        /\ g.aslot = h.aslot /\ g.n = h.n
    BY <1>1, <2>3, <2>5, SetSlot
  <2>7. \A x \in DOMAIN h.bucket : h.bucket[x] # s
    BY <1>5, <1>7
  <2>8. \A y \in 0 .. m - 1 : sl[y].hnext = IF y \in Live(h) /\ h.slot[y].hnext = s THEN d ELSE h.slot[y].hnext
    BY <2>1, <2>4, <2>5
  <2> QED BY <1>1, <2>5, <2>6, <2>7, <2>8 DEF Relinked, StateKept, g
<1> QED BY <1>3, <1>6, <1>7

-----------------------------------------------------------------------------
(* hvEvict.                                                                *)
LEMMA LeadsLess ==
  ASSUME NEW S, S \subseteq Nat, NEW q, ListIn(q, S), NEW s \in S,
         NEW h, NEW g, NEW first, NEW field, Leads(h, first, field, q),
         \A y \in Ran(q) \ {s} :
           g.slot[y][field] = IF h.slot[y][field] = s THEN h.slot[s][field] ELSE h.slot[y][field]
  PROVE  Leads(g, IF first = s THEN h.slot[s][field] ELSE first, field, Less(q, s))
<1>1. /\ Len(q) \in Nat /\ first = At(q, 1)
      /\ \A k \in 1 .. Len(q) : q[k] \in Ran(q) /\ h.slot[q[k]][field] = At(q, k + 1)
  BY ListFacts DEF Leads, Ran
<1>2. CASE s \in Ran(q)
  <2>1. PICK i \in 1 .. Len(q) : q[i] = s
    BY <1>2 DEF Ran
  <2>2. Less(q, s) = Cut(q, i)
    BY <2>1, LessFacts
  <2>3. \A k \in 1 .. Len(q) : k # i => q[k] # s
    BY <2>1 DEF ListIn, Once
  <2>4. LeadsPast(h, g, field, q, i)
    BY <1>1, <2>1, <2>3 DEF LeadsPast
  <2>5. Leads(g, IF first = q[i] THEN h.slot[q[i]][field] ELSE first, field, Cut(q, i))
    BY <2>4, LeadsCut
  <2> QED BY <2>1, <2>2, <2>5
<1>3. CASE s \notin Ran(q)
  <2>1. \A x \in Int : At(q, x) # s
    <3>1. s # -1
      OBVIOUS
    <3> QED BY <1>3, <3>1 DEF At, Ran
  <2>2. \A k \in 1 .. Len(q) : h.slot[q[k]][field] # s
    <3> TAKE k \in 1 .. Len(q)
    <3>1. k + 1 \in Int
      OBVIOUS
    <3> QED BY <1>1, <2>1, <3>1
  <2>3. \A k \in 1 .. Len(q) : g.slot[q[k]][field] = h.slot[q[k]][field]
    BY <1>1, <1>3, <2>2
  <2>4. first # s
    BY <1>1, <2>1
  <2>5. Leads(g, first, field, q)
    BY <2>3, LeadsKept
  <2> QED BY <1>3, <2>4, <2>5 DEF Less
<1> QED BY <1>2, <1>3

Evicted(h, g, s) ==
  /\ \A y \in Slots(h) \ {s} :
       /\ g.slot[y].key = h.slot[y].key /\ g.slot[y].data = h.slot[y].data
       /\ g.slot[y].state = h.slot[y].state
       /\ g.slot[y].hnext = IF y \in Live(h) /\ h.slot[y].hnext = s
                            THEN h.slot[s].hnext ELSE h.slot[y].hnext
  /\ g.slot[s].state = "free" /\ g.slot[s].hnext = h.freehead /\ g.freehead = s
  /\ \A x \in DOMAIN h.bucket :
       g.bucket[x] = IF h.bucket[x] = s THEN h.slot[s].hnext ELSE h.bucket[x]
  /\ g.nchunk = h.nchunk /\ g.aslot = h.aslot /\ g.n = h.n - 1

LEMMA FreeSlotType ==
  ASSUME NEW x \in Int
  PROVE  /\ FreeSlot(x) \in SlotType /\ FreeSlot(x).state = "free" /\ FreeSlot(x).hnext = x
         /\ FreeSlot(x).key = -1
BY DEF FreeSlot, SlotType, Junk

LEMMA EvictLists ==
  ASSUME NEW m \in Nat, NEW nb \in Nat \ {0}, NEW h \in Sized(m, nb),
         NEW u, NEW p, NEW c, Whole(h, u, p, c), NEW s \in Live(h)
  PROVE  /\ EvictSlot(h, s) \in Sized(m, nb) /\ Evicted(h, EvictSlot(h, s), s)
         /\ Listed(EvictSlot(h, s), Less(u, s), Less(p, s))
<1> DEFINE d == h.slot[s].hnext
           g1 == Relink(h, s, d)
           g2 == Unlink(g1, s)
           g == [g2 EXCEPT !.slot[s] = FreeSlot(h.freehead), !.freehead = s, !.n = @ - 1]
<1>1. EvictSlot(h, s) = g
  BY DEF EvictSlot
<1>2. Recency(h, u, p) /\ Hashed(h, c) /\ Filled(h)
  BY DEF Whole
<1>3. /\ h \in CacheType /\ Slots(h) = 0 .. m - 1 /\ h.slot \in [0 .. m - 1 -> SlotType]
      /\ DOMAIN h.bucket = 0 .. nb - 1 /\ s \in 0 .. m - 1 /\ s \in Nat /\ d \in Int
  <2>1. h \in CacheType /\ Slots(h) = 0 .. m - 1 /\ h.slot \in [0 .. m - 1 -> SlotType]
        /\ DOMAIN h.bucket = 0 .. nb - 1
    BY SizedFacts
  <2>2. s \in 0 .. m - 1
    BY <2>1 DEF Live
  <2>3. d \in Int
    BY <2>1, <2>2 DEF SlotType
  <2> QED BY <2>1, <2>2, <2>3
<1>4. g1 \in Sized(m, nb) /\ StateKept(h, g1) /\ Relinked(h, g1, s, d)
  <2> DEFINE dd == d
  <2>1. dd \in Int
    BY <1>3
  <2> HIDE DEF dd
  <2>2. /\ Relink(h, s, dd) \in Sized(m, nb) /\ StateKept(h, Relink(h, s, dd))
        /\ Relinked(h, Relink(h, s, dd), s, dd)
    BY <1>2, <2>1, RelinkFacts
  <2> QED BY <2>2 DEF dd
<1> HIDE DEF g1, d
<1>5. Slots(g1) = 0 .. m - 1
  BY <1>4, SizedFacts
<1>6. /\ Listed(h, u, p) /\ ListIn(u, Slots(h)) /\ ListIn(p, Slots(h))
      /\ ((h.slot[s].state = "lru" /\ s \in Ran(u)) \/ (h.slot[s].state = "pin" /\ s \in Ran(p)))
  BY <1>2, <1>3, RecencyLists, LiveLists
<1>7. Listed(g1, u, p)
  <2>1. /\ Links(h, h.lru, u) /\ Links(h, h.pin, p) /\ Ran(u) \cap Ran(p) = {}
        /\ Ran(u) \subseteq Slots(h) /\ Ran(p) \subseteq Slots(h)
    BY <1>6, ListFacts DEF Listed
  <2>2. /\ \A y \in Slots(h) : g1.slot[y].next = h.slot[y].next /\ g1.slot[y].prev = h.slot[y].prev
        /\ g1.lru = h.lru /\ g1.pin = h.pin
    BY <1>4 DEF Relinked
  <2>3. Links(g1, g1.lru, u)
    BY <1>3, <1>5, <2>1, <2>2, LinksKept
  <2>4. Links(g1, g1.pin, p)
    BY <1>3, <1>5, <2>1, <2>2, LinksKept
  <2> QED BY <2>1, <2>3, <2>4 DEF Listed
<1>8. /\ g2 \in Sized(m, nb) /\ HashKept(g1, g2) /\ StateKept(g1, g2)
      /\ Listed(g2, Less(u, s), Less(p, s))
  <2>1. (g1.slot[s].state = "lru" /\ s \in Ran(u)) \/ (g1.slot[s].state = "pin" /\ s \in Ran(p))
    BY <1>3, <1>4, <1>6 DEF StateKept
  <2> QED BY <1>4, <1>7, <2>1, UnlinkLists
<1> HIDE DEF g2
<1>9. Slots(g2) = 0 .. m - 1 /\ g2.slot \in [0 .. m - 1 -> SlotType] /\ DOMAIN g2.bucket = 0 .. nb - 1
  BY <1>8, SizedFacts
<1> DEFINE fs == FreeSlot(h.freehead)
           sl == [g2.slot EXCEPT ![s] = fs]
           n1 == g2.n - 1
<1>10. h.freehead \in Int /\ g2.n \in Int /\ fs \in SlotType /\ fs.state = "free" /\ fs.hnext = h.freehead
  <2>1. h.freehead \in Int /\ g2.n \in Int
    BY <1>8 DEF Sized
  <2> QED BY <2>1, FreeSlotType
<1> HIDE DEF fs
<1>11. g = [g2 EXCEPT !.slot = sl, !.freehead = s, !.n = n1]
  BY <1>8 DEF Sized, fs
<1>12. /\ sl \in [0 .. m - 1 -> SlotType] /\ sl[s] = fs
       /\ \A y \in 0 .. m - 1 : y # s => sl[y] = g2.slot[y]
       /\ n1 \in Int /\ s \in Int
  BY <1>3, <1>9, <1>10
<1> HIDE DEF sl, g, n1
<1>13. /\ g \in Sized(m, nb) /\ g.slot = sl /\ g.freehead = s /\ g.n = n1
       /\ g.lru = g2.lru /\ g.pin = g2.pin
       /\ g.bucket = g2.bucket /\ g.nchunk = g2.nchunk /\ g.aslot = g2.aslot
  BY <1>8, <1>11, <1>12 DEF Sized
<1>14. Slots(g) = 0 .. m - 1
  BY <1>13, SizedFacts
<1>15. Evicted(h, g, s)
  <2>1. /\ \A y \in 0 .. m - 1 :
             /\ g2.slot[y].key = g1.slot[y].key /\ g2.slot[y].data = g1.slot[y].data
             /\ g2.slot[y].hnext = g1.slot[y].hnext /\ g2.slot[y].state = g1.slot[y].state
        /\ g2.bucket = g1.bucket /\ g2.nchunk = g1.nchunk /\ g2.aslot = g1.aslot /\ g2.n = g1.n
    BY <1>5, <1>8 DEF HashKept, StateKept
  <2>2. /\ \A y \in 0 .. m - 1 :
             /\ g1.slot[y].key = h.slot[y].key /\ g1.slot[y].data = h.slot[y].data
             /\ g1.slot[y].state = h.slot[y].state
             /\ g1.slot[y].hnext = IF y \in Live(h) /\ h.slot[y].hnext = s THEN d ELSE h.slot[y].hnext
        /\ \A x \in DOMAIN h.bucket : g1.bucket[x] = IF h.bucket[x] = s THEN d ELSE h.bucket[x]
        /\ g1.nchunk = h.nchunk /\ g1.aslot = h.aslot /\ g1.n = h.n
    BY <1>3, <1>4 DEF Relinked, StateKept
  <2>3. g.n = h.n - 1
    BY <1>13, <2>1, <2>2 DEF n1
  <2>4. \A y \in Slots(h) \ {s} :
          /\ g.slot[y].key = h.slot[y].key /\ g.slot[y].data = h.slot[y].data
          /\ g.slot[y].state = h.slot[y].state
          /\ g.slot[y].hnext = IF y \in Live(h) /\ h.slot[y].hnext = s THEN d ELSE h.slot[y].hnext
    BY <1>3, <1>12, <1>13, <2>1, <2>2
  <2>5. /\ g.slot[s].state = "free" /\ g.slot[s].hnext = h.freehead /\ g.freehead = s
        /\ \A x \in DOMAIN h.bucket : g.bucket[x] = IF h.bucket[x] = s THEN d ELSE h.bucket[x]
        /\ g.nchunk = h.nchunk /\ g.aslot = h.aslot
    BY <1>10, <1>12, <1>13, <2>1, <2>2
  <2> QED BY <2>3, <2>4, <2>5 DEF Evicted, d
<1>16. Listed(g, Less(u, s), Less(p, s))
  <2>1. s \notin Ran(Less(u, s)) /\ s \notin Ran(Less(p, s))
        /\ Ran(Less(u, s)) \subseteq Slots(h) /\ Ran(Less(p, s)) \subseteq Slots(h)
    <3>1. Ran(Less(u, s)) = Ran(u) \ {s} /\ Ran(Less(p, s)) = Ran(p) \ {s}
      BY <1>6, LessFacts
    <3>2. Ran(u) \subseteq Slots(h) /\ Ran(p) \subseteq Slots(h)
      BY <1>6, ListFacts
    <3> QED BY <3>1, <3>2
  <2>2. Links(g2, g2.lru, Less(u, s)) /\ Links(g2, g2.pin, Less(p, s))
        /\ Ran(Less(u, s)) \cap Ran(Less(p, s)) = {}
    BY <1>8 DEF Listed
  <2>3. \A y \in Slots(h) : y # s => g.slot[y] = g2.slot[y]
    BY <1>3, <1>12, <1>13
  <2>4. \A y \in Ran(Less(u, s)) : g.slot[y].next = g2.slot[y].next /\ g.slot[y].prev = g2.slot[y].prev
    BY <2>1, <2>3
  <2>5. \A y \in Ran(Less(p, s)) : g.slot[y].next = g2.slot[y].next /\ g.slot[y].prev = g2.slot[y].prev
    BY <2>1, <2>3
  <2>6. Links(g, g.lru, Less(u, s))
    BY <1>9, <1>13, <1>14, <2>2, <2>4, LinksKept
  <2>7. Links(g, g.pin, Less(p, s))
    BY <1>9, <1>13, <1>14, <2>2, <2>5, LinksKept
  <2> QED BY <2>2, <2>6, <2>7 DEF Listed
<1> QED BY <1>1, <1>13, <1>15, <1>16

(* What evicting slot s does to the chains. *)
Evicting(h, c, s) == [x \in DOMAIN h.bucket |-> Less(c[x], s)]

LEMMA EvictHashed ==
  ASSUME NEW m \in Nat, NEW nb \in Nat \ {0}, NEW h \in Sized(m, nb), NEW g \in Sized(m, nb),
         NEW s \in Live(h), NEW c, Hashed(h, c), Evicted(h, g, s), Live(g) = Live(h) \ {s}
  PROVE  Hashed(g, Evicting(h, c, s))
<1>1. /\ Slots(h) = 0 .. m - 1 /\ Slots(g) = Slots(h) /\ DOMAIN h.bucket = DOMAIN g.bucket
      /\ \A k : BucketOf(g, k) = BucketOf(h, k)
  <2>1. /\ Slots(h) = 0 .. m - 1 /\ DOMAIN h.bucket = 0 .. nb - 1
        /\ \A k : BucketOf(h, k) = HashOf[k] % nb
    BY SizedFacts
  <2>2. /\ Slots(g) = 0 .. m - 1 /\ DOMAIN g.bucket = 0 .. nb - 1
        /\ \A k : BucketOf(g, k) = HashOf[k] % nb
    BY SizedFacts
  <2> QED BY <2>1, <2>2
<1>2. Slots(h) \subseteq Nat
  BY <1>1
<1> SUFFICES ASSUME NEW b \in DOMAIN g.bucket
             PROVE  /\ ListIn(Less(c[b], s), Slots(g))
                    /\ Leads(g, g.bucket[b], "hnext", Less(c[b], s))
                    /\ Ran(Less(c[b], s)) = {y \in Live(g) : BucketOf(g, g.slot[y].key) = b}
  BY <1>1 DEF Hashed, Evicting
<1>3. /\ ListIn(c[b], Slots(h))
      /\ Leads(h, h.bucket[b], "hnext", c[b])
      /\ Ran(c[b]) = {y \in Live(h) : BucketOf(h, h.slot[y].key) = b}
  BY <1>1 DEF Hashed
<1>4. s \in Slots(h) /\ Live(h) \subseteq Slots(h)
  BY DEF Live
<1>5. ListIn(Less(c[b], s), Slots(g)) /\ Ran(Less(c[b], s)) = Ran(c[b]) \ {s}
  BY <1>1, <1>3, LessFacts
<1>6. Ran(Less(c[b], s)) = {y \in Live(g) : BucketOf(g, g.slot[y].key) = b}
  BY <1>1, <1>3, <1>4, <1>5 DEF Evicted
<1>7. \A y \in Ran(c[b]) \ {s} :
        g.slot[y]["hnext"] = IF h.slot[y]["hnext"] = s THEN h.slot[s]["hnext"] ELSE h.slot[y]["hnext"]
  BY <1>3, <1>4 DEF Evicted
<1>8. g.bucket[b] = IF h.bucket[b] = s THEN h.slot[s]["hnext"] ELSE h.bucket[b]
  BY <1>1 DEF Evicted
<1>9. Leads(g, IF h.bucket[b] = s THEN h.slot[s]["hnext"] ELSE h.bucket[b], "hnext", Less(c[b], s))
  BY <1>2, <1>3, <1>4, <1>7, LeadsLess
<1> QED BY <1>5, <1>6, <1>8, <1>9

LEMMA EvictWhole ==
  ASSUME NEW m \in Nat, NEW nb \in Nat \ {0}, NEW h \in Sized(m, nb),
         NEW u, NEW p, NEW c, Whole(h, u, p, c), NEW f, Freed(h, f, {}), NEW s \in Live(h)
  PROVE  LET g == EvictSlot(h, s)
         IN  /\ g \in Sized(m, nb) /\ Evicted(h, g, s)
             /\ Whole(g, Less(u, s), Less(p, s), Evicting(h, c, s))
             /\ Freed(g, Headed(s, f), {})
<1> DEFINE g == EvictSlot(h, s)
<1>1. Recency(h, u, p) /\ Hashed(h, c) /\ Filled(h) /\ Chunked(h)
  BY DEF Whole
<1>2. g \in Sized(m, nb) /\ Evicted(h, g, s) /\ Listed(g, Less(u, s), Less(p, s))
  BY EvictLists
<1> HIDE DEF g
<1>3. /\ Slots(h) = 0 .. m - 1 /\ Slots(g) = Slots(h) /\ h \in CacheType /\ NumSlots(h) = NumSlots(g)
      /\ s \in Slots(h) /\ h.slot[s].state # "free"
  BY <1>2, SizedFacts DEF Live
<1>4. /\ \A y \in Slots(h) \ {s} :
           /\ g.slot[y].key = h.slot[y].key /\ g.slot[y].data = h.slot[y].data
           /\ g.slot[y].state = h.slot[y].state
      /\ g.slot[s].state = "free" /\ g.slot[s].hnext = h.freehead /\ g.freehead = s
      /\ g.nchunk = h.nchunk /\ g.n = h.n - 1
  BY <1>2 DEF Evicted
<1>5. Live(g) = Live(h) \ {s} /\ On(g, "free") = On(h, "free") \cup {s}
      /\ On(g, "lru") = On(h, "lru") \ {s} /\ On(g, "pin") = On(h, "pin") \ {s}
  BY <1>3, <1>4 DEF Live, On
<1>6. Hashed(g, Evicting(h, c, s))
  BY <1>1, <1>2, <1>5, EvictHashed
<1>7. Filled(g)
  BY <1>1, <1>3, <1>4, <1>5 DEF Filled, Live
<1>8. Chunked(g)
  BY <1>1, <1>3, <1>4 DEF Chunked
<1>9. /\ Ran(u) = On(h, "lru") /\ Ran(p) = On(h, "pin") /\ h.n = Len(u) + Len(p)
      /\ ListIn(u, Slots(h)) /\ ListIn(p, Slots(h))
  BY <1>1, RecencyLists DEF Recency
<1>10. (s \in Ran(u) /\ s \notin Ran(p)) \/ (s \in Ran(p) /\ s \notin Ran(u))
  <2>1. Ran(u) \cap Ran(p) = {}
    BY <1>9 DEF On
  <2> QED BY <1>1, <1>3, <2>1, LiveLists
<1>11. Recency(g, Less(u, s), Less(p, s))
  <2>1. /\ Ran(Less(u, s)) = Ran(u) \ {s} /\ Ran(Less(p, s)) = Ran(p) \ {s}
        /\ Len(Less(u, s)) = IF s \in Ran(u) THEN Len(u) - 1 ELSE Len(u)
        /\ Len(Less(p, s)) = IF s \in Ran(p) THEN Len(p) - 1 ELSE Len(p)
    BY <1>9, LessFacts
  <2>2. g.n = Len(Less(u, s)) + Len(Less(p, s))
    <3> DEFINE a == Len(u)
               b == Len(p)
               x == Len(Less(u, s))
               y == Len(Less(p, s))
    <3>1. a \in Nat /\ b \in Nat
      BY <1>9, ListFacts
    <3>2. (x = a - 1 /\ y = b) \/ (x = a /\ y = b - 1)
      BY <1>10, <2>1
    <3>3. g.n = a + b - 1
      BY <1>4, <1>9
    <3> HIDE DEF a, b, x, y
    <3>4. g.n = x + y
      BY <3>1, <3>2, <3>3
    <3> QED BY <3>4 DEF x, y
  <2> QED BY <1>2, <1>5, <1>9, <2>1, <2>2 DEF Recency, Listed
<1>12. Freed(g, Headed(s, f), {})
  <2>1. ListIn(f, Slots(h)) /\ Leads(h, h.freehead, "hnext", f) /\ Ran(f) = On(h, "free")
    BY DEF Freed
  <2>2. s \notin Ran(f) /\ Slots(h) \subseteq Nat
    BY <1>3, <2>1, SlotsAre DEF On
  <2>3. ListIn(Headed(s, f), Slots(h)) /\ Ran(Headed(s, f)) = Ran(f) \cup {s}
    BY <1>3, <2>1, <2>2, HeadedFacts
  <2>4. \A y \in Ran(f) : y \in Slots(h) \ {s} /\ y \notin Live(h)
    BY <2>1, <2>2 DEF On, Live
  <2>5. \A i \in 1 .. Len(f) : g.slot[f[i]]["hnext"] = h.slot[f[i]]["hnext"]
    BY <1>2, <2>4 DEF Evicted, Ran
  <2>6. g.slot[s]["hnext"] = h.freehead
    BY <1>4
  <2>7. Leads(g, s, "hnext", Headed(s, f))
    BY <1>3, <2>1, <2>2, <2>5, <2>6, LeadsHeaded
  <2> QED BY <1>3, <1>4, <1>5, <2>1, <2>3, <2>7 DEF Freed
<1>13. Whole(g, Less(u, s), Less(p, s), Evicting(h, c, s))
  BY <1>6, <1>7, <1>8, <1>11 DEF Whole
<1> QED BY <1>2, <1>12, <1>13 DEF g

-----------------------------------------------------------------------------
(* hvCacheGet's lookup: the slot that holds the block, if there is one.    *)
LEMMA SlotOfIs ==
  ASSUME NEW h \in CacheType, NEW c, Hashed(h, c), Filled(h), NEW k \in Blocks
  PROVE  \/ SlotOf(h, k) \in Live(h) /\ h.slot[SlotOf(h, k)].key = k
         \/ SlotOf(h, k) = -1 /\ \A s \in Live(h) : h.slot[s].key # k
<1> DEFINE b == BucketOf(h, k)
           q == c[b]
           hits == {i \in DOMAIN q : h.slot[q[i]].key = k}
<1>1. b \in DOMAIN h.bucket /\ Chain(h, b) = q
  BY BucketsAre, ChainAlong
<1>2. ListIn(q, Slots(h)) /\ Ran(q) = {s \in Live(h) : BucketOf(h, h.slot[s].key) = b}
  BY <1>1 DEF Hashed
<1>3. DOMAIN q = 1 .. Len(q) /\ Len(q) \in Nat
  BY <1>2, ListFacts
<1>4. SlotOf(h, k) = IF hits = {} THEN -1 ELSE q[Min(hits)]
  BY <1>1 DEF SlotOf
<1>5. CASE hits = {}
  <2>1. ASSUME NEW s \in Live(h), h.slot[s].key = k PROVE FALSE
    <3>1. s \in Ran(q)
      BY <1>2, <2>1
    <3>2. PICK i \in 1 .. Len(q) : q[i] = s
      BY <3>1 DEF Ran
    <3> QED BY <1>3, <1>5, <2>1, <3>2
  <2> QED BY <1>4, <1>5, <2>1
<1>6. CASE hits # {}
  <2>1. hits \subseteq Nat
    BY <1>3
  <2> HIDE DEF hits
  <2>2. Min(hits) \in hits
    BY <1>6, <2>1, NaturalMin
  <2>3. Min(hits) \in 1 .. Len(q) /\ h.slot[q[Min(hits)]].key = k
    BY <1>3, <2>2 DEF hits
  <2>4. q[Min(hits)] \in Live(h)
    BY <1>2, <2>3 DEF Ran
  <2> QED BY <1>4, <1>6, <2>3, <2>4
<1> QED BY <1>5, <1>6

-----------------------------------------------------------------------------
(* hvCacheRehash makes its lists in ascending order.                       *)
Ascends(q, S) ==
  /\ ListIn(q, S) /\ Ran(q) = S
  /\ At(q, 1) = First(S)
  /\ \A i \in 1 .. Len(q) : At(q, i + 1) = After(S, q[i])

LEMMA AscendsMore ==
  ASSUME NEW S, S \subseteq Nat, NEW q, Ascends(q, S), NEW x \in Nat, \A y \in S : x < y
  PROVE  Ascends(Headed(x, q), S \cup {x})
<1> DEFINE T == S \cup {x}
           r == Headed(x, q)
           n == Len(q)
<1>1. /\ ListIn(q, S) /\ Ran(q) = S /\ At(q, 1) = First(S)
      /\ \A i \in 1 .. n : At(q, i + 1) = After(S, q[i])
  BY DEF Ascends
<1>2. ListIn(q, T) /\ x \notin Ran(q) /\ x \in T /\ T \subseteq Nat /\ n \in Nat
  <2>1. q \in Seq(S) /\ Once(q) /\ n \in Nat
    BY <1>1 DEF ListIn
  <2>2. q \in Seq(T)
    <3>1. \A i \in 1 .. n : q[i] \in T
      BY <2>1
    <3>2. q = [i \in 1 .. n |-> q[i]]
      BY <2>1
    <3> QED BY <2>1, <3>1, <3>2, MadeSeq
  <2> QED BY <1>1, <2>1, <2>2 DEF ListIn
<1>3. /\ ListIn(r, T) /\ Len(r) = n + 1 /\ Ran(r) = T /\ r[1] = x
      /\ \A i \in 1 .. n : r[i + 1] = q[i]
  BY <1>1, <1>2, HeadedFacts
<1>4. Min(T) = x
  <2>1. Min(T) \in T /\ \A y \in T : Min(T) <= y
    BY <1>2, NaturalMin
  <2>2. \A y \in T : y \in Nat /\ x <= y
    <3>1. \A y \in S : y \in Nat /\ x < y
      OBVIOUS
    <3> QED BY <3>1
  <2>3. Min(T) <= x
    BY <1>2, <2>1
  <2> HIDE DEF T
  <2> QED BY <2>1, <2>2, <2>3
<1> HIDE DEF r
<1>5. At(r, 1) = First(T)
  BY <1>2, <1>3, <1>4 DEF At, First
<1>6. {y \in T : y > x} = S /\ \A z \in S : {y \in T : y > z} = {y \in S : y > z}
  <2>1. \A y \in S : y \in Nat /\ y > x
    OBVIOUS
  <2>2. ASSUME NEW z \in S PROVE {y \in T : y > z} = {y \in S : y > z}
    <3>1. z \in Nat /\ z > x
      BY <2>1
    <3>2. ~(x > z)
      BY <3>1
    <3> QED BY <3>2
  <2>3. {y \in T : y > x} = S
    <3>1. ~(x > x)
      OBVIOUS
    <3> QED BY <2>1, <3>1
  <2> QED BY <2>2, <2>3
<1>7. ASSUME NEW i \in 1 .. Len(r) PROVE At(r, i + 1) = After(T, r[i])
  <2>1. CASE i = 1
    <3>1. At(r, 2) = At(q, 1)
      BY <1>2, <1>3 DEF At
    <3> QED BY <1>1, <1>3, <1>6, <2>1, <3>1 DEF After
  <2>2. CASE i # 1
    <3>1. i - 1 \in 1 .. n /\ r[i] = q[i - 1]
      BY <1>2, <1>3, <2>2
    <3>2. At(r, i + 1) = At(q, i)
      <4>1. i + 1 \in 1 .. Len(r) <=> i \in 1 .. n
        BY <1>2, <1>3
      <4> QED BY <1>3, <4>1 DEF At
    <3>3. At(q, (i - 1) + 1) = After(S, q[i - 1]) /\ (i - 1) + 1 = i
      BY <1>1, <3>1
    <3>4. q[i - 1] \in S
      BY <1>1, <3>1 DEF Ran
    <3> QED BY <1>6, <3>1, <3>2, <3>3, <3>4 DEF After
  <2> QED BY <2>1, <2>2
<1> QED BY <1>3, <1>5, <1>7 DEF Ascends, r

LEMMA AscendsNone == Ascends(<< >>, {})
<1> DEFINE q == << >>
<1>1. q \in Seq({}) /\ Len(q) = 0
  OBVIOUS
<1> HIDE DEF q
<1>2. ListIn(q, {}) /\ Ran(q) = {} /\ At(q, 1) = -1
  BY <1>1 DEF ListIn, Once, Ran, At
<1>3. \A i \in 1 .. Len(q) : At(q, i + 1) = After({}, q[i])
  BY <1>1
<1>4. Ascends(q, {})
  BY <1>2, <1>3 DEF Ascends, First
<1> QED BY <1>4 DEF q

LEMMA AscendsExists ==
  ASSUME NEW M \in Nat, NEW S, S \subseteq 0 .. M - 1
  PROVE  \E q : Ascends(q, S)
<1>0. \A y \in S : y \in Int /\ 0 <= y /\ y < M
  <2> TAKE y \in S
  <2>1. y \in 0 .. M - 1
    OBVIOUS
  <2> QED BY <2>1
<1> DEFINE high(i) == {s \in S : s >= M - i}
           T == {i \in 0 .. M : \E q : Ascends(q, high(i))}
<1>1. 0 \in T
  <2>1. high(0) = {}
    <3>1. ASSUME NEW y \in S PROVE ~(y >= M - 0)
      <4>1. y \in Int /\ y < M
        BY <1>0
      <4> QED BY <4>1
    <3> QED BY <3>1
  <2> HIDE DEF high
  <2>2. Ascends(<< >>, high(0))
    BY <2>1, AscendsNone
  <2> QED BY <2>2
<1>2. ASSUME NEW i \in 1 .. M, i - 1 \in T PROVE i \in T
  <2>1. PICK q : Ascends(q, high(i - 1))
    BY <1>2
  <2>2. M - i \in Nat /\ high(i - 1) \subseteq Nat /\ \A y \in high(i - 1) : M - i < y
    <3>1. M - i \in Nat
      OBVIOUS
    <3>2. ASSUME NEW y \in high(i - 1) PROVE y \in Nat /\ M - i < y
      <4>1. y \in Int /\ 0 <= y /\ y >= M - (i - 1)
        BY <1>0
      <4> QED BY <4>1
    <3> QED BY <3>1, <3>2
  <2>0. ASSUME NEW y \in S PROVE y >= M - i <=> y >= M - (i - 1) \/ y = M - i
    <3>1. y \in Int
      BY <1>0
    <3> QED BY <3>1
  <2>3. CASE M - i \in S
    <3>1. high(i) = high(i - 1) \cup {M - i}
      BY <2>0, <2>3
    <3> DEFINE x == M - i
    <3>2. x \in Nat /\ \A y \in high(i - 1) : x < y
      BY <2>2
    <3> HIDE DEF x, high
    <3>3. Ascends(Headed(x, q), high(i - 1) \cup {x})
      BY <2>1, <2>2, <3>2, AscendsMore
    <3>4. Ascends(Headed(x, q), high(i))
      BY <3>1, <3>3 DEF x
    <3> QED BY <3>4
  <2>4. CASE M - i \notin S
    <3>1. high(i) = high(i - 1)
      BY <2>0, <2>4
    <3> HIDE DEF high
    <3> QED BY <2>1, <3>1
  <2> QED BY <2>3, <2>4
<1> HIDE DEF T
<1>3. \A i \in 0 .. M : i \in T
  BY <1>1, <1>2, UpTo
<1>4. M \in T
  BY <1>3
<1>5. high(M) = S
  <2>1. ASSUME NEW y \in S PROVE y >= M - M
    <3>1. y \in Int /\ 0 <= y
      BY <1>0
    <3> QED BY <3>1
  <2> QED BY <2>1
<1> HIDE DEF high
<1> QED BY <1>4, <1>5 DEF T

(* Slots whose links follow a set in ascending order. *)
LEMMA LeadsAscending ==
  ASSUME NEW h, NEW S, NEW q, Ascends(q, S), \A s \in S : h.slot[s].hnext = After(S, s)
  PROVE  Leads(h, First(S), "hnext", q)
<1>1. \A i \in 1 .. Len(q) : q[i] \in S
  BY DEF Ascends, Ran
<1> QED BY <1>1 DEF Ascends, Leads

LEMMA ListWider ==
  ASSUME NEW S, NEW T, S \subseteq T, NEW q, ListIn(q, S)
  PROVE  ListIn(q, T)
<1>1. Len(q) \in Nat /\ (\A i \in 1 .. Len(q) : q[i] \in T) /\ q = [i \in 1 .. Len(q) |-> q[i]]
  BY ListFacts
<1>2. q \in Seq(T)
  BY <1>1, MadeSeq
<1> QED BY <1>2 DEF ListIn

-----------------------------------------------------------------------------
(* Chunks of memory.                                                       *)
LEMMA TimesChunk ==
  ASSUME NEW a \in Nat, NEW b \in Nat
  PROVE  /\ a * Chunk \in Nat
         /\ a <= b => a * Chunk <= b * Chunk
         /\ (a + 1) * Chunk = a * Chunk + Chunk /\ (a - 1) * Chunk = a * Chunk - Chunk
BY SlotsAssumption

LEMMA ChunkOf ==
  ASSUME NEW s \in Nat, NEW a \in Nat
  PROVE  s \div Chunk >= a <=> s >= a * Chunk
BY SlotsAssumption

LEMMA FieldsAre ==
  ASSUME NEW h \in CacheType
  PROVE  /\ h.nchunk \in Nat /\ h.aslot \in Nat /\ h.n \in Int /\ h.freehead \in Int
         /\ h.lru \in ListType /\ h.pin \in ListType
<1>1. PICK m \in Nat, nb \in Nat \ {0} : h \in Sized(m, nb)
  BY DEF CacheType
<1> QED BY <1>1 DEF Sized

LEMMA ListNarrow ==
  ASSUME NEW S, NEW T, NEW q, ListIn(q, S), Ran(q) \subseteq T
  PROVE  ListIn(q, T)
<1>1. Len(q) \in Nat /\ (\A i \in 1 .. Len(q) : q[i] \in T) /\ q = [i \in 1 .. Len(q) |-> q[i]]
  BY ListFacts DEF Ran
<1>2. q \in Seq(T)
  BY <1>1, MadeSeq
<1> QED BY <1>2 DEF ListIn

(* The slots in use stay, with their blocks and their places on the lists. *)
Staying(h, g) ==
  /\ Live(g) = Live(h)
  /\ \A y \in Live(h) :
       /\ g.slot[y].key = h.slot[y].key /\ g.slot[y].data = h.slot[y].data
       /\ g.slot[y].state = h.slot[y].state
       /\ g.slot[y].next = h.slot[y].next /\ g.slot[y].prev = h.slot[y].prev
  /\ g.lru = h.lru /\ g.pin = h.pin /\ g.n = h.n

LEMMA StayingRecency ==
  ASSUME NEW h, NEW g, Staying(h, g), NEW u, NEW p, Recency(h, u, p)
  PROVE  Recency(g, u, p)
<1>1. /\ Links(h, h.lru, u) /\ Ran(u) = On(h, "lru")
      /\ Links(h, h.pin, p) /\ Ran(p) = On(h, "pin") /\ h.n = Len(u) + Len(p)
  BY DEF Recency
<1>2. /\ Live(g) = Live(h) /\ Live(g) \subseteq Slots(g)
      /\ \A y \in Live(h) :
           /\ g.slot[y].state = h.slot[y].state
           /\ g.slot[y].next = h.slot[y].next /\ g.slot[y].prev = h.slot[y].prev
      /\ g.lru = h.lru /\ g.pin = h.pin /\ g.n = h.n
  <2>1. Live(g) \subseteq Slots(g)
    BY DEF Live
  <2> QED BY <2>1 DEF Staying
<1>3. On(h, "lru") \subseteq Live(h) /\ On(h, "pin") \subseteq Live(h)
  BY DEF On, Live
<1>4. On(g, "lru") = On(h, "lru") /\ On(g, "pin") = On(h, "pin")
  <2>1. \A s : s \in Live(h) => s \in Slots(h) /\ s \in Slots(g)
    BY <1>2 DEF Live
  <2>2. On(g, "lru") \subseteq Live(g) /\ On(g, "pin") \subseteq Live(g)
    BY DEF On, Live
  <2> QED BY <1>2, <1>3, <2>1, <2>2 DEF On
<1>5. ASSUME NEW l, NEW q, Links(h, l, q), Ran(q) \subseteq Live(h) PROVE Links(g, l, q)
  <2>1. \A i \in 1 .. Len(q) : q[i] \in Live(h)
    BY <1>5 DEF Ran
  <2>2. ListIn(q, Slots(g))
    BY <1>2, <1>5, ListNarrow DEF Links
  <2>3. \A i \in 1 .. Len(q) : g.slot[q[i]]["next"] = h.slot[q[i]]["next"]
    BY <1>2, <2>1
  <2>4. Leads(g, l.head, "next", q)
    BY <1>5, <2>3, LeadsKept DEF Links
  <2>5. Back(g, l.tail, q)
    BY <1>2, <1>5, <2>1, BackKept DEF Links
  <2> QED BY <1>5, <2>2, <2>4, <2>5 DEF Links
<1>6. Links(g, g.lru, u) /\ Links(g, g.pin, p)
  BY <1>1, <1>2, <1>3, <1>5
<1> QED BY <1>1, <1>2, <1>4, <1>6 DEF Recency

LEMMA StayingFilled ==
  ASSUME NEW h, NEW g, Staying(h, g), Filled(h), \A s \in Live(h) : s < g.nchunk * Chunk
  PROVE  Filled(g)
<1>1. /\ Live(g) = Live(h)
      /\ \A y \in Live(h) : g.slot[y].key = h.slot[y].key /\ g.slot[y].data = h.slot[y].data
  BY DEF Staying
<1> QED BY <1>1 DEF Filled

LEMMA StayingHashed ==
  ASSUME NEW h, NEW g, Staying(h, g), NEW c, Hashed(h, c),
         g.bucket = h.bucket, \A y \in Live(h) : g.slot[y].hnext = h.slot[y].hnext
  PROVE  Hashed(g, c)
<1>1. /\ Live(g) = Live(h) /\ Live(g) \subseteq Slots(g)
      /\ \A y \in Live(h) : g.slot[y].key = h.slot[y].key
  <2>1. Live(g) \subseteq Slots(g)
    BY DEF Live
  <2> QED BY <2>1 DEF Staying
<1>2. \A k : BucketOf(g, k) = BucketOf(h, k)
  BY DEF BucketOf
<1> SUFFICES ASSUME NEW b \in DOMAIN g.bucket
             PROVE  /\ ListIn(c[b], Slots(g))
                    /\ Leads(g, g.bucket[b], "hnext", c[b])
                    /\ Ran(c[b]) = {y \in Live(g) : BucketOf(g, g.slot[y].key) = b}
  BY DEF Hashed
<1>3. /\ ListIn(c[b], Slots(h))
      /\ Leads(h, h.bucket[b], "hnext", c[b])
      /\ Ran(c[b]) = {y \in Live(h) : BucketOf(h, h.slot[y].key) = b}
  BY DEF Hashed
<1>4. ListIn(c[b], Slots(g))
  <2>1. Ran(c[b]) \subseteq Slots(g)
    BY <1>1, <1>3
  <2> QED BY <1>3, <2>1, ListNarrow
<1>5. \A i \in 1 .. Len(c[b]) : g.slot[c[b][i]]["hnext"] = h.slot[c[b][i]]["hnext"]
  BY <1>3 DEF Ran
<1>6. Leads(g, g.bucket[b], "hnext", c[b])
  BY <1>3, <1>5, LeadsKept
<1> QED BY <1>1, <1>2, <1>3, <1>4, <1>6

(* They stay, and slots and memory may be added. *)
Lasting(h, g) == Slots(h) \subseteq Slots(g) /\ Staying(h, g) /\ g.nchunk >= h.nchunk

LEMMA LastingRecency ==
  ASSUME NEW h \in CacheType, NEW g \in CacheType, Lasting(h, g), NEW u, NEW p, Recency(h, u, p)
  PROVE  Recency(g, u, p)
BY StayingRecency DEF Lasting

LEMMA LastingFilled ==
  ASSUME NEW h \in CacheType, NEW g \in CacheType, Lasting(h, g), Filled(h)
  PROVE  Filled(g)
<1>1. Staying(h, g) /\ g.nchunk >= h.nchunk
  BY DEF Lasting
<1>2. h.nchunk \in Nat /\ g.nchunk \in Nat
  BY FieldsAre
<1>3. h.nchunk * Chunk \in Nat /\ g.nchunk * Chunk \in Nat /\ h.nchunk * Chunk <= g.nchunk * Chunk
  BY <1>1, <1>2, TimesChunk
<1>4. ASSUME NEW s \in Live(h) PROVE s < g.nchunk * Chunk
  <2>1. s \in Nat /\ s < h.nchunk * Chunk
    BY SlotsAre DEF Live, Filled
  <2> QED BY <1>3, <2>1
<1> QED BY <1>1, <1>4, StayingFilled

LEMMA LastingHashed ==
  ASSUME NEW h \in CacheType, NEW g \in CacheType, Lasting(h, g), NEW c, Hashed(h, c),
         g.bucket = h.bucket, \A y \in Live(h) : g.slot[y].hnext = h.slot[y].hnext
  PROVE  Hashed(g, c)
BY StayingHashed DEF Lasting

-----------------------------------------------------------------------------
(* hvSlotAlloc appends a slot.                                             *)
LEMMA AppendFacts ==
  ASSUME NEW m \in Nat, NEW nb \in Nat \ {0}, NEW h \in Sized(m, nb), NEW x \in Int
  PROVE  LET g == AppendSlot(h, m, x)
         IN  /\ g \in Sized(m + 1, nb)
             /\ \A y \in 0 .. m - 1 : g.slot[y] = h.slot[y]
             /\ g.slot[m] = FreeSlot(x)
             /\ g.nchunk = IF m \div Chunk >= h.nchunk THEN h.nchunk + 1 ELSE h.nchunk
             /\ g.lru = h.lru /\ g.pin = h.pin /\ g.n = h.n /\ g.aslot = h.aslot
             /\ g.bucket = h.bucket /\ g.freehead = h.freehead
<1> DEFINE sl == [y \in 0 .. m |-> IF y = m THEN FreeSlot(x) ELSE h.slot[y]]
           nc == IF m \div Chunk >= h.nchunk THEN h.nchunk + 1 ELSE h.nchunk
           g == AppendSlot(h, m, x)
<1>1. g = [h EXCEPT !.slot = sl, !.nchunk = nc]
  BY DEF AppendSlot, Sized
<1>2. FreeSlot(x) \in SlotType /\ h.slot \in [0 .. m - 1 -> SlotType] /\ h.nchunk \in Nat
  <2>1. h.nchunk \in Nat /\ h.slot \in [0 .. m - 1 -> SlotType]
    BY DEF Sized
  <2> QED BY <2>1, FreeSlotType
<1>3. /\ sl \in [0 .. m -> SlotType] /\ sl[m] = FreeSlot(x)
      /\ \A y \in 0 .. m - 1 : sl[y] = h.slot[y]
      /\ nc \in Nat
  BY <1>2
<1>4. (m + 1) - 1 = m
  OBVIOUS
<1> HIDE DEF sl, nc, g
<1>5. /\ g \in Sized(m + 1, nb) /\ g.slot = sl /\ g.nchunk = nc
      /\ g.lru = h.lru /\ g.pin = h.pin /\ g.n = h.n /\ g.aslot = h.aslot
      /\ g.bucket = h.bucket /\ g.freehead = h.freehead
  BY <1>1, <1>3, <1>4 DEF Sized
<1> QED BY <1>3, <1>5 DEF g, nc

-----------------------------------------------------------------------------
(* The struct h has become g, with slot s taken off the free list.         *)
Ready(h, g, s, u, p) ==
  /\ g \in CacheType /\ Lasting(h, g)
  /\ \E c, f : Whole(g, u, p, c) /\ Freed(g, f, IF s = -1 THEN {} ELSE {s})
  /\ s # -1 => s \in On(g, "free") /\ s < g.nchunk * Chunk

LEMMA SameLasting ==
  ASSUME NEW h, NEW g, g.slot = h.slot, g.lru = h.lru, g.pin = h.pin, g.n = h.n,
         g.nchunk = h.nchunk, h.nchunk \in Nat
  PROVE  Lasting(h, g) /\ Slots(g) = Slots(h) /\ Live(g) = Live(h)
BY DEF Lasting, Staying, Slots, Live

LEMMA UnlistReady ==
  ASSUME NEW h \in CacheType, NEW u, NEW p, NEW c, Whole(h, u, p, c), NEW f, Freed(h, f, {}),
         NEW s \in Nat, h.freehead = s
  PROVE  Ready(h, Unlist(h, s), s, u, p)
<1>1. PICK m \in Nat, nb \in Nat \ {0} : h \in Sized(m, nb)
  BY DEF CacheType
<1>2. Slots(h) = 0 .. m - 1 /\ h.slot \in [0 .. m - 1 -> SlotType]
  BY <1>1, SizedFacts
<1>3. ListIn(f, Slots(h)) /\ Leads(h, s, "hnext", f) /\ Ran(f) = On(h, "free")
  BY DEF Freed
<1>4. 1 \in 1 .. Len(f) /\ f[1] = s
  <2>1. s = At(f, 1) /\ s # -1
    BY <1>3 DEF Leads
  <2> QED BY <2>1 DEF At
<1>5. s \in On(h, "free") /\ s \in 0 .. m - 1
  BY <1>2, <1>3, <1>4 DEF Ran, On
<1> DEFINE x == h.slot[s].hnext
           g == [h EXCEPT !.freehead = x]
<1>6. Unlist(h, s) = g /\ x \in Int
  BY <1>2, <1>5 DEF Unlist, SlotType
<1>7. /\ g \in Sized(m, nb) /\ g.slot = h.slot /\ g.bucket = h.bucket /\ g.freehead = x
      /\ g.lru = h.lru /\ g.pin = h.pin
      /\ g.nchunk = h.nchunk /\ g.aslot = h.aslot /\ g.n = h.n
  BY <1>1, <1>6 DEF Sized
<1> HIDE DEF g, x
<1>8. g \in CacheType /\ h.nchunk \in Nat
  BY <1>7, SizedFacts, FieldsAre
<1>9. Lasting(h, g) /\ Slots(g) = Slots(h) /\ Live(g) = Live(h)
  BY <1>7, <1>8, SameLasting
<1>10. Recency(h, u, p) /\ Hashed(h, c) /\ Filled(h) /\ Chunked(h)
  BY DEF Whole
<1>11. Recency(g, u, p) /\ Filled(g)
  BY <1>8, <1>9, <1>10, LastingRecency, LastingFilled
<1>12. Hashed(g, c)
  BY <1>7, <1>8, <1>9, <1>10, LastingHashed
<1>13. Chunked(g)
  BY <1>7, <1>9, <1>10 DEF Chunked, NumSlots
<1>14. Whole(g, u, p, c)
  BY <1>11, <1>12, <1>13 DEF Whole
<1>15. Freed(g, Cut(f, 1), {s})
  <2>1. Slots(h) \subseteq Nat
    BY SlotsAre
  <2>2. ListIn(Cut(f, 1), Slots(h)) /\ Ran(Cut(f, 1)) = Ran(f) \ {s}
    BY <1>3, <1>4, CutFacts
  <2>3. LeadsPast(h, g, "hnext", f, 1)
    <3> SUFFICES ASSUME NEW i \in 1 .. Len(f), i # 1
                 PROVE  g.slot[f[i]]["hnext"] = IF h.slot[f[i]]["hnext"] = f[1]
                                                THEN h.slot[f[1]]["hnext"] ELSE h.slot[f[i]]["hnext"]
      BY DEF LeadsPast
    <3>1. h.slot[f[i]]["hnext"] = At(f, i + 1)
      BY <1>3 DEF Leads
    <3>2. At(f, i + 1) # f[1]
      <4>1. Placed(f) /\ i + 1 \in Int /\ i + 1 # 1
        BY <1>3, <2>1, AtPlaced
      <4> QED BY <1>4, <4>1 DEF Placed
    <3> QED BY <1>7, <3>1, <3>2
  <2>4. Leads(g, x, "hnext", Cut(f, 1))
    <3>1. Leads(g, IF s = f[1] THEN h.slot[f[1]]["hnext"] ELSE s, "hnext", Cut(f, 1))
      BY <1>3, <1>4, <2>1, <2>3, LeadsCut
    <3> QED BY <1>4, <3>1 DEF x
  <2>5. On(g, "free") = On(h, "free")
    BY <1>7, <1>9 DEF On
  <2> QED BY <1>3, <1>7, <1>9, <2>2, <2>4, <2>5 DEF Freed
<1>16. s \in On(g, "free") /\ s # -1
  BY <1>5, <1>7, <1>9 DEF On
<1>17. s < g.nchunk * Chunk
  <2>1. NumSlots(h) = m /\ m <= h.nchunk * Chunk
    BY <1>1, <1>10, SizedFacts DEF Chunked
  <2>2. h.nchunk * Chunk \in Nat
    BY <1>8, TimesChunk
  <2> QED BY <1>5, <1>7, <2>1, <2>2
<1> QED BY <1>6, <1>8, <1>9, <1>14, <1>15, <1>16, <1>17 DEF Ready

-----------------------------------------------------------------------------
(* hvCacheRehash.                                                          *)
LEMMA FirstType ==
  ASSUME NEW S, S \subseteq Nat
  PROVE  First(S) \in Int /\ \A s : After(S, s) \in Int
<1>1. ASSUME NEW T, T \subseteq Nat PROVE First(T) \in Int
  <2>1. CASE T = {}
    BY <2>1 DEF First
  <2>2. CASE T # {}
    <3>1. Min(T) \in T
      BY <1>1, <2>2, NaturalMin
    <3>2. First(T) = Min(T)
      BY <2>2 DEF First
    <3> DEFINE x == Min(T)
    <3>3. x \in Nat
      BY <1>1, <3>1
    <3> HIDE DEF x
    <3>4. x \in Int
      BY <3>3
    <3> QED BY <3>2, <3>4 DEF x
  <2> QED BY <2>1, <2>2
<1>2. ASSUME NEW s PROVE After(S, s) \in Int
  <2>1. {x \in S : x > s} \subseteq Nat
    OBVIOUS
  <2> QED BY <1>1, <2>1 DEF After
<1> QED BY <1>1, <1>2

(* What is to hang on a bucket of nb, and what is free. *)
Bucket(h, nb, b) == {s \in Live(h) : HashOf[h.slot[s].key] % nb = b}

LEMMA RehashFacts ==
  ASSUME NEW m \in Nat, NEW n0 \in Nat \ {0}, NEW h \in Sized(m, n0), Filled(h),
         NEW nb \in Nat \ {0}
  PROVE  LET g == Rehash(h, nb)
         IN  /\ g \in Sized(m, nb)
             /\ \A y \in 0 .. m - 1 :
                  /\ g.slot[y].key = h.slot[y].key /\ g.slot[y].state = h.slot[y].state
                  /\ g.slot[y].data = h.slot[y].data
                  /\ g.slot[y].next = h.slot[y].next /\ g.slot[y].prev = h.slot[y].prev
             /\ \A y \in Live(h) :
                  g.slot[y].hnext = After(Bucket(h, nb, HashOf[h.slot[y].key] % nb), y)
             /\ \A y \in On(h, "free") : g.slot[y].hnext = After(On(h, "free"), y)
             /\ \A b \in 0 .. nb - 1 : g.bucket[b] = First(Bucket(h, nb, b))
             /\ g.freehead = First(On(h, "free"))
             /\ g.lru = h.lru /\ g.pin = h.pin /\ g.n = h.n /\ g.nchunk = h.nchunk
<1> DEFINE free == Slots(h) \ Live(h)
           chain == [b \in 0 .. nb - 1 |-> {s \in Live(h) : HashOf[h.slot[s].key] % nb = b}]
           with(s) == IF s \in free THEN free ELSE chain[HashOf[h.slot[s].key] % nb]
           w == [y \in 0 .. m - 1 |-> After(with(y), y)]
           sl == [y \in 0 .. m - 1 |-> [h.slot[y] EXCEPT !.hnext = w[y]]]
           bk == [b \in 0 .. nb - 1 |-> First(chain[b])]
           fh == First(free)
           g == Rehash(h, nb)
<1>1. /\ Slots(h) = 0 .. m - 1 /\ h.slot \in [0 .. m - 1 -> SlotType]
      /\ Live(h) \subseteq Nat /\ free \subseteq Nat /\ free = On(h, "free")
  <2>1. Slots(h) = 0 .. m - 1 /\ h.slot \in [0 .. m - 1 -> SlotType]
    BY SizedFacts
  <2> QED BY <2>1, FreeSlots DEF Live
<1>2. \A s \in Live(h) : HashOf[h.slot[s].key] % nb \in 0 .. nb - 1
  <2> TAKE s \in Live(h)
  <2>1. HashOf[h.slot[s].key] \in Nat
    BY SlotsAssumption DEF Filled, Blocks
  <2> QED BY <2>1
<1>3. g = [h EXCEPT !.bucket = bk, !.freehead = fh, !.slot = sl]
  <2> DEFINE sx == [y \in Slots(h) |-> [h.slot[y] EXCEPT !.hnext = After(with(y), y)]]
  <2>1. g = [h EXCEPT !.bucket = bk, !.freehead = fh, !.slot = sx]
    BY DEF Rehash
  <2>2. sx = sl
    <3>1. \A y \in 0 .. m - 1 : w[y] = After(with(y), y)
      OBVIOUS
    <3> HIDE DEF w, with
    <3> QED BY <1>1, <3>1
  <2> QED BY <2>1, <2>2
<1>4. \A b \in 0 .. nb - 1 : chain[b] = Bucket(h, nb, b) /\ chain[b] \subseteq Nat
  BY <1>1 DEF Bucket
<1>5. \A y \in 0 .. m - 1 : y \in Live(h) \/ y \in free
  BY <1>1
<1>6. \A y \in Live(h) : with(y) = Bucket(h, nb, HashOf[h.slot[y].key] % nb)
  BY <1>2, <1>4
<1>7. \A y \in free : with(y) = free
  OBVIOUS
<1> HIDE DEF chain, free
<1>8. w \in [0 .. m - 1 -> Int]
  <2>1. ASSUME NEW y \in 0 .. m - 1 PROVE After(with(y), y) \in Int
    <3>1. with(y) \subseteq Nat
      BY <1>1, <1>2, <1>4, <1>5
    <3> QED BY <3>1, FirstType
  <2> QED BY <2>1
<1>9. bk \in [0 .. nb - 1 -> Int] /\ fh \in Int
  BY <1>1, <1>4, FirstType
<1>10. /\ \A y \in Live(h) : w[y] = After(Bucket(h, nb, HashOf[h.slot[y].key] % nb), y)
       /\ \A y \in free : w[y] = After(free, y)
  <2>1. \A y \in Live(h) \cup free : y \in 0 .. m - 1
    BY <1>1 DEF Live, free
  <2> QED BY <1>6, <1>7, <2>1
<1>11. \A b \in 0 .. nb - 1 : bk[b] = First(Bucket(h, nb, b))
  BY <1>4
<1> HIDE DEF w, bk, with
<1>12. /\ sl \in [0 .. m - 1 -> SlotType]
       /\ \A y \in 0 .. m - 1 :
            /\ sl[y].key = h.slot[y].key /\ sl[y].state = h.slot[y].state
            /\ sl[y].data = h.slot[y].data
            /\ sl[y].next = h.slot[y].next /\ sl[y].prev = h.slot[y].prev
            /\ sl[y].hnext = w[y]
  BY <1>1, <1>8 DEF SlotType
<1> HIDE DEF sl, g, fh
<1>13. /\ g \in Sized(m, nb) /\ g.slot = sl /\ g.bucket = bk /\ g.freehead = fh
       /\ g.lru = h.lru /\ g.pin = h.pin /\ g.n = h.n /\ g.nchunk = h.nchunk
  BY <1>3, <1>9, <1>12 DEF Sized
<1>14. \A y \in Live(h) \cup On(h, "free") : y \in 0 .. m - 1
  BY <1>1 DEF Live, On
<1> QED BY <1>1, <1>10, <1>11, <1>12, <1>13, <1>14 DEF g, fh

LEMMA RehashWhole ==
  ASSUME NEW h \in CacheType, NEW u, NEW p, Recency(h, u, p), Filled(h), Chunked(h),
         NEW nb \in Nat \ {0}
  PROVE  LET g == Rehash(h, nb)
         IN  /\ g \in CacheType /\ Lasting(h, g) /\ g.nchunk = h.nchunk
             /\ Slots(g) = Slots(h) /\ On(g, "free") = On(h, "free")
             /\ \E c, f : Whole(g, u, p, c) /\ Freed(g, f, {})
<1> DEFINE g == Rehash(h, nb)
<1>1. PICK m \in Nat, n0 \in Nat \ {0} : h \in Sized(m, n0)
  BY DEF CacheType
<1>2. /\ g \in Sized(m, nb)
      /\ \A y \in 0 .. m - 1 :
           /\ g.slot[y].key = h.slot[y].key /\ g.slot[y].state = h.slot[y].state
           /\ g.slot[y].data = h.slot[y].data
           /\ g.slot[y].next = h.slot[y].next /\ g.slot[y].prev = h.slot[y].prev
      /\ \A y \in Live(h) :
           g.slot[y].hnext = After(Bucket(h, nb, HashOf[h.slot[y].key] % nb), y)
      /\ \A y \in On(h, "free") : g.slot[y].hnext = After(On(h, "free"), y)
      /\ \A b \in 0 .. nb - 1 : g.bucket[b] = First(Bucket(h, nb, b))
      /\ g.freehead = First(On(h, "free"))
      /\ g.lru = h.lru /\ g.pin = h.pin /\ g.n = h.n /\ g.nchunk = h.nchunk
  BY <1>1, RehashFacts
<1> HIDE DEF g
<1>3. /\ Slots(h) = 0 .. m - 1 /\ Slots(g) = 0 .. m - 1 /\ g \in CacheType
      /\ NumSlots(h) = m /\ NumSlots(g) = m
      /\ DOMAIN g.bucket = 0 .. nb - 1 /\ \A k : BucketOf(g, k) = HashOf[k] % nb
  BY <1>1, <1>2, SizedFacts
<1>4. Live(g) = Live(h) /\ On(g, "free") = On(h, "free") /\ Live(h) \subseteq 0 .. m - 1
      /\ On(h, "free") \subseteq 0 .. m - 1
  BY <1>2, <1>3 DEF Live, On
<1>5. Lasting(h, g)
  <2>1. g.nchunk >= h.nchunk
    BY <1>2, FieldsAre
  <2> QED BY <1>2, <1>3, <1>4, <2>1 DEF Lasting, Staying
<1>6. Recency(g, u, p) /\ Filled(g)
  BY <1>3, <1>5, LastingRecency, LastingFilled
<1>7. Chunked(g)
  BY <1>2, <1>3 DEF Chunked
<1> DEFINE c == [b \in 0 .. nb - 1 |-> CHOOSE q : Ascends(q, Bucket(h, nb, b))]
<1>8. Hashed(g, c)
  <2> SUFFICES ASSUME NEW b \in DOMAIN g.bucket
               PROVE  /\ ListIn(c[b], Slots(g))
                      /\ Leads(g, g.bucket[b], "hnext", c[b])
                      /\ Ran(c[b]) = {y \in Live(g) : BucketOf(g, g.slot[y].key) = b}
    BY DEF Hashed
  <2> DEFINE S == Bucket(h, nb, b)
             q == c[b]
  <2>1. b \in 0 .. nb - 1 /\ S \subseteq 0 .. m - 1 /\ S \subseteq Live(h)
    BY <1>3, <1>4 DEF Bucket
  <2>2. q = CHOOSE r : Ascends(r, S)
    BY <2>1
  <2> HIDE DEF q, c, S
  <2>3. Ascends(q, S)
    <3>1. \E r : Ascends(r, S)
      BY <2>1, AscendsExists
    <3> QED BY <2>2, <3>1
  <2>4. \A s \in S : g.slot[s].hnext = After(S, s)
    BY <1>2, <2>1 DEF Bucket, S
  <2>5. Leads(g, First(S), "hnext", q)
    BY <2>3, <2>4, LeadsAscending
  <2>6. g.bucket[b] = First(S)
    BY <1>2, <2>1 DEF S
  <2>7. ListIn(q, Slots(g)) /\ Ran(q) = S
    BY <1>3, <2>1, <2>3, ListWider DEF Ascends
  <2>8. S = {y \in Live(g) : BucketOf(g, g.slot[y].key) = b}
    BY <1>2, <1>3, <1>4 DEF Bucket, S
  <2> QED BY <2>5, <2>6, <2>7, <2>8 DEF q
<1>9. \E f : Freed(g, f, {})
  <2> DEFINE S == On(h, "free")
  <2>1. S \subseteq 0 .. m - 1
    BY <1>4
  <2>2. \A s \in S : g.slot[s].hnext = After(S, s)
    BY <1>2
  <2>3. S = On(g, "free") /\ g.freehead = First(S)
    BY <1>2, <1>4
  <2> HIDE DEF S
  <2>4. PICK f : Ascends(f, S)
    BY <2>1, AscendsExists
  <2>5. Leads(g, g.freehead, "hnext", f)
    BY <2>2, <2>3, <2>4, LeadsAscending
  <2>6. ListIn(f, Slots(g)) /\ Ran(f) = S
    BY <1>3, <2>1, <2>4, ListWider DEF Ascends
  <2>7. Freed(g, f, {})
    BY <2>3, <2>5, <2>6 DEF Freed
  <2> QED BY <2>7
<1>10. Whole(g, u, p, c)
  BY <1>6, <1>7, <1>8 DEF Whole
<1> HIDE DEF c
<1> QED BY <1>2, <1>3, <1>4, <1>5, <1>9, <1>10 DEF g

-----------------------------------------------------------------------------
(* No slot is free when the free list is empty.                            *)
LEMMA NoneFree ==
  ASSUME NEW h \in CacheType, NEW f, Freed(h, f, {}), h.freehead < 0
  PROVE  On(h, "free") = {} /\ h.freehead = -1 /\ Len(f) = 0
<1>1. ListIn(f, Slots(h)) /\ h.freehead = At(f, 1) /\ Ran(f) = On(h, "free") /\ Slots(h) \subseteq Nat
  BY SlotsAre DEF Freed, Leads
<1>2. Len(f) \in Nat /\ \A i \in 1 .. Len(f) : f[i] \in Nat
  BY <1>1, ListFacts
<1>3. Len(f) = 0
  <2> SUFFICES ASSUME Len(f) # 0 PROVE FALSE
    OBVIOUS
  <2>1. 1 \in 1 .. Len(f)
    BY <1>2
  <2>2. h.freehead \in Nat
    BY <1>1, <1>2, <2>1 DEF At
  <2> QED BY <2>2
<1>4. ~(1 \in 1 .. Len(f)) /\ Ran(f) = {}
  BY <1>3 DEF Ran
<1> QED BY <1>1, <1>3, <1>4 DEF At

(* hvSlotAlloc's slots: one more. *)
LEMMA AppendWhole ==
  ASSUME NEW m \in Nat, NEW nb \in Nat \ {0}, NEW h \in Sized(m, nb),
         NEW u, NEW p, NEW c, Whole(h, u, p, c), NEW x \in Int, On(h, "free") = {}
  PROVE  LET g == AppendSlot(h, m, x)
         IN  /\ g \in Sized(m + 1, nb) /\ Lasting(h, g) /\ Whole(g, u, p, c)
             /\ On(g, "free") = {m} /\ m < g.nchunk * Chunk
             /\ g.freehead = h.freehead
<1> DEFINE g == AppendSlot(h, m, x)
<1>1. /\ g \in Sized(m + 1, nb)
      /\ \A y \in 0 .. m - 1 : g.slot[y] = h.slot[y]
      /\ g.slot[m] = FreeSlot(x)
      /\ g.nchunk = IF m \div Chunk >= h.nchunk THEN h.nchunk + 1 ELSE h.nchunk
      /\ g.lru = h.lru /\ g.pin = h.pin /\ g.n = h.n
      /\ g.bucket = h.bucket /\ g.freehead = h.freehead
  BY AppendFacts
<1> HIDE DEF g
<1>2. /\ Slots(h) = 0 .. m - 1 /\ h \in CacheType /\ NumSlots(h) = m
  BY SizedFacts
<1>3. m + 1 \in Nat
  OBVIOUS
<1>4. Slots(g) = 0 .. m /\ g \in CacheType /\ NumSlots(g) = m + 1
  <2>1. Slots(g) = 0 .. (m + 1) - 1 /\ g \in CacheType /\ NumSlots(g) = m + 1
    BY <1>1, <1>3, SizedFacts
  <2>2. (m + 1) - 1 = m
    OBVIOUS
  <2> QED BY <2>1, <2>2
<1>5. g.slot[m].state = "free"
  BY <1>1 DEF FreeSlot
<1>6. \A y \in 0 .. m : y \in 0 .. m - 1 \/ y = m
  OBVIOUS
<1>7. \A y \in 0 .. m - 1 : y \in 0 .. m
  OBVIOUS
<1>8. Live(g) = Live(h) /\ On(g, "free") = {m}
  <2>1. \A y \in 0 .. m - 1 : g.slot[y].state = h.slot[y].state /\ h.slot[y].state # "free"
    BY <1>1, <1>2 DEF On
  <2>2. m \in 0 .. m
    OBVIOUS
  <2> QED BY <1>2, <1>4, <1>5, <1>6, <1>7, <2>1, <2>2 DEF Live, On
<1>9. h.nchunk \in Nat /\ Recency(h, u, p) /\ Hashed(h, c) /\ Filled(h) /\ Chunked(h)
  BY <1>2, FieldsAre DEF Whole
<1>10. Lasting(h, g)
  <2>1. g.nchunk >= h.nchunk
    BY <1>1, <1>9
  <2>2. Slots(h) \subseteq Slots(g)
    BY <1>2, <1>4, <1>7
  <2>3. \A y \in Live(h) : g.slot[y] = h.slot[y]
    BY <1>1, <1>2 DEF Live
  <2> QED BY <1>1, <1>8, <2>1, <2>2, <2>3 DEF Lasting, Staying
<1>11. Recency(g, u, p) /\ Filled(g)
  BY <1>2, <1>4, <1>9, <1>10, LastingRecency, LastingFilled
<1>12. Hashed(g, c)
  <2>1. \A y \in Live(h) : g.slot[y].hnext = h.slot[y].hnext
    BY <1>1, <1>2 DEF Live
  <2> QED BY <1>1, <1>2, <1>4, <1>9, <1>10, <2>1, LastingHashed
<1>13. m + 1 <= g.nchunk * Chunk /\ (g.nchunk <= Keep \/ (g.nchunk - 1) * Chunk < m + 1)
  <2> DEFINE a == h.nchunk
             x1 == a * Chunk
             x2 == (a + 1) * Chunk
             x3 == (a - 1) * Chunk
  <2>1. m <= x1 /\ (a <= Keep \/ x3 < m)
    BY <1>2, <1>9 DEF Chunked
  <2>2. x1 \in Nat /\ x2 = x1 + Chunk /\ x3 = x1 - Chunk /\ Chunk \in Nat /\ Chunk > 0
    BY <1>9, TimesChunk, SlotsAssumption
  <2>3. m \div Chunk >= a <=> m >= x1
    BY <1>9, ChunkOf
  <2>4. CASE m \div Chunk >= a
    <3>1. g.nchunk = a + 1 /\ g.nchunk - 1 = a
      BY <1>1, <1>9, <2>4
    <3> HIDE DEF a, x1, x2, x3
    <3>2. m = x1
      BY <2>1, <2>2, <2>3, <2>4
    <3>3. m + 1 <= x2 /\ x1 < m + 1
      BY <2>2, <3>2
    <3> QED BY <3>1, <3>3 DEF x1, x2
  <2>5. CASE ~(m \div Chunk >= a)
    <3>1. g.nchunk = a
      BY <1>1, <2>5
    <3> HIDE DEF a, x1, x2, x3
    <3>2. m + 1 <= x1
      BY <2>1, <2>2, <2>3, <2>5
    <3>3. a <= Keep \/ x3 < m + 1
      BY <2>1, <2>2
    <3> QED BY <3>1, <3>2, <3>3 DEF x1, x3
  <2> QED BY <2>4, <2>5
<1>14. Chunked(g)
  BY <1>4, <1>13 DEF Chunked
<1>15. m < g.nchunk * Chunk
  <2>1. g.nchunk \in Nat
    BY <1>4, FieldsAre
  <2>2. g.nchunk * Chunk \in Nat
    BY <2>1, TimesChunk
  <2> QED BY <1>13, <2>2
<1>16. Whole(g, u, p, c)
  BY <1>11, <1>12, <1>14 DEF Whole
<1> QED BY <1>1, <1>8, <1>10, <1>15, <1>16 DEF g

LEMMA LastingOn ==
  ASSUME NEW h \in CacheType, NEW g \in CacheType, NEW k \in CacheType, Lasting(h, g), Lasting(g, k)
  PROVE  Lasting(h, k)
<1>1. h.nchunk \in Nat /\ g.nchunk \in Nat /\ k.nchunk \in Nat
  BY FieldsAre
<1>2. k.nchunk >= h.nchunk
  BY <1>1 DEF Lasting, Staying
<1> QED BY <1>2 DEF Lasting, Staying

LEMMA WholeParts ==
  ASSUME NEW h, NEW u, NEW p, NEW c
  PROVE  Whole(h, u, p, c) <=> Recency(h, u, p) /\ Hashed(h, c) /\ Filled(h) /\ Chunked(h)
BY DEF Whole

(* hvSlotAlloc.                                                            *)
LEMMA AllocReady ==
  ASSUME NEW h \in CacheType, NEW u, NEW p, NEW c, Whole(h, u, p, c), NEW f, Freed(h, f, {}),
         NEW fails
  PROVE  LET a == SlotAlloc(h, fails)
         IN  /\ Ready(h, a.hv, a.s, u, p)
             /\ a.s = -1 => h.freehead < 0 /\ fails \in {"arrays", "chunk"}
             /\ a.s \in Nat \cup {-1}
<1> DEFINE s == Cardinality(Slots(h))
           nb == Cardinality(DOMAIN h.bucket)
           aslot == IF s < h.aslot THEN h.aslot ELSE IF h.aslot = 0 THEN Chunk ELSE 2 * h.aslot
           grown == [h EXCEPT !.aslot = aslot]
           a == SlotAlloc(h, fails)
<1>1. a = IF h.freehead >= 0 THEN [hv |-> Unlist(h, h.freehead), s |-> h.freehead]
          ELSE IF s >= h.aslot /\ fails = "arrays" THEN [hv |-> h, s |-> -1]
          ELSE IF s \div Chunk >= h.nchunk /\ fails = "chunk" THEN [hv |-> grown, s |-> -1]
          ELSE IF 2 * (s + 1) <= nb THEN [hv |-> AppendSlot(grown, s, Junk), s |-> s]
          ELSE IF fails = "table" THEN [hv |-> AppendSlot(grown, s, -1), s |-> s]
          ELSE [hv |-> Unlist(Rehash(AppendSlot(grown, s, -1), 2 * nb), s), s |-> s]
  BY DEF SlotAlloc
<1>2. /\ s \in Nat /\ nb \in Nat \ {0} /\ h \in Sized(s, nb)
  BY IsSized DEF NumSlots, NumBuckets
<1> HIDE DEF s, nb
<1>3. h.nchunk \in Nat /\ h.aslot \in Nat /\ h.freehead \in Int /\ aslot \in Nat
  <2>1. h.nchunk \in Nat /\ h.aslot \in Nat /\ h.freehead \in Int
    BY FieldsAre
  <2> QED BY <2>1, SlotsAssumption
<1> HIDE DEF aslot
<1>4. /\ grown \in Sized(s, nb) /\ grown.slot = h.slot /\ grown.bucket = h.bucket
      /\ grown.freehead = h.freehead /\ grown.lru = h.lru /\ grown.pin = h.pin
      /\ grown.nchunk = h.nchunk /\ grown.n = h.n
  BY <1>2, <1>3 DEF Sized
<1> HIDE DEF grown, a
<1>5. grown \in CacheType
  BY <1>2, <1>4, SizedFacts
<1>6. Lasting(h, grown) /\ Slots(grown) = Slots(h) /\ Live(grown) = Live(h)
  BY <1>3, <1>4, SameLasting
<1>7. Recency(h, u, p) /\ Hashed(h, c) /\ Filled(h) /\ Chunked(h)
  BY WholeParts
<1>8. Whole(grown, u, p, c) /\ Freed(grown, f, {})
  <2>1. Recency(grown, u, p) /\ Filled(grown)
    BY <1>5, <1>6, <1>7, LastingRecency, LastingFilled
  <2>2. Hashed(grown, c)
    BY <1>4, <1>5, <1>6, <1>7, LastingHashed
  <2>3. Chunked(grown)
    BY <1>4, <1>6, <1>7 DEF Chunked, NumSlots
  <2>4. \A i \in 1 .. Len(f) : grown.slot[f[i]]["hnext"] = h.slot[f[i]]["hnext"]
    BY <1>4
  <2>5. Leads(grown, grown.freehead, "hnext", f)
    BY <1>4, <2>4, LeadsKept DEF Freed
  <2>6. On(grown, "free") = On(h, "free")
    BY <1>4, <1>6 DEF On
  <2>7. Freed(grown, f, {})
    BY <1>6, <2>5, <2>6 DEF Freed
  <2> QED BY <2>1, <2>2, <2>3, <2>7, WholeParts
<1>9. CASE h.freehead >= 0
  <2> DEFINE x == h.freehead
  <2>1. x \in Nat /\ h.freehead = x
    BY <1>3, <1>9
  <2>2. a.hv = Unlist(h, x) /\ a.s = x
    BY <1>1, <1>9
  <2> HIDE DEF x
  <2>3. Ready(h, Unlist(h, x), x, u, p)
    BY <2>1, UnlistReady
  <2> QED BY <2>1, <2>2, <2>3 DEF a
<1>10. CASE h.freehead < 0
  <2>1. ~(h.freehead >= 0)
    BY <1>3, <1>10
  <2>2. On(h, "free") = {} /\ On(grown, "free") = {} /\ Len(f) = 0 /\ h.freehead = -1
    <3>1. On(h, "free") = {} /\ h.freehead = -1 /\ Len(f) = 0
      BY <1>10, NoneFree
    <3> QED BY <1>4, <1>6, <3>1 DEF On
  <2>3. CASE s >= h.aslot /\ fails = "arrays"
    <3>1. a.hv = h /\ a.s = -1
      BY <1>1, <2>1, <2>3
    <3>2. Lasting(h, h)
      BY <1>3, SameLasting
    <3>3. Ready(h, h, -1, u, p)
      BY <3>2 DEF Ready
    <3> QED BY <1>10, <2>3, <3>1, <3>3 DEF a
  <2>4. CASE ~(s >= h.aslot /\ fails = "arrays") /\ s \div Chunk >= h.nchunk /\ fails = "chunk"
    <3>1. a.hv = grown /\ a.s = -1
      BY <1>1, <2>1, <2>4
    <3>2. Ready(h, grown, -1, u, p)
      BY <1>5, <1>6, <1>8 DEF Ready
    <3> QED BY <1>10, <2>4, <3>1, <3>2 DEF a
  <2>5. ASSUME NEW x \in Int
        PROVE  /\ AppendSlot(grown, s, x) \in Sized(s + 1, nb)
               /\ Lasting(h, AppendSlot(grown, s, x)) /\ Whole(AppendSlot(grown, s, x), u, p, c)
               /\ On(AppendSlot(grown, s, x), "free") = {s}
               /\ s < AppendSlot(grown, s, x).nchunk * Chunk
               /\ AppendSlot(grown, s, x).freehead = -1
    <3> DEFINE g == AppendSlot(grown, s, x)
    <3>1. /\ g \in Sized(s + 1, nb) /\ Lasting(grown, g) /\ Whole(g, u, p, c)
          /\ On(g, "free") = {s} /\ s < g.nchunk * Chunk /\ g.freehead = grown.freehead
      BY <1>2, <1>4, <1>8, <2>2, AppendWhole
    <3> HIDE DEF g
    <3>2. s + 1 \in Nat
      BY <1>2
    <3>3. g \in CacheType
      BY <1>2, <3>1, <3>2, SizedFacts
    <3>4. Lasting(h, g)
      BY <1>5, <1>6, <3>1, <3>3, LastingOn
    <3> QED BY <1>4, <2>2, <3>1, <3>4 DEF g
  <2>6. ASSUME NEW x \in Int PROVE Ready(h, AppendSlot(grown, s, x), s, u, p)
    <3> DEFINE g == AppendSlot(grown, s, x)
    <3>1. /\ g \in Sized(s + 1, nb) /\ Lasting(h, g) /\ Whole(g, u, p, c)
          /\ On(g, "free") = {s} /\ s < g.nchunk * Chunk /\ g.freehead = -1
      BY <2>5
    <3> HIDE DEF g
    <3>2. s + 1 \in Nat /\ s # -1
      BY <1>2
    <3>3. g \in CacheType
      BY <1>2, <3>1, <3>2, SizedFacts
    <3> DEFINE e == << >>
    <3>4. Len(e) = 0 /\ e \in Seq(Slots(g))
      OBVIOUS
    <3> HIDE DEF e
    <3>5. ListIn(e, Slots(g)) /\ Ran(e) = {} /\ At(e, 1) = -1
      BY <3>4 DEF ListIn, Once, Ran, At
    <3>6. \A i \in 1 .. Len(e) : g.slot[e[i]]["hnext"] = At(e, i + 1)
      BY <3>4
    <3>7. Leads(g, g.freehead, "hnext", e)
      BY <3>1, <3>5, <3>6 DEF Leads
    <3>8. Freed(g, e, {s})
      BY <3>1, <3>5, <3>7 DEF Freed
    <3> QED BY <3>1, <3>2, <3>3, <3>8 DEF Ready, g
  <2> DEFINE new == ~(s >= h.aslot /\ fails = "arrays") /\ ~(s \div Chunk >= h.nchunk /\ fails = "chunk")
  <2>7. CASE new /\ 2 * (s + 1) <= nb
    <3>1. a.hv = AppendSlot(grown, s, Junk) /\ a.s = s
      BY <1>1, <2>1, <2>7
    <3>2. Junk \in Int
      BY DEF Junk
    <3>3. Ready(h, AppendSlot(grown, s, Junk), s, u, p)
      BY <2>6, <3>2
    <3>4. s # -1
      BY <1>2
    <3> QED BY <1>2, <3>1, <3>3, <3>4 DEF a
  <2>8. CASE new /\ ~(2 * (s + 1) <= nb) /\ fails = "table"
    <3>1. a.hv = AppendSlot(grown, s, -1) /\ a.s = s
      BY <1>1, <2>1, <2>8
    <3> DEFINE x == -1
    <3>2. x \in Int
      OBVIOUS
    <3> HIDE DEF x
    <3>3. Ready(h, AppendSlot(grown, s, x), s, u, p)
      BY <2>6, <3>2
    <3>4. s # -1
      BY <1>2
    <3> QED BY <1>2, <3>1, <3>3, <3>4 DEF a, x
  <2>9. CASE new /\ ~(2 * (s + 1) <= nb) /\ fails # "table"
    <3> DEFINE x == -1
               g == AppendSlot(grown, s, x)
               r == Rehash(g, 2 * nb)
    <3>1. a.hv = Unlist(r, s) /\ a.s = s
      BY <1>1, <2>1, <2>9
    <3>2. x \in Int
      OBVIOUS
    <3> HIDE DEF x
    <3>3. /\ g \in Sized(s + 1, nb) /\ Lasting(h, g) /\ Whole(g, u, p, c) /\ On(g, "free") = {s}
      BY <2>5, <3>2
    <3> HIDE DEF g
    <3>4. s + 1 \in Nat /\ s # -1 /\ 2 * nb \in Nat \ {0}
      BY <1>2
    <3>5. g \in CacheType /\ Recency(g, u, p) /\ Filled(g) /\ Chunked(g)
      BY <1>2, <3>3, <3>4, SizedFacts, WholeParts
    <3>6. /\ r \in CacheType /\ Lasting(g, r) /\ On(r, "free") = {s}
          /\ \E c1, f1 : Whole(r, u, p, c1) /\ Freed(r, f1, {})
      <4> DEFINE n2 == 2 * nb
      <4>1. n2 \in Nat \ {0}
        BY <3>4
      <4> HIDE DEF n2
      <4>2. /\ Rehash(g, n2) \in CacheType /\ Lasting(g, Rehash(g, n2))
            /\ On(Rehash(g, n2), "free") = On(g, "free")
            /\ \E c1, f1 : Whole(Rehash(g, n2), u, p, c1) /\ Freed(Rehash(g, n2), f1, {})
        BY <3>5, <4>1, RehashWhole
      <4> QED BY <3>3, <4>2 DEF n2
    <3> HIDE DEF r
    <3>7. PICK c1, f1 : Whole(r, u, p, c1) /\ Freed(r, f1, {})
      BY <3>6
    <3>8. r.freehead = s
      <4>1. ListIn(f1, Slots(r)) /\ r.freehead = At(f1, 1) /\ Ran(f1) = {s}
        BY <3>6, <3>7 DEF Freed, Leads
      <4>2. Len(f1) \in Nat /\ \A i \in 1 .. Len(f1) : f1[i] = s
        BY <4>1, ListFacts DEF Ran
      <4>3. 1 \in 1 .. Len(f1)
        <5>1. PICK i \in 1 .. Len(f1) : f1[i] = s
          BY <4>1 DEF Ran
        <5> QED BY <4>2, <5>1
      <4> QED BY <4>1, <4>2, <4>3 DEF At
    <3>9. Ready(r, Unlist(r, s), s, u, p)
      BY <1>2, <3>6, <3>7, <3>8, UnlistReady
    <3>10. Ready(h, Unlist(r, s), s, u, p)
      <4>1. Unlist(r, s) \in CacheType /\ Lasting(r, Unlist(r, s))
        BY <3>9 DEF Ready
      <4>2. Lasting(h, r)
        BY <3>3, <3>5, <3>6, LastingOn
      <4>3. Lasting(h, Unlist(r, s))
        BY <3>6, <4>1, <4>2, LastingOn
      <4> QED BY <3>9, <4>3 DEF Ready
    <3> QED BY <1>2, <3>1, <3>4, <3>10 DEF a
  <2> QED BY <2>3, <2>4, <2>7, <2>8, <2>9
<1> QED BY <1>3, <1>9, <1>10

-----------------------------------------------------------------------------
(* hvCachePut's end: block k goes into the slot.                           *)
Filling(h, g, s, k, b) ==
  /\ \A y \in Slots(h) :
       /\ g.slot[y].state = h.slot[y].state
       /\ g.slot[y].next = h.slot[y].next /\ g.slot[y].prev = h.slot[y].prev
       /\ g.slot[y].key = IF y = s THEN k ELSE h.slot[y].key
       /\ g.slot[y].data = IF y = s THEN k ELSE h.slot[y].data
       /\ g.slot[y].hnext = IF y = s THEN h.bucket[b] ELSE h.slot[y].hnext
  /\ \A x \in DOMAIN h.bucket : g.bucket[x] = IF x = b THEN s ELSE h.bucket[x]
  /\ g.lru = h.lru /\ g.pin = h.pin /\ g.freehead = h.freehead
  /\ g.nchunk = h.nchunk /\ g.n = h.n + 1

SlotFilled(f, s, k, x) == [f EXCEPT ![s].key = k, ![s].data = k, ![s].hnext = x]

LEMMA SlotFilledFacts ==
  ASSUME NEW m \in Nat, NEW f \in [0 .. m - 1 -> SlotType], NEW s \in 0 .. m - 1,
         NEW k \in Int, NEW x \in Int
  PROVE  /\ SlotFilled(f, s, k, x) \in [0 .. m - 1 -> SlotType]
         /\ \A y \in 0 .. m - 1 :
              /\ SlotFilled(f, s, k, x)[y].state = f[y].state
              /\ SlotFilled(f, s, k, x)[y].next = f[y].next
              /\ SlotFilled(f, s, k, x)[y].prev = f[y].prev
              /\ SlotFilled(f, s, k, x)[y].key = IF y = s THEN k ELSE f[y].key
              /\ SlotFilled(f, s, k, x)[y].data = IF y = s THEN k ELSE f[y].data
              /\ SlotFilled(f, s, k, x)[y].hnext = IF y = s THEN x ELSE f[y].hnext
<1> DEFINE r == f[s]
           r1 == [r EXCEPT !.key = k]
           r2 == [r1 EXCEPT !.data = k]
           r3 == [r2 EXCEPT !.hnext = x]
           sl == SlotFilled(f, s, k, x)
<1>1. r \in SlotType
  OBVIOUS
<1>2. sl = [f EXCEPT ![s] = r3]
  BY DEF SlotFilled
<1> HIDE DEF r
<1>3. /\ r1 \in SlotType /\ r1.key = k /\ r1.data = r.data /\ r1.state = r.state
      /\ r1.prev = r.prev /\ r1.next = r.next /\ r1.hnext = r.hnext
  BY <1>1 DEF SlotType
<1> HIDE DEF r1
<1>4. /\ r2 \in SlotType /\ r2.key = k /\ r2.data = k /\ r2.state = r1.state
      /\ r2.prev = r1.prev /\ r2.next = r1.next /\ r2.hnext = r1.hnext
  BY <1>3 DEF SlotType
<1> HIDE DEF r2
<1>5. /\ r3 \in SlotType /\ r3.key = k /\ r3.data = k /\ r3.state = r2.state
      /\ r3.prev = r2.prev /\ r3.next = r2.next /\ r3.hnext = x
  BY <1>4 DEF SlotType
<1> HIDE DEF r3, sl
<1>6. /\ sl \in [0 .. m - 1 -> SlotType] /\ sl[s] = r3
      /\ \A y \in 0 .. m - 1 : y # s => sl[y] = f[y]
  BY <1>2, <1>5
<1>7. /\ r3.state = f[s].state /\ r3.prev = f[s].prev /\ r3.next = f[s].next
  BY <1>3, <1>4, <1>5 DEF r
<1> QED BY <1>5, <1>6, <1>7 DEF sl

LEMMA FillingFacts ==
  ASSUME NEW m \in Nat, NEW nb \in Nat \ {0}, NEW h \in Sized(m, nb),
         NEW s \in 0 .. m - 1, NEW k \in Int, NEW b \in 0 .. nb - 1, NEW x \in Int, h.bucket[b] = x
  PROVE  LET g == [h EXCEPT !.slot[s].key = k, !.slot[s].data = k,
                            !.slot[s].hnext = x, !.bucket[b] = s, !.n = @ + 1]
         IN  g \in Sized(m, nb) /\ Filling(h, g, s, k, b)
<1> DEFINE sl == [h.slot EXCEPT ![s].key = k, ![s].data = k, ![s].hnext = x]
           bk == [h.bucket EXCEPT ![b] = s]
           n1 == h.n + 1
           g == [h EXCEPT !.slot[s].key = k, !.slot[s].data = k,
                          !.slot[s].hnext = x, !.bucket[b] = s, !.n = @ + 1]
<1>1. /\ h.slot \in [0 .. m - 1 -> SlotType] /\ Slots(h) = 0 .. m - 1
      /\ h.bucket \in [0 .. nb - 1 -> Int] /\ DOMAIN h.bucket = 0 .. nb - 1
  BY SizedFacts
<1>2. g = [h EXCEPT !.slot = sl, !.bucket = bk, !.n = n1]
  BY DEF Sized
<1>3. /\ x \in Int /\ h.n \in Int /\ n1 \in Int /\ bk \in [0 .. nb - 1 -> Int]
      /\ \A y \in 0 .. nb - 1 : bk[y] = IF y = b THEN s ELSE h.bucket[y]
  <2>1. h.n \in Int
    BY DEF Sized
  <2> QED BY <1>1, <2>1
<1>4. /\ sl \in [0 .. m - 1 -> SlotType]
      /\ \A y \in 0 .. m - 1 :
           /\ sl[y].state = h.slot[y].state
           /\ sl[y].next = h.slot[y].next /\ sl[y].prev = h.slot[y].prev
           /\ sl[y].key = IF y = s THEN k ELSE h.slot[y].key
           /\ sl[y].data = IF y = s THEN k ELSE h.slot[y].data
           /\ sl[y].hnext = IF y = s THEN x ELSE h.slot[y].hnext
  <2>1. sl = SlotFilled(h.slot, s, k, x)
    BY DEF SlotFilled
  <2> HIDE DEF sl
  <2>2. PICK z \in [0 .. m - 1 -> SlotType] : z = h.slot
    BY <1>1
  <2>3. sl = SlotFilled(z, s, k, x)
    BY <2>1, <2>2
  <2>4. /\ SlotFilled(z, s, k, x) \in [0 .. m - 1 -> SlotType]
        /\ \A y \in 0 .. m - 1 :
             /\ SlotFilled(z, s, k, x)[y].state = z[y].state
             /\ SlotFilled(z, s, k, x)[y].next = z[y].next
             /\ SlotFilled(z, s, k, x)[y].prev = z[y].prev
             /\ SlotFilled(z, s, k, x)[y].key = IF y = s THEN k ELSE z[y].key
             /\ SlotFilled(z, s, k, x)[y].data = IF y = s THEN k ELSE z[y].data
             /\ SlotFilled(z, s, k, x)[y].hnext = IF y = s THEN x ELSE z[y].hnext
    BY SlotFilledFacts
  <2> QED BY <2>2, <2>3, <2>4
<1> HIDE DEF sl, bk, n1, g
<1>7. /\ g \in Sized(m, nb) /\ g.slot = sl /\ g.bucket = bk /\ g.n = n1
      /\ g.lru = h.lru /\ g.pin = h.pin /\ g.freehead = h.freehead
      /\ g.nchunk = h.nchunk
  BY <1>2, <1>3, <1>4 DEF Sized
<1>9. Filling(h, g, s, k, b)
  BY <1>1, <1>3, <1>4, <1>7 DEF Filling, n1
<1> QED BY <1>7, <1>9 DEF g

FillOn(h, s, k, L) ==
  LET b == BucketOf(h, k)
  IN  PushFront([h EXCEPT !.slot[s].key = k, !.slot[s].data = k,
                          !.slot[s].hnext = h.bucket[b], !.bucket[b] = s, !.n = @ + 1], L, s)

LEMMA FillIsOn ==
  ASSUME NEW h, NEW s, NEW k, NEW pinned
  PROVE  Fill(h, s, k, pinned) = FillOn(h, s, k, IF pinned THEN "pin" ELSE "lru")
BY DEF Fill, FillOn

Backed(h, s) == s < h.nchunk * Chunk
Absent(h, k) == \A y \in Live(h) : h.slot[y].key # k

FillDone(h, r, u, p, f, s, k) ==
  /\ \E c : Whole(r, u, p, c)
  /\ Freed(r, f, {})
  /\ \A y \in Live(h) : r.slot[y].key = h.slot[y].key
  /\ r.slot[s].key = k

LEMMA FillWhole ==
  ASSUME NEW m \in Nat, NEW nb \in Nat \ {0}, NEW h \in Sized(m, nb),
         NEW u, NEW p, NEW c, Whole(h, u, p, c), NEW s \in On(h, "free"), NEW f, Freed(h, f, {s}),
         Backed(h, s), NEW k \in Blocks, Absent(h, k), NEW L \in {"lru", "pin"}
  PROVE  /\ FillOn(h, s, k, L) \in Sized(m, nb)
         /\ FillDone(h, FillOn(h, s, k, L), Onto(L, "lru", s, u), Onto(L, "pin", s, p), f, s, k)
<1>0. s < h.nchunk * Chunk /\ \A y \in Live(h) : h.slot[y].key # k
  BY DEF Backed, Absent
<1> DEFINE b == BucketOf(h, k)
           g == [h EXCEPT !.slot[s].key = k, !.slot[s].data = k,
                          !.slot[s].hnext = h.bucket[b], !.bucket[b] = s, !.n = @ + 1]
           r == PushFront(g, L, s)
           u1 == Onto(L, "lru", s, u)
           p1 == Onto(L, "pin", s, p)
<1>1. FillOn(h, s, k, L) = r
  BY DEF FillOn
<1>2. /\ h \in CacheType /\ Slots(h) = 0 .. m - 1 /\ DOMAIN h.bucket = 0 .. nb - 1
      /\ NumSlots(h) = m
  BY SizedFacts
<1>3. Slots(h) \subseteq Nat /\ s \in Slots(h) /\ h.slot[s].state = "free" /\ s \notin Live(h)
  BY <1>2, SlotsAre DEF On, Live
<1>4. b \in 0 .. nb - 1 /\ k \in Int
  BY <1>2, BucketsAre DEF Blocks
<1> HIDE DEF b
<1>5. g \in Sized(m, nb) /\ Filling(h, g, s, k, b)
  <2>1. s \in 0 .. m - 1
    BY <1>2, <1>3
  <2> DEFINE x == h.bucket[b]
             gx == [h EXCEPT !.slot[s].key = k, !.slot[s].data = k,
                             !.slot[s].hnext = x, !.bucket[b] = s, !.n = @ + 1]
  <2>2. x \in Int /\ h.bucket[b] = x /\ g = gx
    BY <1>2, <1>4, BucketsAre
  <2> HIDE DEF x, g
  <2>3. gx \in Sized(m, nb) /\ Filling(h, gx, s, k, b)
    BY <1>4, <2>1, <2>2, FillingFacts
  <2> QED BY <2>2, <2>3
<1> HIDE DEF g
<1>6. /\ \A y \in Slots(h) :
           /\ g.slot[y].state = h.slot[y].state
           /\ g.slot[y].next = h.slot[y].next /\ g.slot[y].prev = h.slot[y].prev
           /\ g.slot[y].key = IF y = s THEN k ELSE h.slot[y].key
           /\ g.slot[y].data = IF y = s THEN k ELSE h.slot[y].data
           /\ g.slot[y].hnext = IF y = s THEN h.bucket[b] ELSE h.slot[y].hnext
      /\ \A x \in DOMAIN h.bucket : g.bucket[x] = IF x = b THEN s ELSE h.bucket[x]
      /\ g.lru = h.lru /\ g.pin = h.pin /\ g.freehead = h.freehead
      /\ g.nchunk = h.nchunk /\ g.n = h.n + 1
  BY <1>5 DEF Filling
<1>7. Slots(g) = Slots(h)
  <2>1. Slots(g) = 0 .. m - 1
    BY <1>5, SizedFacts
  <2> QED BY <1>2, <2>1
<1>8. Recency(h, u, p) /\ Hashed(h, c) /\ Filled(h) /\ Chunked(h)
  BY WholeParts
<1>9. /\ Ran(u) = On(h, "lru") /\ Ran(p) = On(h, "pin") /\ h.n = Len(u) + Len(p)
      /\ Links(h, h.lru, u) /\ Links(h, h.pin, p) /\ Ran(u) \cap Ran(p) = {}
      /\ ListIn(u, Slots(h)) /\ ListIn(p, Slots(h))
      /\ Ran(u) \subseteq Slots(h) /\ Ran(p) \subseteq Slots(h)
      /\ s \notin Ran(u) /\ s \notin Ran(p)
  <2>1. Ran(u) = On(h, "lru") /\ Ran(p) = On(h, "pin") /\ h.n = Len(u) + Len(p)
        /\ Links(h, h.lru, u) /\ Links(h, h.pin, p)
    BY <1>8 DEF Recency
  <2>2. ListIn(u, Slots(h)) /\ ListIn(p, Slots(h))
    BY <2>1 DEF Links
  <2>3. Ran(u) \subseteq Slots(h) /\ Ran(p) \subseteq Slots(h)
    BY <2>2, ListFacts
  <2> QED BY <1>3, <2>1, <2>2, <2>3 DEF On
<1>10. Listed(g, u, p)
  <2>1. Links(g, g.lru, u)
    BY <1>6, <1>7, <1>9, LinksKept
  <2>2. Links(g, g.pin, p)
    BY <1>6, <1>7, <1>9, LinksKept
  <2> QED BY <1>9, <2>1, <2>2 DEF Listed
<1>11. L \in {"lru", "pin"}
  OBVIOUS
<1>12. /\ r \in Sized(m, nb) /\ HashKept(g, r)
       /\ \A y \in Slots(g) : r.slot[y].state = IF y = s THEN L ELSE g.slot[y].state
       /\ Listed(r, u1, p1)
  <2>1. s \in 0 .. m - 1
    BY <1>2, <1>3
  <2> QED BY <1>5, <1>9, <1>10, <1>11, <2>1, PushLists
<1> HIDE DEF r
<1>13. /\ Slots(r) = 0 .. m - 1 /\ DOMAIN r.bucket = 0 .. nb - 1 /\ NumSlots(r) = m
       /\ \A x : BucketOf(r, x) = HashOf[x] % nb
  BY <1>12, SizedFacts
<1>14. \A x : BucketOf(h, x) = HashOf[x] % nb
  BY SizedFacts
<1>15. /\ \A y \in Slots(h) :
            /\ r.slot[y].state = IF y = s THEN L ELSE h.slot[y].state
            /\ r.slot[y].key = IF y = s THEN k ELSE h.slot[y].key
            /\ r.slot[y].data = IF y = s THEN k ELSE h.slot[y].data
            /\ r.slot[y].hnext = IF y = s THEN h.bucket[b] ELSE h.slot[y].hnext
       /\ \A x \in DOMAIN h.bucket : r.bucket[x] = IF x = b THEN s ELSE h.bucket[x]
       /\ r.freehead = h.freehead /\ r.nchunk = h.nchunk /\ r.n = h.n + 1
  BY <1>6, <1>7, <1>12 DEF HashKept
<1>16. /\ Live(r) = Live(h) \cup {s} /\ On(r, "free") = On(h, "free") \ {s}
       /\ On(r, "lru") = (IF L = "lru" THEN On(h, "lru") \cup {s} ELSE On(h, "lru"))
       /\ On(r, "pin") = (IF L = "pin" THEN On(h, "pin") \cup {s} ELSE On(h, "pin"))
  BY <1>2, <1>3, <1>11, <1>13, <1>15 DEF Live, On
<1>17. Recency(r, u1, p1)
  <2>1. /\ Ran(u1) = IF L = "lru" THEN Ran(u) \cup {s} ELSE Ran(u)
        /\ Len(u1) = IF L = "lru" THEN Len(u) + 1 ELSE Len(u)
    BY <1>3, <1>9, OntoFacts
  <2>2. /\ Ran(p1) = IF L = "pin" THEN Ran(p) \cup {s} ELSE Ran(p)
        /\ Len(p1) = IF L = "pin" THEN Len(p) + 1 ELSE Len(p)
    BY <1>3, <1>9, OntoFacts
  <2>3. Len(u) \in Nat /\ Len(p) \in Nat
    BY <1>9, ListFacts
  <2> HIDE DEF u1, p1
  <2>4. Ran(u1) = On(r, "lru") /\ Ran(p1) = On(r, "pin")
    BY <1>9, <1>16, <2>1, <2>2
  <2>5. r.n = Len(u1) + Len(p1)
    <3>1. CASE L = "lru"
      BY <1>9, <1>15, <2>1, <2>2, <2>3, <3>1
    <3>2. CASE L = "pin"
      BY <1>9, <1>15, <2>1, <2>2, <2>3, <3>2
    <3> QED BY <1>11, <3>1, <3>2
  <2>6. Listed(r, u1, p1)
    BY <1>12 DEF u1, p1
  <2> QED BY <2>4, <2>5, <2>6 DEF Recency, Listed
<1>18. Filled(r)
  <2>1. /\ \A y \in Live(h) : h.slot[y].key \in Blocks /\ h.slot[y].data = h.slot[y].key
                              /\ y < h.nchunk * Chunk
        /\ \A y, z \in Live(h) : h.slot[y].key = h.slot[z].key => y = z
    BY <1>8 DEF Filled
  <2>2. Live(h) \subseteq Slots(h)
    BY DEF Live
  <2>3. \A y \in Live(h) : y # s /\ r.slot[y].key = h.slot[y].key /\ r.slot[y].data = h.slot[y].data
    BY <1>3, <1>15, <2>2
  <2>4. r.slot[s].key = k /\ r.slot[s].data = k
    BY <1>3, <1>15
  <2> QED BY <1>0, <1>15, <1>16, <2>1, <2>3, <2>4 DEF Filled
<1>19. Chunked(r)
  BY <1>2, <1>8, <1>13, <1>15 DEF Chunked
<1> DEFINE c2 == [x \in 0 .. nb - 1 |-> IF x = b THEN Headed(s, c[b]) ELSE c[x]]
<1>20. Hashed(r, c2)
  <2> SUFFICES ASSUME NEW x \in 0 .. nb - 1
               PROVE  /\ ListIn(c2[x], Slots(r))
                      /\ Leads(r, r.bucket[x], "hnext", c2[x])
                      /\ Ran(c2[x]) = {y \in Live(r) : BucketOf(r, r.slot[y].key) = x}
    BY <1>13 DEF Hashed
  <2>1. /\ ListIn(c[x], Slots(h))
        /\ Leads(h, h.bucket[x], "hnext", c[x])
        /\ Ran(c[x]) = {y \in Live(h) : BucketOf(h, h.slot[y].key) = x}
    BY <1>2, <1>8 DEF Hashed
  <2>2. \A i \in 1 .. Len(c[x]) : c[x][i] \in Live(h)
    BY <2>1 DEF Ran
  <2>3. Live(h) \subseteq Slots(h) /\ s \notin Ran(c[x])
    BY <1>3, <2>1 DEF Live
  <2>4. \A i \in 1 .. Len(c[x]) : r.slot[c[x][i]]["hnext"] = h.slot[c[x][i]]["hnext"]
    BY <1>3, <1>15, <2>2, <2>3
  <2>5. \A y \in Live(h) : r.slot[y].key = h.slot[y].key
    BY <1>3, <1>15, <2>3
  <2>6. BucketOf(r, r.slot[s].key) = b
    BY <1>3, <1>13, <1>14, <1>15 DEF b
  <2>7. CASE x = b
    <3>1. c2[x] = Headed(s, c[x])
      BY <2>7
    <3> HIDE DEF c2
    <3>2. ListIn(Headed(s, c[x]), Slots(h)) /\ Ran(Headed(s, c[x])) = Ran(c[x]) \cup {s}
      BY <1>3, <2>1, <2>3, HeadedFacts
    <3>3. r.slot[s]["hnext"] = h.bucket[x]
      BY <1>3, <1>15, <2>7
    <3>4. Leads(r, s, "hnext", Headed(s, c[x]))
      BY <1>3, <2>1, <2>3, <2>4, <3>3, LeadsHeaded
    <3>5. r.bucket[x] = s
      BY <1>2, <1>15, <2>7
    <3>6. Ran(Headed(s, c[x])) = {y \in Live(r) : BucketOf(r, r.slot[y].key) = x}
      BY <1>13, <1>14, <1>16, <2>1, <2>5, <2>6, <2>7, <3>2
    <3> QED BY <1>2, <1>13, <3>1, <3>2, <3>4, <3>5, <3>6
  <2>8. CASE x # b
    <3>1. c2[x] = c[x]
      BY <2>8
    <3> HIDE DEF c2
    <3>2. Leads(r, h.bucket[x], "hnext", c[x])
      BY <2>1, <2>4, LeadsKept
    <3>3. r.bucket[x] = h.bucket[x]
      BY <1>2, <1>15, <2>8
    <3>4. Ran(c[x]) = {y \in Live(r) : BucketOf(r, r.slot[y].key) = x}
      BY <1>13, <1>14, <1>16, <2>1, <2>5, <2>6, <2>8
    <3> QED BY <1>2, <1>13, <2>1, <3>1, <3>2, <3>3, <3>4
  <2> QED BY <2>7, <2>8
<1>21. Freed(r, f, {})
  <2>1. ListIn(f, Slots(h)) /\ Leads(h, h.freehead, "hnext", f) /\ Ran(f) = On(h, "free") \ {s}
    BY DEF Freed
  <2>2. \A i \in 1 .. Len(f) : f[i] \in Slots(h) /\ f[i] # s
    BY <2>1 DEF Ran, On
  <2>3. \A i \in 1 .. Len(f) : r.slot[f[i]]["hnext"] = h.slot[f[i]]["hnext"]
    BY <1>15, <2>2
  <2>4. Leads(r, r.freehead, "hnext", f)
    BY <1>15, <2>1, <2>3, LeadsKept
  <2> QED BY <1>2, <1>13, <1>16, <2>1, <2>4 DEF Freed
<1>22. Whole(r, u1, p1, c2)
  BY <1>17, <1>18, <1>19, <1>20, WholeParts
<1>23. r.slot[s].key = k /\ \A y \in Live(h) : r.slot[y].key = h.slot[y].key
  <2>1. Live(h) \subseteq Slots(h)
    BY DEF Live
  <2> QED BY <1>3, <1>15, <2>1
<1> HIDE DEF c2
<1>24. FillDone(h, r, u1, p1, f, s, k)
  BY <1>21, <1>22, <1>23 DEF FillDone
<1> QED BY <1>1, <1>12, <1>24 DEF u1, p1

-----------------------------------------------------------------------------
(***************************************************************************)
(* The cache HvCache sees: the blocks along the two lists.                 *)
(***************************************************************************)
Keys(h, q) == [i \in 1 .. Len(q) |-> h.slot[q[i]].key]

LEMMA SameSeq ==
  ASSUME NEW S, NEW T, NEW a \in Seq(S), NEW b \in Seq(T), Len(a) = Len(b),
         \A i \in 1 .. Len(a) : a[i] = b[i]
  PROVE  a = b
<1>1. a = [i \in 1 .. Len(a) |-> a[i]] /\ b = [i \in 1 .. Len(b) |-> b[i]]
  OBVIOUS
<1> QED BY <1>1

LEMMA JoinFacts ==
  ASSUME NEW U, NEW a \in Seq(U), NEW b \in Seq(U)
  PROVE  /\ a \o b \in Seq(U) /\ Len(a \o b) = Len(a) + Len(b)
         /\ \A i \in 1 .. Len(a) + Len(b) :
              (a \o b)[i] = IF i <= Len(a) THEN a[i] ELSE b[i - Len(a)]
  OBVIOUS

LEMMA KeysFacts ==
  ASSUME NEW h \in CacheType, Filled(h), NEW q, ListIn(q, Slots(h)), Ran(q) \subseteq Live(h)
  PROVE  /\ Keys(h, q) \in Seq(Blocks) /\ Len(Keys(h, q)) = Len(q) /\ Len(q) \in Nat
         /\ DOMAIN Keys(h, q) = 1 .. Len(q)
         /\ \A i \in 1 .. Len(q) : Keys(h, q)[i] = h.slot[q[i]].key
         /\ \A i, j \in 1 .. Len(q) : Keys(h, q)[i] = Keys(h, q)[j] => i = j
         /\ \A s \in Live(h) : h.slot[s].key \in ToSet(Keys(h, q)) <=> s \in Ran(q)
<1> DEFINE n == Len(q)
           r == Keys(h, q)
<1>1. n \in Nat /\ Once(q) /\ \A i \in 1 .. n : q[i] \in Live(h)
  BY ListFacts DEF ListIn, Ran
<1>2. /\ \A s \in Live(h) : h.slot[s].key \in Blocks
      /\ \A s, t \in Live(h) : h.slot[s].key = h.slot[t].key => s = t
  BY DEF Filled
<1>3. r = [i \in 1 .. n |-> h.slot[q[i]].key]
  BY DEF Keys
<1> HIDE DEF r
<1>4. r \in [1 .. n -> Blocks]
  BY <1>1, <1>2, <1>3
<1>5. r \in Seq(Blocks) /\ Len(r) = n /\ DOMAIN r = 1 .. n
  BY <1>1, <1>4, MadeSeq
<1>6. \A i \in 1 .. n : r[i] = h.slot[q[i]].key
  BY <1>3
<1>7. \A i, j \in 1 .. n : r[i] = r[j] => i = j
  <2> SUFFICES ASSUME NEW i \in 1 .. n, NEW j \in 1 .. n, r[i] = r[j] PROVE i = j
    OBVIOUS
  <2>1. q[i] = q[j]
    BY <1>1, <1>2, <1>6
  <2> QED BY <1>1, <2>1 DEF Once
<1>8. \A s \in Live(h) : h.slot[s].key \in ToSet(r) <=> s \in Ran(q)
  <2> SUFFICES ASSUME NEW s \in Live(h) PROVE h.slot[s].key \in ToSet(r) <=> s \in Ran(q)
    OBVIOUS
  <2>1. ASSUME h.slot[s].key \in ToSet(r) PROVE s \in Ran(q)
    <3>1. PICK i \in 1 .. n : r[i] = h.slot[s].key
      BY <1>5, <2>1 DEF ToSet
    <3>2. q[i] = s
      BY <1>1, <1>2, <1>6, <3>1
    <3> QED BY <3>2 DEF Ran
  <2>2. ASSUME s \in Ran(q) PROVE h.slot[s].key \in ToSet(r)
    <3>1. PICK i \in 1 .. n : q[i] = s
      BY <2>2 DEF Ran
    <3> QED BY <1>5, <1>6, <3>1 DEF ToSet
  <2> QED BY <2>1, <2>2
<1> QED BY <1>1, <1>5, <1>6, <1>7, <1>8 DEF r

LEMMA BlocksAre ==
  ASSUME NEW h \in CacheType, NEW u, NEW p, Recency(h, u, p)
  PROVE  BlocksOf(h) = [lru |-> Keys(h, u), pin |-> Keys(h, p)]
<1>1. Links(h, h.lru, u) /\ Links(h, h.pin, p)
  BY DEF Recency
<1>2. ListOf(h, "lru") = u /\ ListOf(h, "pin") = p
  BY <1>1, LinksAlong DEF ListOf
<1>3. DOMAIN u = 1 .. Len(u) /\ DOMAIN p = 1 .. Len(p)
  BY <1>1, ListFacts DEF Links
<1> QED BY <1>2, <1>3 DEF BlocksOf, BlocksOn, Keys

LEMMA KeysKept ==
  ASSUME NEW h, NEW g, NEW q, \A y \in Ran(q) : g.slot[y].key = h.slot[y].key
  PROVE  Keys(g, q) = Keys(h, q)
<1>1. \A i \in 1 .. Len(q) : g.slot[q[i]].key = h.slot[q[i]].key
  BY DEF Ran
<1> QED BY <1>1 DEF Keys

LEMMA KeysHeaded ==
  ASSUME NEW h \in CacheType, NEW S, NEW q, ListIn(q, S), NEW s \in S, s \notin Ran(q)
  PROVE  Keys(h, Headed(s, q)) = << h.slot[s].key >> \o Keys(h, q)
<1> DEFINE n == Len(q)
           k == h.slot[s].key
           a == Keys(h, Headed(s, q))
           x == Keys(h, q)
           U == {h.slot[y].key : y \in S}
<1>1. /\ n \in Nat /\ Len(Headed(s, q)) = n + 1 /\ Headed(s, q)[1] = s
      /\ \A i \in 1 .. n : Headed(s, q)[i + 1] = q[i]
      /\ \A i \in 1 .. n : q[i] \in S
      /\ \A i \in 1 .. n + 1 : Headed(s, q)[i] \in S
  BY HeadedFacts, ListFacts
<1>2. a = [i \in 1 .. n + 1 |-> h.slot[Headed(s, q)[i]].key] /\ x = [i \in 1 .. n |-> h.slot[q[i]].key]
  BY <1>1 DEF Keys
<1> HIDE DEF a, x, n
<1>3. a \in [1 .. n + 1 -> U] /\ x \in [1 .. n -> U] /\ k \in U
  BY <1>1, <1>2
<1> HIDE DEF U, k
<1>4. a \in Seq(U) /\ Len(a) = n + 1 /\ x \in Seq(U) /\ Len(x) = n
  BY <1>1, <1>3, MadeSeq
<1> DEFINE b == << k >> \o x
<1>5. b \in Seq(U) /\ Len(b) = n + 1 /\ b[1] = k /\ \A i \in 1 .. n : b[i + 1] = x[i]
  BY <1>1, <1>3, <1>4
<1> HIDE DEF b
<1>6. \A i \in 1 .. Len(a) : a[i] = b[i]
  <2> SUFFICES ASSUME NEW i \in 1 .. n + 1 PROVE a[i] = b[i]
    BY <1>4
  <2>1. CASE i = 1
    BY <1>1, <1>2, <1>5, <2>1 DEF k
  <2>2. CASE i # 1
    <3>1. i - 1 \in 1 .. n /\ (i - 1) + 1 = i
      BY <1>1, <2>2
    <3>2. b[i] = x[i - 1] /\ Headed(s, q)[i] = q[i - 1]
      BY <1>1, <1>5, <3>1
    <3> QED BY <1>2, <3>1, <3>2
  <2> QED BY <2>1, <2>2
<1>7. a = b
  BY <1>4, <1>5, <1>6, SameSeq
<1> QED BY <1>7 DEF a, b, x, k

LEMMA KeysCut ==
  ASSUME NEW h \in CacheType, NEW S, NEW q, ListIn(q, S), NEW j \in 1 .. Len(q)
  PROVE  /\ Keys(h, Cut(q, j)) = SubSeq(Keys(h, q), 1, j - 1) \o SubSeq(Keys(h, q), j + 1, Len(Keys(h, q)))
         /\ j = Len(q) => Keys(h, Cut(q, j)) = SubSeq(Keys(h, q), 1, Len(Keys(h, q)) - 1)
<1> DEFINE n == Len(q)
           a == Keys(h, Cut(q, j))
           x == Keys(h, q)
           U == {h.slot[y].key : y \in S}
<1>1. /\ n \in Nat /\ Len(Cut(q, j)) = n - 1
      /\ \A i \in 1 .. n - 1 : Cut(q, j)[i] = IF i < j THEN q[i] ELSE q[i + 1]
      /\ \A i \in 1 .. n : q[i] \in S
  BY CutFacts, ListFacts
<1>2. a = [i \in 1 .. n - 1 |-> h.slot[Cut(q, j)[i]].key] /\ x = [i \in 1 .. n |-> h.slot[q[i]].key]
  BY <1>1 DEF Keys
<1>3. n - 1 \in Nat
  BY <1>1
<1> HIDE DEF a, x
<1>4. x \in [1 .. n -> U]
  BY <1>1, <1>2
<1>5. a = [i \in 1 .. n - 1 |-> IF i < j THEN x[i] ELSE x[i + 1]]
  <2>1. \A i \in 1 .. n - 1 : i \in 1 .. n /\ i + 1 \in 1 .. n
    BY <1>1
  <2>2. \A i \in 1 .. n - 1 : a[i] = IF i < j THEN x[i] ELSE x[i + 1]
    BY <1>1, <1>2, <2>1
  <2> QED BY <1>2, <2>2
<1> HIDE DEF n, U
<1>6. x \in Seq(U) /\ Len(x) = n
  BY <1>1, <1>4, MadeSeq
<1>7. a \in [1 .. n - 1 -> U]
  <2>1. \A i \in 1 .. n - 1 : i \in 1 .. n /\ i + 1 \in 1 .. n
    BY <1>1
  <2> QED BY <1>4, <1>5, <2>1
<1>8. a \in Seq(U) /\ Len(a) = n - 1
  BY <1>3, <1>7, MadeSeq
<1>9. j \in 1 .. n
  BY DEF n
<1> DEFINE l == SubSeq(x, 1, j - 1)
           r == SubSeq(x, j + 1, n)
           b == l \o r
<1>10. l \in Seq(U) /\ Len(l) = j - 1 /\ \A i \in 1 .. j - 1 : l[i] = x[i]
  BY <1>1, <1>6, <1>9
<1>11. r \in Seq(U) /\ Len(r) = n - j /\ \A i \in 1 .. n - j : r[i] = x[j + i]
  BY <1>1, <1>6, <1>9
<1> HIDE DEF l, r
<1>12. b \in Seq(U) /\ Len(b) = n - 1
       /\ \A i \in 1 .. n - 1 : b[i] = IF i < j THEN l[i] ELSE r[i - (j - 1)]
  <2>1. Len(b) = (j - 1) + (n - j) /\ (j - 1) + (n - j) = n - 1
    <3> HIDE DEF b
    <3>1. Len(b) = Len(l) + Len(r)
      BY <1>10, <1>11, JoinFacts DEF b
    <3> QED BY <3>1, <1>1, <1>9, <1>10, <1>11
  <2>2. \A i \in 1 .. (j - 1) + (n - j) : b[i] = IF i <= j - 1 THEN l[i] ELSE r[i - (j - 1)]
    BY <1>1, <1>9, <1>10, <1>11, JoinFacts
  <2>3. \A i \in 1 .. n - 1 : i <= j - 1 <=> i < j
    BY <1>1, <1>9
  <2>4. b \in Seq(U)
    BY <1>10, <1>11
  <2> QED BY <2>1, <2>2, <2>3, <2>4
<1> HIDE DEF b
<1>13. \A i \in 1 .. n - 1 : a[i] = b[i]
  <2> SUFFICES ASSUME NEW i \in 1 .. n - 1 PROVE a[i] = b[i]
    OBVIOUS
  <2>1. CASE i < j
    <3>1. i \in 1 .. j - 1
      BY <1>9, <2>1
    <3> QED BY <1>5, <1>10, <1>12, <2>1, <3>1
  <2>2. CASE ~(i < j)
    <3>1. i - (j - 1) \in 1 .. n - j /\ j + (i - (j - 1)) = i + 1
      BY <1>1, <1>9, <2>2
    <3> QED BY <1>5, <1>11, <1>12, <2>2, <3>1
  <2> QED BY <2>1, <2>2
<1>14. a = b
  BY <1>8, <1>12, <1>13, SameSeq
<1>15. ASSUME j = n PROVE a = SubSeq(x, 1, n - 1)
  <2>1. l = SubSeq(x, 1, n - 1)
    BY <1>15 DEF l
  <2>2. \A i \in 1 .. n - 1 : a[i] = l[i]
    <3>1. \A i \in 1 .. n - 1 : i < j /\ i \in 1 .. j - 1
      BY <1>1, <1>15
    <3> QED BY <1>5, <1>10, <3>1
  <2>3. a = l
    BY <1>8, <1>10, <1>15, <2>2, SameSeq
  <2> QED BY <2>1, <2>3
<1> QED BY <1>6, <1>14, <1>15 DEF a, b, l, r, x, n

LEMMA KeysLess ==
  ASSUME NEW h \in CacheType, Filled(h), NEW q, ListIn(q, Slots(h)), Ran(q) \subseteq Live(h),
         NEW s \in Live(h)
  PROVE  Keys(h, Less(q, s)) = C!Without(Keys(h, q), h.slot[s].key)
<1> DEFINE x == Keys(h, q)
           k == h.slot[s].key
           n == Len(q)
<1>1. /\ x \in Seq(Blocks) /\ Len(x) = n /\ DOMAIN x = 1 .. n
      /\ \A i \in 1 .. n : x[i] = h.slot[q[i]].key
      /\ \A i, j \in 1 .. n : x[i] = x[j] => i = j
      /\ k \in ToSet(x) <=> s \in Ran(q)
  BY KeysFacts
<1>2. CASE s \notin Ran(q)
  <2> HIDE DEF x, k
  <2>1. C!Without(x, k) = x
    BY <1>1, <1>2 DEF C!Without, C!ToSet, ToSet
  <2>2. Less(q, s) = q
    BY <1>2 DEF Less
  <2> QED BY <2>1, <2>2 DEF x, k
<1>3. CASE s \in Ran(q)
  <2>1. PICK j \in 1 .. n : q[j] = s
    BY <1>3 DEF Ran
  <2>2. Less(q, s) = Cut(q, j)
    BY <2>1, LessFacts
  <2> HIDE DEF x
  <2>3. x[j] = k
    BY <1>1, <2>1
  <2>4. (CHOOSE i \in DOMAIN x : x[i] = k) = j
    BY <1>1, <2>1, <2>3
  <2>5. C!Without(x, k) = SubSeq(x, 1, j - 1) \o SubSeq(x, j + 1, Len(x))
    BY <1>1, <1>3, <2>4 DEF C!Without, C!ToSet, ToSet, C!RemoveAt
  <2>6. Keys(h, Cut(q, j)) = SubSeq(x, 1, j - 1) \o SubSeq(x, j + 1, Len(x))
    BY <2>1, KeysCut DEF x
  <2> QED BY <2>2, <2>5, <2>6 DEF x
<1> QED BY <1>2, <1>3

-----------------------------------------------------------------------------
(***************************************************************************)
(* What each operation does to the blocks along the lists.                 *)
(***************************************************************************)
LEMMA GoodParts ==
  ASSUME NEW h, Good(h)
  PROVE  /\ h \in CacheType
         /\ \E u, p, c, f :
              /\ Whole(h, u, p, c) /\ Freed(h, f, {})
              /\ Recency(h, u, p) /\ Hashed(h, c) /\ Filled(h) /\ Chunked(h)
              /\ ListIn(u, Slots(h)) /\ ListIn(p, Slots(h))
              /\ Ran(u) \subseteq Live(h) /\ Ran(p) \subseteq Live(h)
              /\ Ran(u) \cup Ran(p) = Live(h)
              /\ BlocksOf(h) = [lru |-> Keys(h, u), pin |-> Keys(h, p)]
<1>0. h \in CacheType
  BY DEF Good
<1>1. PICK u, p, c, f : Whole(h, u, p, c) /\ Freed(h, f, {})
  BY DEF Good
<1>2. Recency(h, u, p) /\ Hashed(h, c) /\ Filled(h) /\ Chunked(h)
  BY <1>1 DEF Whole
<1>3. /\ ListIn(u, Slots(h)) /\ ListIn(p, Slots(h))
      /\ Ran(u) \subseteq Live(h) /\ Ran(p) \subseteq Live(h)
  BY <1>2, RecencyLists
<1>4. \A s \in Live(h) : s \in Ran(u) \cup Ran(p)
  BY <1>0, <1>2, LiveLists
<1>5. Ran(u) \cup Ran(p) = Live(h)
  BY <1>3, <1>4
<1>6. BlocksOf(h) = [lru |-> Keys(h, u), pin |-> Keys(h, p)]
  BY <1>0, <1>2, BlocksAre
<1> QED BY <1>0, <1>1, <1>2, <1>3, <1>5, <1>6

LEMMA MadeGood ==
  ASSUME NEW g \in CacheType, NEW u, NEW p, NEW c, Whole(g, u, p, c), NEW f, Freed(g, f, {})
  PROVE  Good(g) /\ BlocksOf(g) = [lru |-> Keys(g, u), pin |-> Keys(g, p)]
<1>1. Recency(g, u, p)
  BY DEF Whole
<1> QED BY <1>1, BlocksAre DEF Good

LEMMA BlocksGood ==
  ASSUME NEW h, Good(h)
  PROVE  /\ BlocksOf(h).lru \in Seq(Blocks) /\ BlocksOf(h).pin \in Seq(Blocks)
         /\ BlocksOf(h) = [lru |-> BlocksOf(h).lru, pin |-> BlocksOf(h).pin]
         /\ h.lru.n = Len(BlocksOf(h).lru) /\ h.pin.n = Len(BlocksOf(h).pin)
         /\ h.n = Len(BlocksOf(h).lru) + Len(BlocksOf(h).pin)
<1>1. PICK u, p, c, f :
        /\ Recency(h, u, p) /\ Filled(h) /\ h \in CacheType
        /\ ListIn(u, Slots(h)) /\ ListIn(p, Slots(h))
        /\ Ran(u) \subseteq Live(h) /\ Ran(p) \subseteq Live(h)
        /\ BlocksOf(h) = [lru |-> Keys(h, u), pin |-> Keys(h, p)]
  BY GoodParts
<1>2. /\ Keys(h, u) \in Seq(Blocks) /\ Len(Keys(h, u)) = Len(u)
      /\ Keys(h, p) \in Seq(Blocks) /\ Len(Keys(h, p)) = Len(p)
  BY <1>1, KeysFacts
<1>3. h.n = Len(u) + Len(p) /\ h.lru.n = Len(u) /\ h.pin.n = Len(p)
  BY <1>1 DEF Recency, Links
<1> QED BY <1>1, <1>2, <1>3

LEMMA Lookup ==
  ASSUME NEW h, Good(h), NEW k \in Blocks
  PROVE  \/ /\ SlotOf(h, k) \in Live(h) /\ SlotOf(h, k) \in Nat /\ h.slot[SlotOf(h, k)].key = k
            /\ C!Cached(BlocksOf(h), k)
         \/ /\ SlotOf(h, k) = -1 /\ ~C!Cached(BlocksOf(h), k)
            /\ \A y \in Live(h) : h.slot[y].key # k
<1>1. PICK u, p, c, f :
        /\ Recency(h, u, p) /\ Filled(h) /\ h \in CacheType /\ Hashed(h, c)
        /\ ListIn(u, Slots(h)) /\ ListIn(p, Slots(h))
        /\ Ran(u) \subseteq Live(h) /\ Ran(p) \subseteq Live(h)
        /\ Ran(u) \cup Ran(p) = Live(h)
        /\ BlocksOf(h) = [lru |-> Keys(h, u), pin |-> Keys(h, p)]
  BY GoodParts
<1> DEFINE x == Keys(h, u)
           y == Keys(h, p)
           s == SlotOf(h, k)
<1>2. /\ \A t \in Live(h) : h.slot[t].key \in ToSet(x) <=> t \in Ran(u)
      /\ \A t \in Live(h) : h.slot[t].key \in ToSet(y) <=> t \in Ran(p)
  BY <1>1, KeysFacts
<1>3. \/ s \in Live(h) /\ h.slot[s].key = k
      \/ s = -1 /\ \A t \in Live(h) : h.slot[t].key # k
  BY <1>1, SlotOfIs
<1>4. C!Cached(BlocksOf(h), k) <=> k \in ToSet(x) \cup ToSet(y)
  <2>1. BlocksOf(h).lru = x /\ BlocksOf(h).pin = y
    BY <1>1
  <2> QED BY <2>1 DEF C!Cached, C!ToSet, ToSet
<1>5. ASSUME k \in ToSet(x) \cup ToSet(y) PROVE \E t \in Live(h) : h.slot[t].key = k
  <2>1. /\ DOMAIN x = 1 .. Len(u) /\ \A i \in 1 .. Len(u) : x[i] = h.slot[u[i]].key
        /\ DOMAIN y = 1 .. Len(p) /\ \A i \in 1 .. Len(p) : y[i] = h.slot[p[i]].key
    BY <1>1, KeysFacts
  <2>2. /\ \A i \in 1 .. Len(u) : u[i] \in Live(h)
        /\ \A i \in 1 .. Len(p) : p[i] \in Live(h)
    BY <1>1 DEF Ran
  <2> HIDE DEF x, y
  <2>3. CASE k \in ToSet(x)
    BY <2>1, <2>2, <2>3 DEF ToSet
  <2>4. CASE k \in ToSet(y)
    BY <2>1, <2>2, <2>4 DEF ToSet
  <2> QED BY <1>5, <2>3, <2>4
<1>6. \A t \in Live(h) : t \in Nat
  BY <1>1, SlotsAre DEF Live
<1>7. ASSUME s \in Live(h), h.slot[s].key = k PROVE k \in ToSet(x) \cup ToSet(y)
  BY <1>1, <1>2, <1>7
<1> HIDE DEF x, y, s
<1> QED BY <1>3, <1>4, <1>5, <1>6, <1>7 DEF s

LEMMA MovedGood ==
  ASSUME NEW h, Good(h), NEW s \in Live(h), NEW k, h.slot[s].key = k
  PROVE  /\ Good(MoveToFront(h, s, "lru"))
         /\ BlocksOf(MoveToFront(h, s, "lru")) =
              [lru |-> << k >> \o C!Without(BlocksOf(h).lru, k), pin |-> C!Without(BlocksOf(h).pin, k)]
         /\ Good(MoveToFront(h, s, "pin"))
         /\ BlocksOf(MoveToFront(h, s, "pin")) =
              [lru |-> C!Without(BlocksOf(h).lru, k), pin |-> << k >> \o C!Without(BlocksOf(h).pin, k)]
<1>1. PICK u, p, c, f :
        /\ Whole(h, u, p, c) /\ Freed(h, f, {}) /\ Filled(h) /\ h \in CacheType
        /\ ListIn(u, Slots(h)) /\ ListIn(p, Slots(h))
        /\ Ran(u) \subseteq Live(h) /\ Ran(p) \subseteq Live(h)
        /\ BlocksOf(h) = [lru |-> Keys(h, u), pin |-> Keys(h, p)]
  BY GoodParts
<1> DEFINE m == NumSlots(h)
           nb == NumBuckets(h)
           v == Less(u, s)
           w == Less(p, s)
<1>2. m \in Nat /\ nb \in Nat \ {0} /\ h \in Sized(m, nb)
  BY <1>1, IsSized
<1>3. /\ s \in Slots(h) /\ Live(h) \subseteq Slots(h)
  BY DEF Live
<1>4. /\ ListIn(v, Slots(h)) /\ Ran(v) = Ran(u) \ {s}
      /\ ListIn(w, Slots(h)) /\ Ran(w) = Ran(p) \ {s}
  BY <1>1, LessFacts
<1>5. Keys(h, v) = C!Without(Keys(h, u), k) /\ Keys(h, w) = C!Without(Keys(h, p), k)
  BY <1>1, KeysLess
<1>6. /\ Keys(h, Headed(s, v)) = << k >> \o Keys(h, v)
      /\ Keys(h, Headed(s, w)) = << k >> \o Keys(h, w)
  BY <1>1, <1>3, <1>4, KeysHeaded
<1> HIDE DEF m, nb, v, w
<1>7. ASSUME NEW L \in {"lru", "pin"}
      PROVE  /\ Good(MoveToFront(h, s, L))
             /\ BlocksOf(MoveToFront(h, s, L)) =
                  [lru |-> Keys(h, Onto(L, "lru", s, v)), pin |-> Keys(h, Onto(L, "pin", s, w))]
  <2> DEFINE g == MoveToFront(h, s, L)
             u1 == Onto(L, "lru", s, v)
             p1 == Onto(L, "pin", s, w)
  <2>1. /\ g \in Sized(m, nb) /\ HashKept(h, g) /\ Whole(g, u1, p1, c)
        /\ Freed(g, f, {})
    BY <1>1, <1>2, MoveWhole DEF v, w
  <2>2. Ran(u1) \subseteq Slots(h) /\ Ran(p1) \subseteq Slots(h)
    <3>1. ListIn(u1, Slots(h)) /\ ListIn(p1, Slots(h))
      BY <1>3, <1>4, OntoFacts
    <3> HIDE DEF u1, p1
    <3> QED BY <3>1, ListFacts
  <2> HIDE DEF g, u1, p1
  <2>3. g \in CacheType
    BY <1>2, <2>1, SizedFacts
  <2>4. Good(g) /\ BlocksOf(g) = [lru |-> Keys(g, u1), pin |-> Keys(g, p1)]
    BY <1>1, <2>1, <2>3, MadeGood
  <2>5. Keys(g, u1) = Keys(h, u1) /\ Keys(g, p1) = Keys(h, p1)
    BY <2>1, <2>2, KeysKept DEF HashKept
  <2> QED BY <2>4, <2>5 DEF g, u1, p1
<1>8. /\ Onto("lru", "lru", s, v) = Headed(s, v) /\ Onto("lru", "pin", s, w) = w
      /\ Onto("pin", "lru", s, v) = v /\ Onto("pin", "pin", s, w) = Headed(s, w)
  BY DEF Onto
<1>9. BlocksOf(h).lru = Keys(h, u) /\ BlocksOf(h).pin = Keys(h, p)
  BY <1>1
<1>10. /\ Good(MoveToFront(h, s, "lru"))
       /\ BlocksOf(MoveToFront(h, s, "lru")) = [lru |-> Keys(h, Headed(s, v)), pin |-> Keys(h, w)]
  BY <1>7, <1>8
<1>11. /\ Good(MoveToFront(h, s, "pin"))
       /\ BlocksOf(MoveToFront(h, s, "pin")) = [lru |-> Keys(h, v), pin |-> Keys(h, Headed(s, w))]
  BY <1>7, <1>8
<1> QED BY <1>5, <1>6, <1>9, <1>10, <1>11

-----------------------------------------------------------------------------
(* hvEvict of the least valuable block.                                    *)
LEMMA TailFacts ==
  ASSUME NEW h \in CacheType, NEW l, NEW q, Links(h, l, q), Len(q) > 0
  PROVE  /\ Len(q) \in 1 .. Len(q) /\ l.tail = q[Len(q)] /\ l.tail \in Ran(q)
         /\ Less(q, l.tail) = Cut(q, Len(q))
<1>1. ListIn(q, Slots(h)) /\ Len(q) \in Nat /\ l.tail = At(q, Len(q))
  BY ListFacts DEF Links, Back
<1>2. Len(q) \in 1 .. Len(q) /\ l.tail = q[Len(q)] /\ l.tail \in Ran(q)
  BY <1>1 DEF At, Ran
<1>3. Less(q, l.tail) = Cut(q, Len(q))
  BY <1>1, <1>2, LessFacts
<1> QED BY <1>2, <1>3

LEMMA DropFacts ==
  ASSUME NEW S, NEW q \in Seq(S)
  PROVE  /\ C!DropOldest(q, 0) = q
         /\ C!DropOldest(q, 1) = SubSeq(q, 1, Len(q) - 1)
<1>1. C!DropOldest(q, 0) = SubSeq(q, 1, Len(q) - 0) /\ C!DropOldest(q, 1) = SubSeq(q, 1, Len(q) - 1)
  BY DEF C!DropOldest
<1>2. Len(q) - 0 = Len(q) /\ SubSeq(q, 1, Len(q)) = q
  OBVIOUS
<1> QED BY <1>1, <1>2

LEMMA EvictOne ==
  ASSUME NEW c, c.lru \in Seq(Blocks), c.pin \in Seq(Blocks)
  PROVE  /\ Len(c.lru) > 0 => C!Evict(c, 1) = [lru |-> SubSeq(c.lru, 1, Len(c.lru) - 1), pin |-> c.pin]
         /\ Len(c.lru) = 0 => C!Evict(c, 1) = [lru |-> c.lru, pin |-> SubSeq(c.pin, 1, Len(c.pin) - 1)]
<1> DEFINE n == Len(c.lru)
<1>1. n \in Nat
  OBVIOUS
<1>2. C!Evict(c, 1) = [lru |-> C!DropOldest(c.lru, C!Smaller(1, n)), pin |-> C!DropOldest(c.pin, C!Monus(1, n))]
  BY DEF C!Evict
<1>3. /\ C!DropOldest(c.lru, 0) = c.lru /\ C!DropOldest(c.lru, 1) = SubSeq(c.lru, 1, Len(c.lru) - 1)
      /\ C!DropOldest(c.pin, 0) = c.pin /\ C!DropOldest(c.pin, 1) = SubSeq(c.pin, 1, Len(c.pin) - 1)
  BY DropFacts
<1> HIDE DEF n
<1>4. /\ n > 0 => C!Smaller(1, n) = 1 /\ C!Monus(1, n) = 0
      /\ n = 0 => C!Smaller(1, n) = 0 /\ C!Monus(1, n) = 1
  BY <1>1 DEF C!Smaller, C!Monus
<1> QED BY <1>2, <1>3, <1>4 DEF n

LEMMA EvictedGood ==
  ASSUME NEW h, Good(h), h.n > 0
  PROVE  LET g == EvictSlot(h, Victim(h))
         IN  /\ Good(g) /\ g.freehead >= 0
             /\ BlocksOf(g) = C!Evict(BlocksOf(h), 1)
             /\ Live(g) \subseteq Live(h)
             /\ \A y \in Live(g) : g.slot[y].key = h.slot[y].key
<1>1. PICK u, p, c, f :
        /\ Whole(h, u, p, c) /\ Freed(h, f, {}) /\ Filled(h) /\ h \in CacheType
        /\ Recency(h, u, p)
        /\ ListIn(u, Slots(h)) /\ ListIn(p, Slots(h))
        /\ Ran(u) \subseteq Live(h) /\ Ran(p) \subseteq Live(h)
        /\ BlocksOf(h) = [lru |-> Keys(h, u), pin |-> Keys(h, p)]
  BY GoodParts
<1> DEFINE s == Victim(h)
           g == EvictSlot(h, s)
           m == NumSlots(h)
           nb == NumBuckets(h)
<1>2. m \in Nat /\ nb \in Nat \ {0} /\ h \in Sized(m, nb) /\ Slots(h) \subseteq Nat
  BY <1>1, IsSized, SlotsAre
<1>3. /\ Links(h, h.lru, u) /\ Links(h, h.pin, p) /\ h.n = Len(u) + Len(p)
      /\ h.lru.n = Len(u) /\ Len(u) \in Nat /\ Len(p) \in Nat /\ Ran(u) \cap Ran(p) = {}
  BY <1>1, RecencyLists, ListFacts DEF Recency, Links, Listed
<1>4. /\ Len(u) > 0 => /\ s = h.lru.tail /\ s \in Ran(u)
                       /\ Less(u, s) = Cut(u, Len(u)) /\ Len(u) \in 1 .. Len(u)
      /\ Len(u) = 0 => /\ s = h.pin.tail /\ s \in Ran(p)
                       /\ Less(p, s) = Cut(p, Len(p)) /\ Len(p) \in 1 .. Len(p)
  <2>1. CASE Len(u) > 0
    BY <1>1, <1>3, <2>1, TailFacts DEF Victim
  <2>2. CASE Len(u) = 0
    <3>1. Len(p) > 0 /\ s = h.pin.tail
      BY <1>3, <2>2 DEF Victim
    <3> QED BY <1>1, <1>3, <2>2, <3>1, TailFacts
  <2> QED BY <1>3, <2>1, <2>2
<1>5. s \in Live(h) /\ s \in Nat /\ s \in Slots(h)
  BY <1>1, <1>2, <1>3, <1>4 DEF Live
<1> DEFINE v == Less(u, s)
           w == Less(p, s)
<1> HIDE DEF m, nb, s
<1>6. /\ g \in Sized(m, nb) /\ Evicted(h, g, s) /\ Whole(g, v, w, Evicting(h, c, s))
      /\ Freed(g, Headed(s, f), {})
  BY <1>1, <1>2, <1>5, EvictWhole
<1> HIDE DEF g
<1>7. g \in CacheType /\ Slots(g) = Slots(h)
  <2>1. g \in CacheType /\ Slots(g) = 0 .. m - 1
    BY <1>2, <1>6, SizedFacts
  <2>2. Slots(h) = 0 .. m - 1
    BY <1>2, SizedFacts
  <2> QED BY <2>1, <2>2
<1>8. Good(g) /\ BlocksOf(g) = [lru |-> Keys(g, v), pin |-> Keys(g, w)]
  BY <1>6, <1>7, MadeGood
<1>9. /\ ListIn(v, Slots(h)) /\ Ran(v) = Ran(u) \ {s} /\ ListIn(w, Slots(h)) /\ Ran(w) = Ran(p) \ {s}
  BY <1>1, LessFacts
<1>10. /\ \A y \in Slots(h) \ {s} : g.slot[y].key = h.slot[y].key /\ g.slot[y].state = h.slot[y].state
       /\ g.slot[s].state = "free" /\ g.freehead = s
  BY <1>6 DEF Evicted
<1>11. Keys(g, v) = Keys(h, v) /\ Keys(g, w) = Keys(h, w)
  <2>1. \A y \in Ran(v) \cup Ran(w) : g.slot[y].key = h.slot[y].key
    BY <1>1, <1>9, <1>10, ListFacts
  <2> QED BY <2>1, KeysKept
<1>12. Live(g) \subseteq Live(h) /\ \A y \in Live(g) : g.slot[y].key = h.slot[y].key
  BY <1>7, <1>10 DEF Live
<1>13. BlocksOf(g) = C!Evict(BlocksOf(h), 1)
  <2> DEFINE x == Keys(h, u)
             z == Keys(h, p)
  <2>1. x \in Seq(Blocks) /\ Len(x) = Len(u) /\ z \in Seq(Blocks) /\ Len(z) = Len(p)
    BY <1>1, KeysFacts
  <2>2. BlocksOf(h).lru = x /\ BlocksOf(h).pin = z
    BY <1>1
  <2>3. CASE Len(u) > 0
    <3>1. v = Cut(u, Len(u)) /\ w = p /\ Len(u) \in 1 .. Len(u)
      BY <1>3, <1>4, <2>3 DEF Less
    <3>2. Keys(h, v) = SubSeq(x, 1, Len(x) - 1)
      BY <1>1, <3>1, KeysCut
    <3> HIDE DEF x, z, v, w
    <3>3. C!Evict(BlocksOf(h), 1) = [lru |-> SubSeq(x, 1, Len(x) - 1), pin |-> z]
      BY <2>1, <2>2, <2>3, EvictOne
    <3> QED BY <1>8, <1>11, <3>1, <3>2, <3>3 DEF z
  <2>4. CASE Len(u) = 0
    <3>1. w = Cut(p, Len(p)) /\ v = u /\ Len(p) \in 1 .. Len(p)
      BY <1>3, <1>4, <2>4 DEF Less
    <3>2. Keys(h, w) = SubSeq(z, 1, Len(z) - 1)
      BY <1>1, <3>1, KeysCut
    <3> HIDE DEF x, z, v, w
    <3>3. C!Evict(BlocksOf(h), 1) = [lru |-> x, pin |-> SubSeq(z, 1, Len(z) - 1)]
      BY <2>1, <2>2, <2>4, EvictOne
    <3> QED BY <1>8, <1>11, <3>1, <3>2, <3>3 DEF x
  <2> QED BY <1>3, <2>3, <2>4
<1>14. g.freehead >= 0
  BY <1>5, <1>10
<1> QED BY <1>8, <1>12, <1>13, <1>14 DEF g, s

-----------------------------------------------------------------------------
(***************************************************************************)
(* hvCacheTrim: evictions in a row.                                        *)
(***************************************************************************)
LEMMA DropMore ==
  ASSUME NEW S, NEW q \in Seq(S), NEW a \in 0 .. Len(q)
  PROVE  /\ C!DropOldest(q, a) \in Seq(S) /\ Len(C!DropOldest(q, a)) = Len(q) - a
         /\ a < Len(q) =>
              SubSeq(C!DropOldest(q, a), 1, Len(q) - a - 1) = C!DropOldest(q, a + 1)
<1> DEFINE n == Len(q)
           d == C!DropOldest(q, a)
           b == n - a
<1>1. n \in Nat /\ b \in 0 .. n
  OBVIOUS
<1>2. d = SubSeq(q, 1, b)
  BY DEF C!DropOldest
<1>3. d \in Seq(S) /\ Len(d) = b /\ \A i \in 1 .. b : d[i] = q[i]
  BY <1>1, <1>2
<1>4. ASSUME a < n PROVE SubSeq(d, 1, b - 1) = C!DropOldest(q, a + 1)
  <2> DEFINE x == SubSeq(d, 1, b - 1)
             y == C!DropOldest(q, a + 1)
  <2>1. b - 1 \in 0 .. b /\ b - 1 \in 0 .. n /\ n - (a + 1) = b - 1
    BY <1>1, <1>4
  <2>2. y = SubSeq(q, 1, b - 1)
    BY <2>1 DEF C!DropOldest
  <2> HIDE DEF d, b, n
  <2>3. x \in Seq(S) /\ Len(x) = b - 1 /\ \A i \in 1 .. b - 1 : x[i] = d[i]
    BY <1>1, <1>3, <2>1
  <2>4. y \in Seq(S) /\ Len(y) = b - 1 /\ \A i \in 1 .. b - 1 : y[i] = q[i]
    BY <1>1, <2>1, <2>2 DEF n
  <2>5. \A i \in 1 .. b - 1 : i \in 1 .. b
    BY <1>1
  <2> HIDE DEF x, y
  <2>6. x = y
    BY <1>3, <2>3, <2>4, <2>5, SameSeq
  <2> QED BY <2>6 DEF x, y
<1> QED BY <1>3, <1>4

TwoLists(c) ==
  c.lru \in Seq(Blocks) /\ c.pin \in Seq(Blocks) /\ c = [lru |-> c.lru, pin |-> c.pin]

EvictsTo(c, n, i, e) ==
  /\ TwoLists(e)
  /\ Len(e.lru) = C!Monus(Len(c.lru), i)
  /\ Len(e.lru) + Len(e.pin) = n - i
  /\ i = 0 => e = c
  /\ i < n => C!Evict(e, 1) = C!Evict(c, i + 1)

LEMMA EvictMore ==
  ASSUME NEW c, TwoLists(c), NEW size, size = Len(c.lru) + Len(c.pin), NEW i \in 0 .. size
  PROVE  EvictsTo(c, size, i, C!Evict(c, i))
<1>0. c.lru \in Seq(Blocks) /\ c.pin \in Seq(Blocks) /\ c = [lru |-> c.lru, pin |-> c.pin]
  BY DEF TwoLists
<1> DEFINE n == Len(c.lru)
           q == Len(c.pin)
           a == C!Smaller(i, n)
           b == C!Monus(i, n)
           l == C!DropOldest(c.lru, a)
           r == C!DropOldest(c.pin, b)
           e == C!Evict(c, i)
<1>1. n \in Nat /\ q \in Nat /\ i \in 0 .. n + q
  BY <1>0
<1>2. e = [lru |-> l, pin |-> r]
  BY DEF C!Evict
<1> HIDE DEF n, q
<1>3. /\ a \in 0 .. n /\ b \in 0 .. q /\ a + b = i /\ n - a = C!Monus(n, i)
      /\ i = 0 => a = 0 /\ b = 0
      /\ i < n => a = i /\ b = 0 /\ C!Smaller(i + 1, n) = a + 1 /\ C!Monus(i + 1, n) = b
      /\ i >= n => a = n /\ C!Smaller(i + 1, n) = a /\ C!Monus(i + 1, n) = b + 1
  BY <1>1 DEF C!Smaller, C!Monus
<1> HIDE DEF a, b, e
<1>4. /\ l \in Seq(Blocks) /\ Len(l) = n - a
      /\ a < n => SubSeq(l, 1, n - a - 1) = C!DropOldest(c.lru, a + 1)
  BY <1>0, <1>1, <1>3, DropMore DEF n
<1>5. /\ r \in Seq(Blocks) /\ Len(r) = q - b
      /\ b < q => SubSeq(r, 1, q - b - 1) = C!DropOldest(c.pin, b + 1)
  BY <1>0, <1>1, <1>3, DropMore DEF q
<1>6. i = 0 => l = c.lru /\ r = c.pin
  BY <1>0, <1>3, DropFacts
<1>7. C!Evict(c, i + 1) = [lru |-> C!DropOldest(c.lru, C!Smaller(i + 1, n)), pin |-> C!DropOldest(c.pin, C!Monus(i + 1, n))]
  BY DEF C!Evict, n
<1>8. e.lru = l /\ e.pin = r
  BY <1>2
<1>9. ASSUME i < n + q PROVE C!Evict(e, 1) = C!Evict(c, i + 1)
  <2> HIDE DEF l, r
  <2>1. CASE i < n
    <3>1. Len(l) > 0 /\ a < n /\ Len(l) - 1 = n - a - 1
      BY <1>1, <1>3, <1>4, <2>1
    <3>2. C!Evict(e, 1) = [lru |-> SubSeq(l, 1, Len(l) - 1), pin |-> r]
      BY <1>4, <1>5, <1>8, <3>1, EvictOne
    <3>3. SubSeq(l, 1, Len(l) - 1) = C!DropOldest(c.lru, C!Smaller(i + 1, n))
      BY <1>3, <1>4, <2>1, <3>1
    <3>4. r = C!DropOldest(c.pin, C!Monus(i + 1, n))
      BY <1>3, <2>1 DEF r
    <3> QED BY <1>7, <3>2, <3>3, <3>4
  <2>2. CASE i >= n
    <3>1. Len(l) = 0 /\ b < q /\ Len(r) - 1 = q - b - 1
      BY <1>1, <1>3, <1>4, <1>5, <1>9, <2>2
    <3>2. C!Evict(e, 1) = [lru |-> l, pin |-> SubSeq(r, 1, Len(r) - 1)]
      BY <1>4, <1>5, <1>8, <3>1, EvictOne
    <3>3. SubSeq(r, 1, Len(r) - 1) = C!DropOldest(c.pin, C!Monus(i + 1, n))
      BY <1>3, <1>5, <2>2, <3>1
    <3>4. l = C!DropOldest(c.lru, C!Smaller(i + 1, n))
      BY <1>3, <2>2 DEF l
    <3> QED BY <1>7, <3>2, <3>3, <3>4
  <2> QED BY <1>1, <2>1, <2>2
<1> HIDE DEF l, r
<1>10. Len(l) = C!Monus(n, i) /\ Len(l) + Len(r) = n + q - i
  BY <1>1, <1>3, <1>4, <1>5
<1>11. size = n + q
  BY DEF n, q
<1>12. TwoLists(e)
  BY <1>2, <1>4, <1>5, <1>8 DEF TwoLists
<1>13. i = 0 => e = c
  BY <1>0, <1>2, <1>6
<1>14. Len(e.lru) = C!Monus(n, i) /\ Len(e.lru) + Len(e.pin) = size - i
  <2>1. size - i = n + q - i
    <3>1. size - i = (n + q) - i
      BY <1>11
    <3>2. (n + q) - i = n + q - i
      BY <1>1
    <3> QED BY <3>1, <3>2
  <2>2. Len(e.lru) = Len(l) /\ Len(e.lru) + Len(e.pin) = Len(l) + Len(r)
    BY <1>8
  <2> QED BY <1>10, <2>1, <2>2
<1>15. i < size => C!Evict(e, 1) = C!Evict(c, i + 1)
  BY <1>1, <1>9, <1>11
<1>16. EvictsTo(c, size, i, e)
  BY <1>12, <1>13, <1>14, <1>15 DEF n, EvictsTo
<1> QED BY <1>16 DEF e

(* g has lost blocks of h, nothing else. *)
Fewer(h, g) == Live(g) \subseteq Live(h) /\ \A y \in Live(g) : g.slot[y].key = h.slot[y].key

EvictRound(g, extra, limit, floor) ==
  IF g.n + extra > limit /\ g.lru.n > floor THEN EvictSlot(g, Victim(g)) ELSE g

LEMMA RoundGood ==
  ASSUME NEW g, Good(g), NEW extra \in {0, 1}, NEW limit \in Nat \ {0}, NEW floor
  PROVE  LET r == EvictRound(g, extra, limit, floor)
         IN  /\ Good(r) /\ Fewer(g, r)
             /\ BlocksOf(r) = IF g.n + extra > limit /\ g.lru.n > floor
                              THEN C!Evict(BlocksOf(g), 1) ELSE BlocksOf(g)
<1>1. g.n \in Int
  BY GoodParts, FieldsAre
<1>2. CASE g.n + extra > limit /\ g.lru.n > floor
  <2>1. g.n > 0
    BY <1>1, <1>2
  <2>2. EvictRound(g, extra, limit, floor) = EvictSlot(g, Victim(g))
    BY <1>2 DEF EvictRound
  <2> QED BY <1>2, <2>1, <2>2, EvictedGood DEF Fewer
<1>3. CASE ~(g.n + extra > limit /\ g.lru.n > floor)
  <2>1. EvictRound(g, extra, limit, floor) = g
    BY <1>3 DEF EvictRound
  <2> QED BY <1>3, <2>1 DEF Fewer
<1> QED BY <1>2, <1>3

(* It evicts M blocks, when M is how often the test says to go on. *)
GoesOn(n, nl, extra, limit, floor, M) ==
  \A i \in 0 .. n : i < M <=> n - i + extra > limit /\ C!Monus(nl, i) > floor

LEMMA EvictDownGood ==
  ASSUME NEW h, Good(h), NEW extra \in {0, 1}, NEW limit \in Nat \ {0}, NEW floor \in Int,
         NEW M \in 0 .. h.n, GoesOn(h.n, h.lru.n, extra, limit, floor, M)
  PROVE  LET g == EvictDown(h, extra, limit, floor)
         IN  Good(g) /\ BlocksOf(g) = C!Evict(BlocksOf(h), M) /\ Fewer(h, g)
<1>0. PICK B : B = BlocksOf(h)
  OBVIOUS
<1> DEFINE n == h.n
           nl == h.lru.n
           V == {g \in CacheType : Good(g)}
           F == [x \in (1 .. n) \X V |-> EvictRound(x[2], extra, limit, floor)]
           round == CHOOSE f : f = [i \in 0 .. n |->
                      IF i = 0 THEN h
                      ELSE LET g == f[i - 1]
                           IN  IF g.n + extra > limit /\ g.lru.n > floor
                               THEN EvictSlot(g, Victim(g)) ELSE g]
<1>1. TwoLists(B) /\ nl = Len(B.lru) /\ n = Len(B.lru) + Len(B.pin)
  BY <1>0, BlocksGood DEF TwoLists
<1>2. n \in Nat /\ nl \in Nat /\ Len(B.lru) \in Nat /\ Len(B.pin) \in Nat
  BY <1>1 DEF TwoLists
<1>3. EvictDown(h, extra, limit, floor) = round[n]
  BY DEF EvictDown
<1>4. \A g : Good(g) => g \in V
  BY GoodParts
<1>5. \A g \in V : EvictRound(g, extra, limit, floor) \in V
  BY <1>4, RoundGood
<1>6. h \in V
  BY <1>4
<1> HIDE DEF V, n, nl
<1>7. F \in [(1 .. n) \X V -> V] /\ \A i \in 1 .. n, g \in V : F[<< i, g >>] = EvictRound(g, extra, limit, floor)
  BY <1>5
<1> HIDE DEF F
<1>8. PICK f \in [0 .. n -> V] : f[0] = h /\ \A i \in 1 .. n : f[i] = F[<< i, f[i - 1] >>]
  <2>1. StepsIn(F, n, V)
    BY <1>7 DEF StepsIn
  <2>2. HasIterates(h, n, F, V)
    BY <1>2, <1>6, <2>1, Recursion
  <2> QED BY <2>2 DEF HasIterates, Iterates
<1>9. \A i \in 1 .. n : f[i] = EvictRound(f[i - 1], extra, limit, floor)
  <2> TAKE i \in 1 .. n
  <2>1. i - 1 \in 0 .. n
    BY <1>2
  <2>2. f[i - 1] \in V
    BY <1>8, <2>1
  <2> QED BY <1>7, <1>8, <2>2
<1>10. f = [i \in 0 .. n |->
              IF i = 0 THEN h
              ELSE LET g == f[i - 1]
                   IN  IF g.n + extra > limit /\ g.lru.n > floor
                       THEN EvictSlot(g, Victim(g)) ELSE g]
  BY <1>2, <1>8, <1>9 DEF EvictRound
<1>11. round = [i \in 0 .. n |->
              IF i = 0 THEN h
              ELSE LET g == round[i - 1]
                   IN  IF g.n + extra > limit /\ g.lru.n > floor
                       THEN EvictSlot(g, Victim(g)) ELSE g]
  BY <1>10
<1> HIDE DEF round
<1>12. round[0] = h /\ \A i \in 1 .. n : round[i] = EvictRound(round[i - 1], extra, limit, floor)
  BY <1>2, <1>11 DEF EvictRound
<1> DEFINE least(i) == C!Smaller(i, M)
           Done(i) == /\ Good(round[i]) /\ Fewer(h, round[i])
                      /\ BlocksOf(round[i]) = C!Evict(B, least(i))
           S == {i \in 0 .. n : Done(i)}
<1>13. M \in 0 .. n /\ GoesOn(n, nl, extra, limit, floor, M)
  BY DEF n, nl
<1>14. 0 \in S
  <2>1. least(0) = 0
    BY <1>13 DEF C!Smaller
  <2>2. C!Evict(B, 0) = B
    <3>1. 0 \in 0 .. n
      BY <1>2
    <3>2. EvictsTo(B, n, 0, C!Evict(B, 0))
      BY <1>1, <3>1, EvictMore
    <3> QED BY <3>2 DEF EvictsTo
  <2>3. Fewer(h, h)
    BY DEF Fewer
  <2> QED BY <1>0, <1>2, <1>12, <2>1, <2>2, <2>3
<1>15. ASSUME NEW i \in 1 .. n, i - 1 \in S PROVE i \in S
  <2> DEFINE g == round[i - 1]
             r == round[i]
             j == least(i - 1)
  <2>1. Good(g) /\ Fewer(h, g) /\ BlocksOf(g) = C!Evict(B, j)
    BY <1>15
  <2>2. r = EvictRound(g, extra, limit, floor)
    BY <1>12
  <2>3. j \in 0 .. n /\ j <= M /\ j = IF i - 1 < M THEN i - 1 ELSE M
    BY <1>2, <1>13 DEF C!Smaller
  <2>4. least(i) = IF j < M THEN j + 1 ELSE j
    BY <1>2, <1>13, <2>3 DEF C!Smaller
  <2> HIDE DEF g, r, j, least
  <2>5. g.n = Len(BlocksOf(g).lru) + Len(BlocksOf(g).pin) /\ g.lru.n = Len(BlocksOf(g).lru)
    BY <2>1, BlocksGood
  <2>6. /\ Len(C!Evict(B, j).lru) = C!Monus(Len(B.lru), j)
        /\ Len(C!Evict(B, j).lru) + Len(C!Evict(B, j).pin) = n - j
        /\ j < n => C!Evict(C!Evict(B, j), 1) = C!Evict(B, j + 1)
    <3>1. EvictsTo(B, n, j, C!Evict(B, j))
      BY <1>1, <2>3, EvictMore
    <3> QED BY <3>1 DEF EvictsTo
  <2>7. g.n = n - j /\ g.lru.n = C!Monus(nl, j)
    BY <1>1, <1>2, <2>1, <2>3, <2>5, <2>6
  <2>8. j < M <=> g.n + extra > limit /\ g.lru.n > floor
    BY <1>13, <2>3, <2>7 DEF GoesOn
  <2>9. /\ Good(r) /\ Fewer(g, r)
        /\ BlocksOf(r) = IF g.n + extra > limit /\ g.lru.n > floor
                         THEN C!Evict(BlocksOf(g), 1) ELSE BlocksOf(g)
    BY <2>1, <2>2, RoundGood
  <2>10. Fewer(h, r)
    BY <2>1, <2>9 DEF Fewer
  <2>11. BlocksOf(r) = C!Evict(B, least(i))
    <3>1. CASE j < M
      <4>1. j < n
        BY <1>2, <1>13, <2>3, <3>1
      <4> QED BY <2>1, <2>4, <2>6, <2>8, <2>9, <3>1, <4>1
    <3>2. CASE ~(j < M)
      BY <2>1, <2>4, <2>8, <2>9, <3>2
    <3> QED BY <3>1, <3>2
  <2> QED BY <2>9, <2>10, <2>11 DEF r
<1> HIDE DEF S
<1>16. n \in S
  <2>1. \A i \in 0 .. n : i \in S
    BY <1>2, <1>14, <1>15, UpTo
  <2> QED BY <1>2, <2>1
<1>17. least(n) = M
  BY <1>2, <1>13 DEF C!Smaller
<1> QED BY <1>0, <1>3, <1>16, <1>17 DEF S

LEMMA BudgetRounds ==
  ASSUME NEW n \in Nat, NEW nl \in Nat, nl <= n, NEW extra \in {0, 1}, NEW limit \in Nat \ {0},
         NEW floor \in Nat, NEW M, M = C!Smaller(C!Monus(n + extra, limit), C!Monus(nl, floor))
  PROVE  M \in 0 .. n /\ GoesOn(n, nl, extra, limit, floor, M)
<1>1. M \in 0 .. n
  BY DEF C!Smaller, C!Monus
<1>2. ASSUME NEW i \in 0 .. n PROVE i < M <=> n - i + extra > limit /\ C!Monus(nl, i) > floor
  BY DEF C!Smaller, C!Monus
<1> QED BY <1>1, <1>2 DEF GoesOn

LEMMA HardRounds ==
  ASSUME NEW n \in Nat, NEW nl \in Nat, nl <= n, NEW extra \in {0, 1}, NEW limit \in Nat \ {0},
         NEW M, M = C!Smaller(C!Monus(n + extra, limit), n)
  PROVE  M \in 0 .. n /\ GoesOn(n, nl, extra, limit, -1, M)
<1>1. M \in 0 .. n
  BY DEF C!Smaller, C!Monus
<1>2. ASSUME NEW i \in 0 .. n PROVE i < M <=> n - i + extra > limit /\ C!Monus(nl, i) > -1
  BY DEF C!Smaller, C!Monus
<1> QED BY <1>1, <1>2 DEF GoesOn

LEMMA CountsAre ==
  ASSUME NEW h, Good(h)
  PROVE  /\ TwoLists(BlocksOf(h)) /\ h.n = C!Size(BlocksOf(h)) /\ h.lru.n = Len(BlocksOf(h).lru)
         /\ h.n \in Nat /\ h.lru.n \in Nat /\ h.lru.n <= h.n
         /\ h.pin.n \in Nat /\ h.n = h.lru.n + h.pin.n
         /\ h.pin.n > 0 <=> BlocksOf(h).pin # << >>
<1> DEFINE l == BlocksOf(h).lru
           p == BlocksOf(h).pin
<1>1. /\ l \in Seq(Blocks) /\ p \in Seq(Blocks)
      /\ BlocksOf(h) = [lru |-> l, pin |-> p]
      /\ h.lru.n = Len(l) /\ h.pin.n = Len(p)
      /\ h.n = Len(l) + Len(p)
  BY BlocksGood
<1>2. C!Size(BlocksOf(h)) = Len(l) + Len(p) /\ TwoLists(BlocksOf(h))
  BY <1>1 DEF C!Size, TwoLists
<1> HIDE DEF l, p
<1>3. Len(l) \in Nat /\ Len(p) \in Nat /\ (Len(p) > 0 <=> p # << >>)
  BY <1>1
<1> DEFINE a == Len(l)
           b == Len(p)
<1>4. a \in Nat /\ b \in Nat /\ h.lru.n = a /\ h.pin.n = b /\ h.n = a + b
  BY <1>1, <1>3
<1> HIDE DEF a, b
<1>5. h.n \in Nat /\ h.lru.n \in Nat /\ h.lru.n <= h.n /\ h.pin.n \in Nat /\ h.n = h.lru.n + h.pin.n
  BY <1>4
<1> QED BY <1>1, <1>2, <1>3, <1>5 DEF l, p

LEMMA FewerOn ==
  ASSUME NEW h, NEW g, NEW r, Fewer(h, g), Fewer(g, r)
  PROVE  Fewer(h, r)
BY DEF Fewer

LEMMA TrimmedGood ==
  ASSUME NEW h, Good(h), NEW extra \in {0, 1}, NEW pinning \in BOOLEAN
  PROVE  LET g == TrimSlots(h, extra, pinning)
         IN  /\ Good(g) /\ Fewer(h, g)
             /\ BlocksOf(g) = C!Trim(BlocksOf(h), extra, pinning)
             /\ h.pin.n = 0 /\ extra = 0 /\ pinning = FALSE => g.n <= Cap
<1> DEFINE B == BlocksOf(h)
           n == h.n
           nl == h.lru.n
           floor == IF h.pin.n > 0 \/ pinning THEN Cap \div 4 ELSE 0
           M == C!Smaller(C!Monus(n + extra, Cap), C!Monus(nl, floor))
           d == EvictDown(h, extra, Cap, floor)
           D == C!Evict(B, M)
           dn == d.n
           N == C!Smaller(C!Monus(dn + extra, Hard), dn)
           g == EvictDown(d, extra, Hard, -1)
<1>1. Cap \in Nat \ {0} /\ Hard \in Nat \ {0} /\ floor \in Nat /\ floor \in Int
  BY SlotsAssumption
<1>2. /\ TwoLists(B) /\ n = C!Size(B) /\ nl = Len(B.lru)
      /\ n \in Nat /\ nl \in Nat /\ nl <= n /\ (h.pin.n > 0 <=> B.pin # << >>)
      /\ n = nl + h.pin.n
  BY CountsAre
<1>3. C!Floor(B, pinning) = floor
  BY <1>2 DEF C!Floor
<1>4. C!ToBudget(B, extra, pinning) = D
  BY <1>2, <1>3 DEF C!ToBudget
<1>5. TrimSlots(h, extra, pinning) = g
  BY DEF TrimSlots
<1> HIDE DEF B, n, nl, floor
<1>6. M \in 0 .. n /\ GoesOn(n, nl, extra, Cap, floor, M)
  BY <1>1, <1>2, BudgetRounds
<1> HIDE DEF M
<1>7. Good(d) /\ BlocksOf(d) = D /\ Fewer(h, d)
  BY <1>1, <1>6, EvictDownGood DEF n, nl, B
<1> HIDE DEF D, d, dn
<1>8. /\ dn = C!Size(D) /\ dn \in Nat /\ d.lru.n \in Nat /\ d.lru.n <= dn
  BY <1>7, CountsAre DEF dn
<1>9. N \in 0 .. dn /\ GoesOn(dn, d.lru.n, extra, Hard, -1, N)
  BY <1>1, <1>8, HardRounds
<1> HIDE DEF N
<1>10. Good(g) /\ BlocksOf(g) = C!Evict(D, N) /\ Fewer(d, g)
  BY <1>1, <1>7, <1>9, EvictDownGood DEF dn
<1>11. C!Trim(B, extra, pinning) = C!Evict(D, N)
  BY <1>4, <1>8 DEF C!Trim, C!ToHardLimit, N
<1> HIDE DEF g
<1>12. Fewer(h, g)
  BY <1>7, <1>10, FewerOn
<1>13. ASSUME h.pin.n = 0, extra = 0, pinning = FALSE PROVE g.n <= Cap
  <2>1. floor = 0 /\ nl = n
    BY <1>2, <1>13 DEF floor
  <2>2. n - M <= Cap
    BY <1>1, <1>2, <1>6, <1>13, <2>1 DEF M, C!Smaller, C!Monus
  <2>3. n = Len(B.lru) + Len(B.pin)
    BY <1>2 DEF C!Size
  <2>4. EvictsTo(B, n, M, D)
    BY <1>2, <1>6, <2>3, EvictMore DEF D
  <2>5. dn = n - M
    BY <1>8, <2>4 DEF EvictsTo, C!Size
  <2>6. TwoLists(D) /\ dn = Len(D.lru) + Len(D.pin)
    BY <1>8, <2>4 DEF EvictsTo, C!Size
  <2>7. EvictsTo(D, dn, N, C!Evict(D, N))
    BY <1>9, <2>6, EvictMore
  <2>8. g.n = C!Size(BlocksOf(g))
    BY <1>10, CountsAre
  <2>9. g.n = dn - N
    BY <1>10, <2>7, <2>8 DEF EvictsTo, C!Size
  <2> QED BY <1>1, <1>2, <1>6, <1>8, <1>9, <2>2, <2>5, <2>9
<1> QED BY <1>5, <1>10, <1>11, <1>12, <1>13 DEF B

-----------------------------------------------------------------------------
(***************************************************************************)
(* hvCachePut.                                                             *)
(***************************************************************************)
LEMMA LastingBlocks ==
  ASSUME NEW h \in CacheType, NEW g \in CacheType, Lasting(h, g), NEW u, NEW p, Recency(h, u, p)
  PROVE  Keys(g, u) = Keys(h, u) /\ Keys(g, p) = Keys(h, p)
<1>1. Ran(u) \subseteq Live(h) /\ Ran(p) \subseteq Live(h)
  BY RecencyLists
<1>2. \A y \in Live(h) : g.slot[y].key = h.slot[y].key
  BY DEF Lasting, Staying
<1> QED BY <1>1, <1>2, KeysKept

LEMMA FilledGood ==
  ASSUME NEW h \in CacheType, NEW u, NEW p, Recency(h, u, p),
         NEW g, NEW s \in Nat, Ready(h, g, s, u, p),
         NEW k \in Blocks, \A y \in Live(h) : h.slot[y].key # k, NEW L \in {"lru", "pin"}
  PROVE  LET r == FillOn(g, s, k, L)
         IN  /\ Good(r)
             /\ BlocksOf(r) = [lru |-> IF L = "lru" THEN << k >> \o Keys(h, u) ELSE Keys(h, u),
                               pin |-> IF L = "pin" THEN << k >> \o Keys(h, p) ELSE Keys(h, p)]
<1>0. s # -1
  OBVIOUS
<1>1. /\ g \in CacheType /\ Lasting(h, g) /\ s \in On(g, "free") /\ s < g.nchunk * Chunk
      /\ \E c, f : Whole(g, u, p, c) /\ Freed(g, f, {s})
  BY <1>0 DEF Ready
<1>2. PICK c, f : Whole(g, u, p, c) /\ Freed(g, f, {s})
  BY <1>1
<1> DEFINE m == NumSlots(g)
           nb == NumBuckets(g)
           r == FillOn(g, s, k, L)
           u1 == Onto(L, "lru", s, u)
           p1 == Onto(L, "pin", s, p)
<1>3. m \in Nat /\ nb \in Nat \ {0} /\ g \in Sized(m, nb)
  BY <1>1, IsSized
<1> HIDE DEF m, nb
<1>4. Live(g) = Live(h) /\ \A y \in Live(g) : g.slot[y].key = h.slot[y].key
  BY <1>1 DEF Lasting, Staying
<1>5. \A y \in Live(g) : g.slot[y].key # k
  BY <1>4
<1>6. r \in Sized(m, nb) /\ FillDone(g, r, u1, p1, f, s, k)
  <2>1. Backed(g, s) /\ Absent(g, k)
    BY <1>1, <1>5 DEF Backed, Absent
  <2> QED BY <1>1, <1>2, <1>3, <2>1, FillWhole
<1> HIDE DEF r
<1>7. PICK c2 : Whole(r, u1, p1, c2)
  BY <1>6 DEF FillDone
<1>71. /\ Freed(r, f, {}) /\ r.slot[s].key = k
       /\ \A y \in Live(g) : r.slot[y].key = g.slot[y].key
  BY <1>6 DEF FillDone
<1>8. r \in CacheType
  BY <1>3, <1>6, SizedFacts
<1>9. Good(r) /\ BlocksOf(r) = [lru |-> Keys(r, u1), pin |-> Keys(r, p1)]
  BY <1>7, <1>71, <1>8, MadeGood DEF u1, p1
<1>10. Recency(g, u, p)
  BY <1>2 DEF Whole
<1>11. /\ ListIn(u, Slots(g)) /\ ListIn(p, Slots(g)) /\ Ran(u) \subseteq Live(g) /\ Ran(p) \subseteq Live(g)
  BY <1>10, RecencyLists
<1>12. s \in Slots(g) /\ s \notin Live(g)
  BY <1>1 DEF On, Live
<1>13. /\ Keys(r, Headed(s, u)) = << k >> \o Keys(r, u)
       /\ Keys(r, Headed(s, p)) = << k >> \o Keys(r, p)
  BY <1>71, <1>8, <1>11, <1>12, KeysHeaded
<1>14. Keys(r, u) = Keys(g, u) /\ Keys(r, p) = Keys(g, p)
  BY <1>71, <1>11, KeysKept
<1>15. Keys(g, u) = Keys(h, u) /\ Keys(g, p) = Keys(h, p)
  BY <1>1, LastingBlocks
<1>16. /\ Keys(r, u1) = IF L = "lru" THEN << k >> \o Keys(h, u) ELSE Keys(h, u)
       /\ Keys(r, p1) = IF L = "pin" THEN << k >> \o Keys(h, p) ELSE Keys(h, p)
  BY <1>13, <1>14, <1>15 DEF Onto
<1> QED BY <1>9, <1>16 DEF r

LEMMA AllocGood ==
  ASSUME NEW h, Good(h), NEW fails
  PROVE  LET a == SlotAlloc(h, fails)
         IN  \/ /\ a.s >= 0
                /\ \A k \in Blocks, pinned \in BOOLEAN :
                     (\A y \in Live(h) : h.slot[y].key # k) =>
                       /\ Good(Fill(a.hv, a.s, k, pinned))
                       /\ BlocksOf(Fill(a.hv, a.s, k, pinned)) = C!Push(BlocksOf(h), k, pinned)
             \/ /\ a.s = -1 /\ h.freehead < 0 /\ fails \in {"arrays", "chunk"}
                /\ Good(a.hv) /\ BlocksOf(a.hv) = BlocksOf(h) /\ Fewer(h, a.hv)
<1>1. PICK u, p, c, f :
        /\ Whole(h, u, p, c) /\ Freed(h, f, {}) /\ h \in CacheType /\ Recency(h, u, p)
        /\ BlocksOf(h) = [lru |-> Keys(h, u), pin |-> Keys(h, p)]
  BY GoodParts
<1> DEFINE a == SlotAlloc(h, fails)
<1>2. /\ Ready(h, a.hv, a.s, u, p) /\ a.s \in Nat \cup {-1}
      /\ a.s = -1 => h.freehead < 0 /\ fails \in {"arrays", "chunk"}
  BY <1>1, AllocReady
<1> HIDE DEF a
<1> DEFINE z == a.s
           w == a.hv
<1> HIDE DEF z, w
<1>3. CASE a.s \in Nat
  <2>0. z \in Nat /\ Ready(h, w, z, u, p)
    BY <1>2, <1>3 DEF z, w
  <2>1. ASSUME NEW k \in Blocks, NEW pinned \in BOOLEAN, \A y \in Live(h) : h.slot[y].key # k
        PROVE  /\ Good(Fill(a.hv, a.s, k, pinned))
               /\ BlocksOf(Fill(a.hv, a.s, k, pinned)) = C!Push(BlocksOf(h), k, pinned)
    <3>1. BlocksOf(h).lru = Keys(h, u) /\ BlocksOf(h).pin = Keys(h, p)
      BY <1>1
    <3>2. CASE pinned
      <4>1. Fill(a.hv, a.s, k, pinned) = FillOn(a.hv, a.s, k, "pin")
        BY <3>2, FillIsOn
      <4>2. /\ Good(FillOn(a.hv, a.s, k, "pin"))
            /\ BlocksOf(FillOn(a.hv, a.s, k, "pin")) = [lru |-> Keys(h, u), pin |-> << k >> \o Keys(h, p)]
        <5>1. /\ Good(FillOn(w, z, k, "pin"))
              /\ BlocksOf(FillOn(w, z, k, "pin")) = [lru |-> Keys(h, u), pin |-> << k >> \o Keys(h, p)]
          BY <1>1, <2>0, <2>1, FilledGood
        <5> QED BY <5>1 DEF z, w
      <4> QED BY <3>1, <3>2, <4>1, <4>2 DEF C!Push
    <3>3. CASE ~pinned
      <4>1. Fill(a.hv, a.s, k, pinned) = FillOn(a.hv, a.s, k, "lru")
        BY <3>3, FillIsOn
      <4>2. /\ Good(FillOn(a.hv, a.s, k, "lru"))
            /\ BlocksOf(FillOn(a.hv, a.s, k, "lru")) = [lru |-> << k >> \o Keys(h, u), pin |-> Keys(h, p)]
        <5>1. /\ Good(FillOn(w, z, k, "lru"))
              /\ BlocksOf(FillOn(w, z, k, "lru")) = [lru |-> << k >> \o Keys(h, u), pin |-> Keys(h, p)]
          BY <1>1, <2>0, <2>1, FilledGood
        <5> QED BY <5>1 DEF z, w
      <4> QED BY <3>1, <3>3, <4>1, <4>2 DEF C!Push
    <3> QED BY <3>2, <3>3
  <2> QED BY <1>3, <2>1 DEF a
<1>4. CASE a.s = -1
  <2>1. a.hv \in CacheType /\ Lasting(h, a.hv) /\ \E c2, f2 : Whole(a.hv, u, p, c2) /\ Freed(a.hv, f2, {})
    BY <1>2, <1>4 DEF Ready
  <2>2. Good(a.hv) /\ BlocksOf(a.hv) = [lru |-> Keys(a.hv, u), pin |-> Keys(a.hv, p)]
    BY <2>1, MadeGood
  <2>3. BlocksOf(a.hv) = BlocksOf(h)
    BY <1>1, <2>1, <2>2, LastingBlocks
  <2>4. Fewer(h, a.hv)
    BY <2>1 DEF Lasting, Staying, Fewer
  <2> QED BY <1>2, <1>4, <2>2, <2>3, <2>4 DEF a
<1> QED BY <1>2, <1>3, <1>4

LEMMA PutGood ==
  ASSUME NEW h, Good(h), NEW k \in Blocks, NEW pinned \in BOOLEAN, NEW fails
  PROVE  LET r == PutSlot(h, k, pinned, fails)
         IN  /\ Good(r)
             /\ \E oom \in BOOLEAN : /\ oom => fails \in {"arrays", "chunk"}
                                     /\ BlocksOf(r) = C!Put(BlocksOf(h), k, pinned, oom)
<1> DEFINE s == SlotOf(h, k)
           B == BlocksOf(h)
           t == TrimSlots(h, 1, pinned)
           a == SlotAlloc(t, fails)
           e == EvictSlot(a.hv, Victim(a.hv))
           again == SlotAlloc(e, fails)
           r == PutSlot(h, k, pinned, fails)
           T == C!Trim(B, 1, pinned)
<1>1. r = IF s >= 0 THEN IF pinned THEN MoveToFront(h, s, "pin") ELSE h
          ELSE IF a.s >= 0 THEN Fill(a.hv, a.s, k, pinned)
          ELSE IF a.hv.n = 0 THEN a.hv
          ELSE IF again.s >= 0 THEN Fill(again.hv, again.s, k, pinned)
          ELSE again.hv
  BY DEF PutSlot
<1>2. \/ s \in Live(h) /\ s \in Nat /\ h.slot[s].key = k /\ C!Cached(B, k)
      \/ s = -1 /\ ~C!Cached(B, k) /\ \A y \in Live(h) : h.slot[y].key # k
  BY Lookup
<1> HIDE DEF s, r
<1>3. CASE s \in Live(h) /\ s \in Nat /\ h.slot[s].key = k /\ C!Cached(B, k)
  <2>1. C!Put(B, k, pinned, FALSE) = IF pinned THEN C!Pin(B, k) ELSE B
    BY <1>3 DEF C!Put
  <2>2. CASE pinned
    <3>1. r = MoveToFront(h, s, "pin")
      BY <1>1, <1>3, <2>2
    <3>2. Good(r) /\ BlocksOf(r) = C!Pin(B, k)
      BY <1>3, <3>1, MovedGood DEF C!Pin
    <3> QED BY <2>1, <2>2, <3>2 DEF r
  <2>3. CASE ~pinned
    <3>1. r = h
      BY <1>1, <1>3, <2>3
    <3> QED BY <2>1, <2>3, <3>1 DEF r
  <2> QED BY <2>2, <2>3
<1>4. CASE s = -1 /\ ~C!Cached(B, k) /\ \A y \in Live(h) : h.slot[y].key # k
  <2>0. ~(s >= 0)
    BY <1>4
  <2>1. Good(t) /\ Fewer(h, t) /\ BlocksOf(t) = T
    BY TrimmedGood
  <2>2. \A y \in Live(t) : t.slot[y].key # k
    BY <1>4, <2>1 DEF Fewer
  <2>3. \A oom \in BOOLEAN : C!Put(B, k, pinned, oom) =
          IF ~oom THEN C!Push(T, k, pinned)
          ELSE IF C!Size(T) = 0 THEN T ELSE C!Push(C!Evict(T, 1), k, pinned)
    BY <1>4 DEF C!Put
  <2> HIDE DEF t, T, B
  <2>4. \/ /\ a.s >= 0
           /\ Good(Fill(a.hv, a.s, k, pinned)) /\ BlocksOf(Fill(a.hv, a.s, k, pinned)) = C!Push(T, k, pinned)
        \/ /\ a.s = -1 /\ fails \in {"arrays", "chunk"}
           /\ Good(a.hv) /\ BlocksOf(a.hv) = T /\ Fewer(t, a.hv)
    BY <2>1, <2>2, AllocGood
  <2> HIDE DEF a
  <2>5. CASE /\ a.s >= 0
             /\ Good(Fill(a.hv, a.s, k, pinned)) /\ BlocksOf(Fill(a.hv, a.s, k, pinned)) = C!Push(T, k, pinned)
    <3>1. r = Fill(a.hv, a.s, k, pinned)
      BY <1>1, <2>0, <2>5
    <3>2. BlocksOf(r) = C!Put(B, k, pinned, FALSE)
      BY <2>3, <2>5, <3>1
    <3> QED BY <2>5, <3>1, <3>2 DEF r, B
  <2>6. CASE /\ a.s = -1 /\ fails \in {"arrays", "chunk"}
             /\ Good(a.hv) /\ BlocksOf(a.hv) = T /\ Fewer(t, a.hv)
    <3>0. ~(a.s >= 0)
      BY <2>6
    <3>1. a.hv.n = C!Size(T) /\ a.hv.n \in Nat
      BY <2>6, CountsAre
    <3>2. CASE a.hv.n = 0
      <4>1. r = a.hv
        BY <1>1, <2>0, <3>0, <3>2
      <4>2. BlocksOf(r) = C!Put(B, k, pinned, TRUE)
        BY <2>3, <2>6, <3>1, <3>2, <4>1
      <4> QED BY <2>6, <4>1, <4>2 DEF r, B
    <3>3. CASE a.hv.n # 0
      <4>1. a.hv.n > 0
        BY <3>1, <3>3
      <4>2. Good(e) /\ e.freehead >= 0 /\ BlocksOf(e) = C!Evict(T, 1) /\ Fewer(a.hv, e)
        BY <2>6, <4>1, EvictedGood DEF Fewer
      <4>3. \A y \in Live(e) : e.slot[y].key # k
        BY <2>2, <2>6, <4>2 DEF Fewer
      <4> HIDE DEF e
      <4>4. e.freehead \in Int
        BY <4>2, GoodParts, FieldsAre
      <4>5. /\ again.s >= 0
            /\ Good(Fill(again.hv, again.s, k, pinned))
            /\ BlocksOf(Fill(again.hv, again.s, k, pinned)) = C!Push(C!Evict(T, 1), k, pinned)
        BY <4>2, <4>3, <4>4, AllocGood
      <4> HIDE DEF again
      <4>6. r = Fill(again.hv, again.s, k, pinned)
        BY <1>1, <2>0, <3>0, <3>3, <4>5
      <4>7. BlocksOf(r) = C!Put(B, k, pinned, TRUE)
        BY <2>3, <3>1, <3>3, <4>5, <4>6
      <4> QED BY <2>6, <4>5, <4>6, <4>7 DEF r, B
    <3> QED BY <3>2, <3>3
  <2> QED BY <2>4, <2>5, <2>6
<1> QED BY <1>2, <1>3, <1>4

-----------------------------------------------------------------------------
(***************************************************************************)
(* hvCacheUnpinAll: the pinned tail to the front, again and again.  The    *)
(* pinned list and the LRU list one after the other stay the same sequence.*)
(***************************************************************************)
LastMoved(S, p, l, x, y) ==
  x \in Seq(S) /\ Len(x) = Len(p) - 1 /\ y \in Seq(S) /\ x \o y = p \o l

LEMMA LastMoves ==
  ASSUME NEW S, NEW p \in Seq(S), NEW l \in Seq(S), Len(p) > 0
  PROVE  LastMoved(S, p, l, SubSeq(p, 1, Len(p) - 1), << p[Len(p)] >> \o l)
<1> DEFINE n == Len(p)
           m == Len(l)
           k == p[n]
           x == SubSeq(p, 1, n - 1)
           o == << k >>
           y == o \o l
           a == x \o y
           b == p \o l
<1>1. n \in Nat /\ m \in Nat /\ n > 0 /\ n - 1 \in 0 .. n /\ k \in S
  OBVIOUS
<1>2. x \in Seq(S) /\ Len(x) = n - 1 /\ \A i \in 1 .. n - 1 : x[i] = p[i]
  <2> DEFINE b1 == n - 1
  <2>1. b1 \in 0 .. n
    BY <1>1
  <2> HIDE DEF b1, n
  <2>2. SubSeq(p, 1, b1) \in Seq(S) /\ Len(SubSeq(p, 1, b1)) = b1
        /\ \A i \in 1 .. b1 : SubSeq(p, 1, b1)[i] = p[i]
    BY <1>1, <2>1 DEF n
  <2> QED BY <2>2 DEF b1
<1>3. o \in Seq(S) /\ Len(o) = 1 /\ o[1] = k
  BY <1>1
<1> HIDE DEF x, o, k
<1>4. /\ y \in Seq(S) /\ Len(y) = m + 1
      /\ \A i \in 1 .. 1 + m : y[i] = IF i <= 1 THEN o[i] ELSE l[i - 1]
  <2>1. /\ y \in Seq(S) /\ Len(y) = Len(o) + m
        /\ \A i \in 1 .. Len(o) + m : y[i] = IF i <= Len(o) THEN o[i] ELSE l[i - Len(o)]
    BY <1>3, JoinFacts
  <2> HIDE DEF y, m
  <2>2. 1 + m = m + 1
    BY <1>1
  <2> QED BY <1>3, <2>1, <2>2
<1> HIDE DEF y
<1>5. /\ a \in Seq(S) /\ Len(a) = (n - 1) + (m + 1)
      /\ \A i \in 1 .. (n - 1) + (m + 1) : a[i] = IF i <= n - 1 THEN x[i] ELSE y[i - (n - 1)]
  <2>1. /\ a \in Seq(S) /\ Len(a) = Len(x) + Len(y)
        /\ \A i \in 1 .. Len(x) + Len(y) : a[i] = IF i <= Len(x) THEN x[i] ELSE y[i - Len(x)]
    BY <1>2, <1>4, JoinFacts
  <2> HIDE DEF a, m, n
  <2> QED BY <1>2, <1>4, <2>1
<1>6. /\ b \in Seq(S) /\ Len(b) = n + m
      /\ \A i \in 1 .. n + m : b[i] = IF i <= n THEN p[i] ELSE l[i - n]
  BY JoinFacts
<1> HIDE DEF a, b, m
<1>7. (n - 1) + (m + 1) = n + m
  BY <1>1
<1>8. ASSUME NEW i \in 1 .. n + m PROVE a[i] = b[i]
  <2>1. CASE i <= n - 1
    <3>1. i \in 1 .. n - 1 /\ i <= n
      BY <1>1, <2>1
    <3> QED BY <1>2, <1>5, <1>6, <1>7, <2>1, <3>1
  <2>2. CASE i = n
    <3>1. ~(i <= n - 1) /\ i - (n - 1) = 1 /\ 1 \in 1 .. 1 + m
      BY <1>1, <2>2
    <3>2. a[i] = o[1]
      BY <1>4, <1>5, <1>7, <3>1
    <3> QED BY <1>1, <1>3, <1>6, <2>2, <3>2 DEF k
  <2>3. CASE i > n
    <3>1. /\ ~(i <= n - 1) /\ ~(i <= n) /\ i - (n - 1) \in 1 .. 1 + m
          /\ ~(i - (n - 1) <= 1) /\ (i - (n - 1)) - 1 = i - n
      BY <1>1, <2>3
    <3>2. a[i] = y[i - (n - 1)]
      BY <1>5, <1>7, <3>1
    <3>3. y[i - (n - 1)] = l[i - n]
      BY <1>4, <3>1
    <3> QED BY <1>6, <3>1, <3>2, <3>3
  <2> QED BY <1>1, <2>1, <2>2, <2>3
<1>9. a = b
  BY <1>5, <1>6, <1>7, <1>8, SameSeq
<1>10. x \o y = p \o l
  BY <1>9 DEF a, b
<1> QED BY <1>2, <1>4, <1>10 DEF y, o, x, k, LastMoved

UnpinsOne(c, d) ==
  /\ TwoLists(d)
  /\ Len(d.pin) = Len(c.pin) - 1
  /\ d.pin \o d.lru = c.pin \o c.lru

LEMMA UnpinnedOne ==
  ASSUME NEW h, Good(h), h.pin.n > 0
  PROVE  LET g == MoveToFront(h, h.pin.tail, "lru")
         IN  Good(g) /\ UnpinsOne(BlocksOf(h), BlocksOf(g))
<1>1. PICK u, p, c, f :
        /\ Filled(h) /\ h \in CacheType /\ Recency(h, u, p)
        /\ ListIn(u, Slots(h)) /\ ListIn(p, Slots(h))
        /\ Ran(u) \subseteq Live(h) /\ Ran(p) \subseteq Live(h)
        /\ BlocksOf(h) = [lru |-> Keys(h, u), pin |-> Keys(h, p)]
  BY GoodParts
<1> DEFINE s == h.pin.tail
           g == MoveToFront(h, s, "lru")
           k == h.slot[s].key
           x == Keys(h, u)
           z == Keys(h, p)
<1>2. Links(h, h.pin, p) /\ h.pin.n = Len(p) /\ Ran(u) \cap Ran(p) = {}
  BY <1>1, RecencyLists DEF Recency, Links, Listed
<1>3. Len(p) > 0 /\ s \in Ran(p) /\ Less(p, s) = Cut(p, Len(p)) /\ Len(p) \in 1 .. Len(p)
      /\ s = p[Len(p)]
  BY <1>1, <1>2, TailFacts
<1>4. s \in Live(h) /\ s \notin Ran(u)
  BY <1>1, <1>2, <1>3
<1>5. /\ Good(g)
      /\ BlocksOf(g) = [lru |-> << k >> \o C!Without(x, k), pin |-> C!Without(z, k)]
  <2>1. BlocksOf(h).lru = x /\ BlocksOf(h).pin = z
    BY <1>1
  <2> QED BY <1>4, <2>1, MovedGood
<1>6. C!Without(x, k) = Keys(h, Less(u, s)) /\ C!Without(z, k) = Keys(h, Less(p, s))
  BY <1>1, <1>4, KeysLess
<1>7. Less(u, s) = u
  BY <1>4 DEF Less
<1>8. Keys(h, Cut(p, Len(p))) = SubSeq(z, 1, Len(z) - 1)
  BY <1>1, <1>3, KeysCut
<1>9. /\ x \in Seq(Blocks) /\ z \in Seq(Blocks) /\ Len(z) = Len(p)
      /\ \A i \in 1 .. Len(p) : z[i] = h.slot[p[i]].key
  BY <1>1, KeysFacts
<1>10. k = z[Len(z)] /\ Len(z) > 0
  BY <1>3, <1>9
<1> HIDE DEF g, k, x, z
<1>11. BlocksOf(g) = [lru |-> << z[Len(z)] >> \o x, pin |-> SubSeq(z, 1, Len(z) - 1)]
  BY <1>3, <1>5, <1>6, <1>7, <1>8, <1>10 DEF x
<1> DEFINE d == BlocksOf(g)
           B == BlocksOf(h)
<1>12. d.lru = << z[Len(z)] >> \o x /\ d.pin = SubSeq(z, 1, Len(z) - 1) /\ d = [lru |-> d.lru, pin |-> d.pin]
  BY <1>11
<1>13. B.lru = x /\ B.pin = z
  BY <1>1 DEF x, z
<1> HIDE DEF d, B
<1>14. UnpinsOne(B, d)
  <2> DEFINE e == SubSeq(z, 1, Len(z) - 1)
             v == << z[Len(z)] >> \o x
  <2>1. /\ e \in Seq(Blocks) /\ Len(e) = Len(z) - 1 /\ v \in Seq(Blocks)
        /\ e \o v = z \o x
    <3>1. x \in Seq(Blocks) /\ z \in Seq(Blocks) /\ Len(z) > 0
      BY <1>9, <1>10
    <3>2. LastMoved(Blocks, z, x, e, v)
      BY <3>1, LastMoves
    <3> HIDE DEF e, v
    <3> QED BY <3>2 DEF LastMoved
  <2> HIDE DEF e, v
  <2>2. d.lru = v /\ d.pin = e
    BY <1>12 DEF e, v
  <2>3. TwoLists(d)
    BY <1>12, <2>1, <2>2 DEF TwoLists
  <2> QED BY <1>13, <2>1, <2>2, <2>3 DEF UnpinsOne
<1> QED BY <1>5, <1>14 DEF d, B, g

LEMMA UnpinnedGood ==
  ASSUME NEW h, Good(h)
  PROVE  LET g == UnpinSlots(h)
         IN  Good(g) /\ BlocksOf(g) = C!UnpinAll(BlocksOf(h)) /\ g.pin.n = 0
<1>0. PICK B : B = BlocksOf(h)
  OBVIOUS
<1> DEFINE m == h.pin.n
           V == {g \in CacheType : Good(g)}
           step(g) == MoveToFront(g, g.pin.tail, "lru")
           F == [x \in (1 .. m) \X V |-> IF x[2].pin.n > 0 THEN step(x[2]) ELSE x[2]]
           round == CHOOSE f : f = [i \in 0 .. m |->
                      IF i = 0 THEN h
                      ELSE LET g == f[i - 1] IN MoveToFront(g, g.pin.tail, "lru")]
<1>1. TwoLists(B) /\ m = Len(B.pin) /\ m \in Nat
  BY <1>0, BlocksGood, CountsAre DEF TwoLists
<1>2. UnpinSlots(h) = round[m]
  BY DEF UnpinSlots
<1>3. \A g : Good(g) => g \in V
  BY GoodParts
<1>4. ASSUME NEW g \in V PROVE (IF g.pin.n > 0 THEN step(g) ELSE g) \in V
  <2>1. CASE g.pin.n > 0
    <3>1. Good(step(g))
      BY <2>1, UnpinnedOne
    <3> QED BY <1>3, <2>1, <3>1
  <2>2. CASE ~(g.pin.n > 0)
    BY <2>2
  <2> QED BY <2>1, <2>2
<1>5. h \in V
  BY <1>3
<1> HIDE DEF V, m, step
<1>6. /\ F \in [(1 .. m) \X V -> V]
      /\ \A i \in 1 .. m, g \in V : F[<< i, g >>] = IF g.pin.n > 0 THEN step(g) ELSE g
  BY <1>4
<1> HIDE DEF F
<1>7. PICK f \in [0 .. m -> V] : f[0] = h /\ \A i \in 1 .. m : f[i] = F[<< i, f[i - 1] >>]
  <2>1. StepsIn(F, m, V)
    BY <1>6 DEF StepsIn
  <2>2. HasIterates(h, m, F, V)
    BY <1>1, <1>5, <2>1, Recursion
  <2> QED BY <2>2 DEF HasIterates, Iterates
<1> DEFINE Done(g, i) == /\ Good(g) /\ TwoLists(BlocksOf(g)) /\ Len(BlocksOf(g).pin) = m - i
                         /\ g.pin.n = m - i
                         /\ BlocksOf(g).pin \o BlocksOf(g).lru = B.pin \o B.lru
           S == {i \in 0 .. m : Done(f[i], i)}
<1>8. \A g : Good(g) => g.pin.n = Len(BlocksOf(g).pin) /\ TwoLists(BlocksOf(g))
  BY BlocksGood DEF TwoLists
<1>9. Done(h, 0)
  <2>1. m - 0 = m
    BY <1>1
  <2> QED BY <1>0, <1>1, <1>8, <2>1 DEF m
<1>10. ASSUME NEW i \in 1 .. m, NEW g \in V, Done(g, i - 1)
       PROVE  g.pin.n > 0 /\ Done(step(g), i)
  <2>1. g.pin.n > 0 /\ Len(BlocksOf(g).pin) = m - (i - 1) /\ (m - (i - 1)) - 1 = m - i
    BY <1>1, <1>10
  <2>2. Good(step(g)) /\ UnpinsOne(BlocksOf(g), BlocksOf(step(g)))
    BY <1>10, <2>1, UnpinnedOne DEF step
  <2>3. /\ Len(BlocksOf(step(g)).pin) = m - i /\ TwoLists(BlocksOf(step(g)))
        /\ BlocksOf(step(g)).pin \o BlocksOf(step(g)).lru = B.pin \o B.lru
    BY <1>10, <2>1, <2>2 DEF UnpinsOne
  <2>4. step(g).pin.n = m - i
    BY <1>8, <2>2, <2>3
  <2> QED BY <2>1, <2>2, <2>3, <2>4
<1> HIDE DEF Done
<1>11. 0 \in S
  BY <1>1, <1>7, <1>9
<1>12. ASSUME NEW i \in 1 .. m, i - 1 \in S PROVE i \in S /\ f[i] = step(f[i - 1])
  <2>1. i - 1 \in 0 .. m /\ f[i - 1] \in V /\ Done(f[i - 1], i - 1)
    BY <1>7, <1>12
  <2>2. f[i - 1].pin.n > 0 /\ Done(step(f[i - 1]), i)
    BY <1>10, <2>1
  <2>3. f[i] = step(f[i - 1])
    BY <1>6, <1>7, <2>1, <2>2
  <2> QED BY <2>2, <2>3
<1>13. \A i \in 0 .. m : i \in S
  <2> HIDE DEF S
  <2> QED BY <1>1, <1>11, <1>12, UpTo
<1>14. \A i \in 1 .. m : f[i] = step(f[i - 1])
  <2> TAKE i \in 1 .. m
  <2>1. i - 1 \in 0 .. m
    BY <1>1
  <2>2. i - 1 \in S
    BY <1>13, <2>1
  <2> HIDE DEF S
  <2> QED BY <1>12, <2>2
<1>15. f = [i \in 0 .. m |->
              IF i = 0 THEN h
              ELSE LET g == f[i - 1] IN MoveToFront(g, g.pin.tail, "lru")]
  BY <1>1, <1>7, <1>14 DEF step
<1>16. round = [i \in 0 .. m |->
              IF i = 0 THEN h
              ELSE LET g == round[i - 1] IN MoveToFront(g, g.pin.tail, "lru")]
  BY <1>15
<1> HIDE DEF round
<1>17. round[0] = h /\ \A i \in 1 .. m : round[i] = step(round[i - 1])
  <2>1. 0 \in 0 .. m /\ \A i \in 1 .. m : i \in 0 .. m /\ i # 0
    BY <1>1
  <2>2. round[0] = h
    BY <1>16, <2>1
  <2>3. ASSUME NEW i \in 1 .. m PROVE round[i] = step(round[i - 1])
    BY <1>16, <2>1 DEF step
  <2> QED BY <2>2, <2>3
<1> DEFINE E == {i \in 0 .. m : round[i] = f[i]}
<1>18. 0 \in E
  BY <1>1, <1>7, <1>17
<1>19. ASSUME NEW i \in 1 .. m, i - 1 \in E PROVE i \in E
  BY <1>14, <1>17, <1>19
<1>20. \A i \in 0 .. m : i \in E
  <2> HIDE DEF E
  <2> QED BY <1>1, <1>18, <1>19, UpTo
<1>21. round[m] = f[m] /\ Done(f[m], m)
  <2>1. m \in 0 .. m
    BY <1>1
  <2> QED BY <1>13, <1>20, <2>1
<1> DEFINE g == round[m]
<1>22. /\ Good(g) /\ TwoLists(BlocksOf(g)) /\ Len(BlocksOf(g).pin) = 0 /\ g.pin.n = 0
       /\ BlocksOf(g).pin \o BlocksOf(g).lru = B.pin \o B.lru
  <2>1. m - m = 0
    BY <1>1
  <2> QED BY <1>21, <2>1 DEF Done
<1> HIDE DEF g
<1> DEFINE D == BlocksOf(g)
<1>23. D.lru \in Seq(Blocks) /\ D.pin \in Seq(Blocks) /\ D = [lru |-> D.lru, pin |-> D.pin] /\ Len(D.pin) = 0
  BY <1>22 DEF TwoLists
<1> HIDE DEF D
<1>24. D.pin = << >> /\ D.pin \o D.lru = D.lru
  BY <1>23
<1>25. D = [lru |-> B.pin \o B.lru, pin |-> << >>]
  BY <1>22, <1>23, <1>24 DEF D
<1>26. D = C!UnpinAll(B)
  BY <1>25 DEF C!UnpinAll
<1> QED BY <1>0, <1>2, <1>22, <1>26 DEF D, g

-----------------------------------------------------------------------------
(***************************************************************************)
(* hvSlotRelocate.                                                         *)
(***************************************************************************)
(* Who leads to slot s, and to whom it leads, are its neighbours. *)
LEMMA LinkedTo ==
  ASSUME NEW h, NEW l, NEW q, Links(h, l, q), Slots(h) \subseteq Nat, NEW s \in Ran(q)
  PROVE  /\ \A y \in Ran(q) : /\ y = h.slot[s].prev <=> h.slot[y].next = s
                              /\ y = h.slot[s].next <=> h.slot[y].prev = s
         /\ h.slot[s].prev < 0 <=> l.head = s
         /\ h.slot[s].next < 0 <=> l.tail = s
<1> DEFINE n == Len(q)
           p == h.slot[s].prev
           x == h.slot[s].next
<1>1. /\ ListIn(q, Slots(h)) /\ Leads(h, l.head, "next", q) /\ Back(h, l.tail, q)
      /\ n \in Nat /\ \A i \in 1 .. n : q[i] \in Nat
  BY ListFacts DEF Links
<1>2. \A i \in Int : \A z \in 1 .. n : At(q, i) = q[z] <=> i = z
  <2>1. Placed(q)
    BY <1>1, AtPlaced
  <2>2. \A z \in 1 .. n : At(q, z) = q[z]
    BY DEF At
  <2> QED BY <2>1, <2>2 DEF Placed
<1>3. /\ l.head = At(q, 1) /\ \A i \in 1 .. n : h.slot[q[i]].next = At(q, i + 1)
      /\ l.tail = At(q, n) /\ \A i \in 1 .. n : h.slot[q[i]].prev = At(q, i - 1)
  BY <1>1 DEF Leads, Back
<1>4. PICK j \in 1 .. n : q[j] = s
  BY DEF Ran
<1>5. p = At(q, j - 1) /\ x = At(q, j + 1) /\ j - 1 \in Int /\ j + 1 \in Int
  BY <1>3, <1>4
<1> HIDE DEF p, x
<1>6. ASSUME NEW i \in 1 .. n
      PROVE  (q[i] = p <=> h.slot[q[i]].next = s) /\ (q[i] = x <=> h.slot[q[i]].prev = s)
  <2>0. i + 1 \in Int /\ i - 1 \in Int
    OBVIOUS
  <2>1. q[i] = p <=> j - 1 = i
    BY <1>2, <1>5
  <2>2. h.slot[q[i]].next = s <=> i + 1 = j
    BY <1>2, <1>3, <1>4, <2>0
  <2>3. q[i] = x <=> j + 1 = i
    BY <1>2, <1>5
  <2>4. h.slot[q[i]].prev = s <=> i - 1 = j
    BY <1>2, <1>3, <1>4, <2>0
  <2> QED BY <2>1, <2>2, <2>3, <2>4
<1>7. \A y \in Ran(q) : (y = p <=> h.slot[y].next = s) /\ (y = x <=> h.slot[y].prev = s)
  BY <1>6 DEF Ran
<1>8. p < 0 <=> l.head = s
  <2>1. p < 0 <=> j = 1
    <3>1. CASE j = 1
      BY <1>5, <3>1 DEF At
    <3>2. CASE j # 1
      <4>1. j - 1 \in 1 .. n
        BY <1>1, <3>2
      <4>2. p \in Nat
        BY <1>1, <1>5, <4>1 DEF At
      <4> QED BY <3>2, <4>2
    <3> QED BY <3>1, <3>2
  <2> QED BY <1>2, <1>3, <1>4, <2>1
<1>9. x < 0 <=> l.tail = s
  <2>1. x < 0 <=> j = n
    <3>1. CASE j = n
      BY <1>1, <1>5, <3>1 DEF At
    <3>2. CASE j # n
      <4>1. j + 1 \in 1 .. n
        BY <1>1, <3>2
      <4>2. x \in Nat
        BY <1>1, <1>5, <4>1 DEF At
      <4> QED BY <3>2, <4>2
    <3> QED BY <3>1, <3>2
  <2>2. n \in Int
    BY <1>1
  <2> QED BY <1>2, <1>3, <1>4, <2>1, <2>2
<1> QED BY <1>7, <1>8, <1>9 DEF p, x

(* Nothing of a list leads to a slot that is not on it. *)
LEMMA NotLinked ==
  ASSUME NEW h, NEW l, NEW q, Links(h, l, q), NEW s \in Nat, s \notin Ran(q)
  PROVE  /\ \A y \in Ran(q) : h.slot[y].next # s /\ h.slot[y].prev # s
         /\ l.head # s /\ l.tail # s
<1>1. \A i : At(q, i) # s
  BY DEF At, Ran
<1>2. /\ l.head = At(q, 1) /\ \A i \in 1 .. Len(q) : h.slot[q[i]].next = At(q, i + 1)
      /\ l.tail = At(q, Len(q)) /\ \A i \in 1 .. Len(q) : h.slot[q[i]].prev = At(q, i - 1)
  BY DEF Links, Leads, Back
<1> QED BY <1>1, <1>2 DEF Ran

LEMMA LinksSwap ==
  ASSUME NEW h, NEW g, NEW l, NEW k, NEW q, Links(h, l, q), Slots(g) = Slots(h), Slots(h) \subseteq Nat,
         NEW s \in Slots(h), NEW d \in Slots(h), d \notin Ran(q),
         \A y \in Ran(q) \ {s} :
           /\ g.slot[y].next = IF h.slot[y].next = s THEN d ELSE h.slot[y].next
           /\ g.slot[y].prev = IF h.slot[y].prev = s THEN d ELSE h.slot[y].prev,
         s \in Ran(q) => g.slot[d].next = h.slot[s].next /\ g.slot[d].prev = h.slot[s].prev,
         k.head = IF l.head = s THEN d ELSE l.head,
         k.tail = IF l.tail = s THEN d ELSE l.tail,
         k.n = l.n
  PROVE  Links(g, k, Swap(q, s, d))
<1>1. /\ ListIn(q, Slots(h)) /\ Leads(h, l.head, "next", q) /\ Back(h, l.tail, q) /\ l.n = Len(q)
      /\ \A i \in 1 .. Len(q) : q[i] \in Ran(q)
  BY DEF Links, Ran
<1>2. ListIn(Swap(q, s, d), Slots(h)) /\ Len(Swap(q, s, d)) = Len(q)
  BY <1>1, SwapFacts
<1>3. LeadsTo(h, g, "next", q, s, d)
  BY <1>1 DEF LeadsTo
<1>4. Leads(g, IF l.head = s THEN d ELSE l.head, "next", Swap(q, s, d))
  BY <1>1, <1>3, LeadsSwap
<1>5. Back(g, IF l.tail = s THEN d ELSE l.tail, Swap(q, s, d))
  <2>1. \A i \in 1 .. Len(q) :
          q[i] # s => g.slot[q[i]].prev = IF h.slot[q[i]].prev = s THEN d ELSE h.slot[q[i]].prev
    BY <1>1
  <2> QED BY <1>1, <2>1, BackSwap
<1> QED BY <1>1, <1>2, <1>4, <1>5 DEF Links

(* Copied. *)
LEMMA CopiedFacts ==
  ASSUME NEW m \in Nat, NEW nb \in Nat \ {0}, NEW h \in Sized(m, nb), NEW d \in 0 .. m - 1, NEW r \in SlotType
  PROVE  LET g == [h EXCEPT !.slot[d] = r]
         IN  /\ g \in Sized(m, nb) /\ g.slot[d] = r
             /\ \A y \in 0 .. m - 1 : y # d => g.slot[y] = h.slot[y]
             /\ g.lru = h.lru /\ g.pin = h.pin
             /\ g.bucket = h.bucket /\ g.freehead = h.freehead /\ g.nchunk = h.nchunk
             /\ g.aslot = h.aslot /\ g.n = h.n
<1> DEFINE sl == [h.slot EXCEPT ![d] = r]
           g == [h EXCEPT !.slot[d] = r]
<1>1. h.slot \in [0 .. m - 1 -> SlotType]
  BY SizedFacts
<1>2. g = [h EXCEPT !.slot = sl]
  BY DEF Sized
<1>3. sl \in [0 .. m - 1 -> SlotType] /\ sl[d] = r /\ \A y \in 0 .. m - 1 : y # d => sl[y] = h.slot[y]
  BY <1>1
<1> HIDE DEF g, sl
<1>4. /\ g \in Sized(m, nb) /\ g.slot = sl
      /\ g.lru = h.lru /\ g.pin = h.pin
      /\ g.bucket = h.bucket /\ g.freehead = h.freehead /\ g.nchunk = h.nchunk
      /\ g.aslot = h.aslot /\ g.n = h.n
  BY <1>2, <1>3, SetSlot
<1> QED BY <1>3, <1>4 DEF g

(* Relocate field by field: a and x are the neighbours of slot s on its list L. *)
Relocated(h, g, s, d, L, a, x) ==
  /\ \A y \in Slots(h) \ {s, d} :
       /\ g.slot[y].key = h.slot[y].key /\ g.slot[y].data = h.slot[y].data
       /\ g.slot[y].state = h.slot[y].state
       /\ g.slot[y].hnext = IF y \in Live(h) /\ h.slot[y].hnext = s THEN d ELSE h.slot[y].hnext
       /\ g.slot[y].next = IF y = a THEN d ELSE h.slot[y].next
       /\ g.slot[y].prev = IF y = x THEN d ELSE h.slot[y].prev
  /\ g.slot[d] = h.slot[s] /\ g.slot[s].state = "free"
  /\ \A b \in DOMAIN h.bucket : g.bucket[b] = IF h.bucket[b] = s THEN d ELSE h.bucket[b]
  /\ g.lru.head = IF L = "lru" /\ a < 0 THEN d ELSE h.lru.head
  /\ g.pin.head = IF L = "pin" /\ a < 0 THEN d ELSE h.pin.head
  /\ g.lru.tail = IF L = "lru" /\ x < 0 THEN d ELSE h.lru.tail
  /\ g.pin.tail = IF L = "pin" /\ x < 0 THEN d ELSE h.pin.tail
  /\ g.lru.n = h.lru.n /\ g.pin.n = h.pin.n
  /\ g.nchunk = h.nchunk /\ g.aslot = h.aslot /\ g.n = h.n

LEMMA RelinkSelf ==
  ASSUME NEW h \in CacheType, NEW c, Hashed(h, c), Filled(h), NEW s \in Live(h)
  PROVE  h.slot[s].hnext # s
<1> DEFINE q == c[BucketOf(h, h.slot[s].key)]
<1>1. s \in Ran(q) /\ ListIn(q, Slots(h))
  BY OnChain
<1>2. PICK i \in 1 .. Len(q) : q[i] = s
  BY <1>1 DEF Ran
<1>3. PICK z : z = q
  OBVIOUS
<1>4. h.slot[s].hnext = s => i > 1 /\ s = z[i - 1]
  <2>1. i \in 1 .. Len(z) /\ z[i] = s /\ z = c[BucketOf(h, h.slot[s].key)]
    BY <1>2, <1>3
  <2> HIDE DEF q
  <2> QED BY <2>1, LeadsOn
<1>5. Len(z) \in Nat /\ Once(z) /\ i \in 1 .. Len(z) /\ z[i] = s
  BY <1>1, <1>2, <1>3, ListFacts DEF ListIn
<1> HIDE DEF q
<1>6. ASSUME i > 1, s = z[i - 1] PROVE FALSE
  <2>1. i - 1 \in 1 .. Len(z) /\ i - 1 # i
    BY <1>5, <1>6
  <2> QED BY <1>5, <1>6, <2>1 DEF Once
<1> QED BY <1>4, <1>6

LEMMA RelocateFields ==
  ASSUME NEW m \in Nat, NEW nb \in Nat \ {0}, NEW h \in Sized(m, nb),
         NEW c, Hashed(h, c), Filled(h),
         NEW s \in Live(h), NEW d \in 0 .. m - 1, d \notin Live(h),
         NEW L \in {"lru", "pin"}, h.slot[s].state = L,
         NEW a \in Live(h) \cup {-1}, h.slot[s].prev = a,
         NEW x \in Live(h) \cup {-1}, h.slot[s].next = x
  PROVE  Relocate(h, s, d) \in Sized(m, nb) /\ Relocated(h, Relocate(h, s, d), s, d, L, a, x)
<1> DEFINE g1 == Relink(h, s, d)
           g2 == [g1 EXCEPT !.slot[d] = g1.slot[s]]
           g3 == LinkBefore(g2, L, a, d)
           g4 == LinkAfter(g3, L, x, d)
           g == [g4 EXCEPT !.slot[s] = FreeSlot(Junk)]
<1>1. /\ h \in CacheType /\ Slots(h) = 0 .. m - 1 /\ h.slot \in [0 .. m - 1 -> SlotType]
      /\ s \in 0 .. m - 1 /\ a \in -1 .. m - 1 /\ x \in -1 .. m - 1
      /\ a # d /\ x # d /\ s # d /\ d \in Int /\ d \in -1 .. m - 1
  <2>1. h \in CacheType /\ Slots(h) = 0 .. m - 1 /\ h.slot \in [0 .. m - 1 -> SlotType]
    BY SizedFacts
  <2>2. Live(h) \subseteq 0 .. m - 1
    BY <2>1 DEF Live
  <2> QED BY <2>1, <2>2
<1>2. g1 \in Sized(m, nb) /\ StateKept(h, g1) /\ Relinked(h, g1, s, d)
  BY <1>1, RelinkFacts
<1>3. h.slot[s].hnext # s
  BY <1>1, RelinkSelf
<1> HIDE DEF g1
<1>4. /\ \A y \in 0 .. m - 1 :
           /\ g1.slot[y].key = h.slot[y].key /\ g1.slot[y].data = h.slot[y].data
           /\ g1.slot[y].state = h.slot[y].state
           /\ g1.slot[y].next = h.slot[y].next /\ g1.slot[y].prev = h.slot[y].prev
           /\ g1.slot[y].hnext = IF y \in Live(h) /\ h.slot[y].hnext = s THEN d ELSE h.slot[y].hnext
      /\ \A b \in DOMAIN h.bucket : g1.bucket[b] = IF h.bucket[b] = s THEN d ELSE h.bucket[b]
      /\ g1.lru = h.lru /\ g1.pin = h.pin /\ g1.freehead = h.freehead /\ g1.nchunk = h.nchunk
      /\ g1.aslot = h.aslot /\ g1.n = h.n
      /\ g1.slot \in [0 .. m - 1 -> SlotType]
  <2>1. g1.slot \in [0 .. m - 1 -> SlotType]
    BY <1>2, SizedFacts
  <2> QED BY <1>1, <1>2, <2>1 DEF Relinked, StateKept
<1>5. g1.slot[s] = h.slot[s]
  <2>1. g1.slot[s] \in SlotType /\ h.slot[s] \in SlotType
    BY <1>1, <1>4
  <2>2. /\ g1.slot[s].key = h.slot[s].key /\ g1.slot[s].data = h.slot[s].data
        /\ g1.slot[s].state = h.slot[s].state
        /\ g1.slot[s].next = h.slot[s].next /\ g1.slot[s].prev = h.slot[s].prev
        /\ g1.slot[s].hnext = h.slot[s].hnext
    BY <1>1, <1>3, <1>4
  <2> QED BY <2>1, <2>2 DEF SlotType
<1>6. /\ g2 \in Sized(m, nb) /\ g2.slot[d] = h.slot[s]
      /\ \A y \in 0 .. m - 1 : y # d => g2.slot[y] = g1.slot[y]
      /\ g2.lru = g1.lru /\ g2.pin = g1.pin
      /\ g2.bucket = g1.bucket /\ g2.freehead = g1.freehead /\ g2.nchunk = g1.nchunk
      /\ g2.aslot = g1.aslot /\ g2.n = g1.n
  <2> DEFINE r == g1.slot[s]
  <2>1. r \in SlotType /\ r = h.slot[s]
    BY <1>1, <1>5
  <2> HIDE DEF r
  <2>2. g2 = [g1 EXCEPT !.slot[d] = r]
    BY DEF r
  <2> HIDE DEF g2
  <2> QED BY <1>2, <2>1, <2>2, CopiedFacts
<1> HIDE DEF g2
<1>7. g3 \in Sized(m, nb) /\ LinkedBefore(g2, g3, L, a, d)
  BY <1>1, <1>6, LinkBeforeFacts
<1> HIDE DEF g3
<1>8. g4 \in Sized(m, nb) /\ LinkedAfter(g3, g4, L, d, x)
  BY <1>1, <1>7, LinkAfterFacts
<1> HIDE DEF g4
<1>9. /\ g \in Sized(m, nb) /\ g.slot[s] = FreeSlot(Junk)
      /\ \A y \in 0 .. m - 1 : y # s => g.slot[y] = g4.slot[y]
      /\ g.lru = g4.lru /\ g.pin = g4.pin
      /\ g.bucket = g4.bucket /\ g.freehead = g4.freehead /\ g.nchunk = g4.nchunk
      /\ g.aslot = g4.aslot /\ g.n = g4.n
  <2> DEFINE r == FreeSlot(Junk)
  <2>1. r \in SlotType
    BY FreeSlotType DEF Junk
  <2> HIDE DEF r
  <2>2. g = [g4 EXCEPT !.slot[s] = r]
    BY DEF r
  <2> HIDE DEF g
  <2>3. /\ g \in Sized(m, nb) /\ g.slot[s] = r
        /\ \A y \in 0 .. m - 1 : y # s => g.slot[y] = g4.slot[y]
        /\ g.lru = g4.lru /\ g.pin = g4.pin
        /\ g.bucket = g4.bucket /\ g.freehead = g4.freehead /\ g.nchunk = g4.nchunk
        /\ g.aslot = g4.aslot /\ g.n = g4.n
    <3>1. \A z \in 0 .. m - 1 :
            LET e == [g4 EXCEPT !.slot[z] = r]
            IN  /\ e \in Sized(m, nb) /\ e.slot[z] = r
                /\ \A y \in 0 .. m - 1 : y # z => e.slot[y] = g4.slot[y]
                /\ e.lru = g4.lru /\ e.pin = g4.pin
                /\ e.bucket = g4.bucket /\ e.freehead = g4.freehead /\ e.nchunk = g4.nchunk
                /\ e.aslot = g4.aslot /\ e.n = g4.n
      BY <1>8, <2>1, CopiedFacts
    <3> QED BY <1>1, <2>2, <3>1
  <2> QED BY <2>3 DEF r
<1>10. Relocate(h, s, d) = g
  <2>1. h.slot[s].state = L /\ h.slot[s].prev = a /\ h.slot[s].next = x
    OBVIOUS
  <2> QED BY <2>1 DEF Relocate, Copied, g1, g2, g3, g4
<1> HIDE DEF g
<1>11. Slots(g2) = 0 .. m - 1 /\ Slots(g3) = 0 .. m - 1 /\ Slots(g4) = 0 .. m - 1
       /\ g4.slot \in [0 .. m - 1 -> SlotType]
  BY <1>6, <1>7, <1>8, SizedFacts
<1>12. /\ \A y \in 0 .. m - 1 :
            /\ g3.slot[y].key = g2.slot[y].key /\ g3.slot[y].data = g2.slot[y].data
            /\ g3.slot[y].hnext = g2.slot[y].hnext /\ g3.slot[y].state = g2.slot[y].state
            /\ g3.slot[y].next = IF y = a THEN d ELSE g2.slot[y].next
            /\ g3.slot[y].prev = g2.slot[y].prev
       /\ g3.bucket = g2.bucket /\ g3.nchunk = g2.nchunk /\ g3.aslot = g2.aslot /\ g3.n = g2.n
       /\ g3.lru.head = IF L = "lru" /\ a < 0 THEN d ELSE g2.lru.head
       /\ g3.pin.head = IF L = "pin" /\ a < 0 THEN d ELSE g2.pin.head
       /\ g3.lru.tail = g2.lru.tail /\ g3.lru.n = g2.lru.n
       /\ g3.pin.tail = g2.pin.tail /\ g3.pin.n = g2.pin.n
  BY <1>7, <1>11 DEF LinkedBefore, HashKept, StateKept
<1>13. /\ \A y \in 0 .. m - 1 :
            /\ g4.slot[y].key = g3.slot[y].key /\ g4.slot[y].data = g3.slot[y].data
            /\ g4.slot[y].hnext = g3.slot[y].hnext /\ g4.slot[y].state = g3.slot[y].state
            /\ g4.slot[y].prev = IF y = x THEN d ELSE g3.slot[y].prev
            /\ g4.slot[y].next = g3.slot[y].next
       /\ g4.bucket = g3.bucket /\ g4.nchunk = g3.nchunk /\ g4.aslot = g3.aslot /\ g4.n = g3.n
       /\ g4.lru.tail = IF L = "lru" /\ x < 0 THEN d ELSE g3.lru.tail
       /\ g4.pin.tail = IF L = "pin" /\ x < 0 THEN d ELSE g3.pin.tail
       /\ g4.lru.head = g3.lru.head /\ g4.lru.n = g3.lru.n
       /\ g4.pin.head = g3.pin.head /\ g4.pin.n = g3.pin.n
  BY <1>8, <1>11 DEF LinkedAfter, HashKept, StateKept
<1>14. g.slot[d] = h.slot[s]
  <2>1. g4.slot[d] \in SlotType /\ h.slot[s] \in SlotType
    BY <1>1, <1>11
  <2>0. /\ g3.slot[d].key = g2.slot[d].key /\ g3.slot[d].data = g2.slot[d].data
        /\ g3.slot[d].hnext = g2.slot[d].hnext /\ g3.slot[d].state = g2.slot[d].state
        /\ g3.slot[d].next = g2.slot[d].next /\ g3.slot[d].prev = g2.slot[d].prev
    BY <1>1, <1>12
  <2>2. /\ g4.slot[d].key = g3.slot[d].key /\ g4.slot[d].data = g3.slot[d].data
        /\ g4.slot[d].hnext = g3.slot[d].hnext /\ g4.slot[d].state = g3.slot[d].state
        /\ g4.slot[d].next = g3.slot[d].next /\ g4.slot[d].prev = g3.slot[d].prev
    BY <1>1, <1>13
  <2>3. g4.slot[d] = h.slot[s]
    BY <1>6, <2>0, <2>1, <2>2 DEF SlotType
  <2> QED BY <1>1, <1>9, <2>3
<1>15. \A y \in Slots(h) \ {s, d} :
         /\ g.slot[y].key = h.slot[y].key /\ g.slot[y].data = h.slot[y].data
         /\ g.slot[y].state = h.slot[y].state
         /\ g.slot[y].hnext = IF y \in Live(h) /\ h.slot[y].hnext = s THEN d ELSE h.slot[y].hnext
         /\ g.slot[y].next = IF y = a THEN d ELSE h.slot[y].next
         /\ g.slot[y].prev = IF y = x THEN d ELSE h.slot[y].prev
  <2> TAKE y \in Slots(h) \ {s, d}
  <2>1. y \in 0 .. m - 1 /\ g.slot[y] = g4.slot[y] /\ g2.slot[y] = g1.slot[y]
    BY <1>1, <1>6, <1>9
  <2> QED BY <1>4, <1>12, <1>13, <2>1
<1>16. g.slot[s].state = "free"
  BY <1>9 DEF FreeSlot
<1>17. /\ \A b \in DOMAIN h.bucket : g.bucket[b] = IF h.bucket[b] = s THEN d ELSE h.bucket[b]
       /\ g.nchunk = h.nchunk /\ g.aslot = h.aslot /\ g.n = h.n
  BY <1>4, <1>6, <1>9, <1>12, <1>13
<1>18. /\ g.lru.head = IF L = "lru" /\ a < 0 THEN d ELSE h.lru.head
       /\ g.pin.head = IF L = "pin" /\ a < 0 THEN d ELSE h.pin.head
       /\ g.lru.tail = IF L = "lru" /\ x < 0 THEN d ELSE h.lru.tail
       /\ g.pin.tail = IF L = "pin" /\ x < 0 THEN d ELSE h.pin.tail
       /\ g.lru.n = h.lru.n /\ g.pin.n = h.pin.n
  BY <1>4, <1>6, <1>9, <1>12, <1>13
<1> QED BY <1>9, <1>10, <1>14, <1>15, <1>16, <1>17, <1>18 DEF Relocated

Swapping(h, c, s, d) == [b \in DOMAIN h.bucket |-> Swap(c[b], s, d)]

(* Slot s was in use and d free; now it is the other way round. *)
LEMMA RelocateLive ==
  ASSUME NEW m \in Nat, NEW nb \in Nat \ {0}, NEW h \in Sized(m, nb), NEW g \in Sized(m, nb),
         NEW s \in Live(h), NEW d \in Slots(h), d \notin Live(h), NEW L, NEW a, NEW x,
         Relocated(h, g, s, d, L, a, x)
  PROVE  /\ Slots(g) = Slots(h) /\ Live(g) = (Live(h) \ {s}) \cup {d}
         /\ \A M \in {"lru", "pin"} :
              On(g, M) = IF s \in On(h, M) THEN (On(h, M) \ {s}) \cup {d} ELSE On(h, M)
         /\ s \in Slots(h) /\ s # d
<1>1. Slots(g) = Slots(h) /\ s \in Slots(h) /\ s # d /\ h.slot[s].state # "free" /\ h.slot[d].state = "free"
  <2>1. Slots(g) = 0 .. m - 1 /\ Slots(h) = 0 .. m - 1
    BY SizedFacts
  <2> QED BY <2>1 DEF Live
<1>2. /\ \A y \in Slots(h) \ {s, d} : g.slot[y].state = h.slot[y].state
      /\ g.slot[d] = h.slot[s] /\ g.slot[s].state = "free"
  BY DEF Relocated
<1> QED BY <1>1, <1>2 DEF Live, On

LEMMA RelocateHashed ==
  ASSUME NEW m \in Nat, NEW nb \in Nat \ {0}, NEW h \in Sized(m, nb), NEW g \in Sized(m, nb),
         NEW c, Hashed(h, c), Filled(h), NEW s \in Live(h), NEW d \in Slots(h), d \notin Live(h),
         NEW L, NEW a, NEW x, Relocated(h, g, s, d, L, a, x)
  PROVE  Hashed(g, Swapping(h, c, s, d))
<1>1. /\ Slots(g) = Slots(h) /\ DOMAIN h.bucket = DOMAIN g.bucket
      /\ \A k : BucketOf(g, k) = BucketOf(h, k)
      /\ Slots(h) \subseteq Nat /\ h \in CacheType
  <2>1. /\ Slots(h) = 0 .. m - 1 /\ DOMAIN h.bucket = 0 .. nb - 1
        /\ \A k : BucketOf(h, k) = HashOf[k] % nb
        /\ h \in CacheType
    BY SizedFacts
  <2>2. /\ Slots(g) = 0 .. m - 1 /\ DOMAIN g.bucket = 0 .. nb - 1
        /\ \A k : BucketOf(g, k) = HashOf[k] % nb
    BY SizedFacts
  <2>3. Slots(h) \subseteq Nat
    BY <2>1, SlotsAre
  <2> QED BY <2>1, <2>2, <2>3
<1>2. Live(g) = (Live(h) \ {s}) \cup {d} /\ s \in Slots(h) /\ s # d /\ Live(h) \subseteq Slots(h)
  <2>1. Live(h) \subseteq Slots(h)
    BY DEF Live
  <2> QED BY <2>1, RelocateLive
<1>3. /\ \A y \in Slots(h) \ {s, d} :
           /\ g.slot[y].key = h.slot[y].key
           /\ g.slot[y].hnext = IF y \in Live(h) /\ h.slot[y].hnext = s THEN d ELSE h.slot[y].hnext
      /\ g.slot[d] = h.slot[s]
      /\ \A b \in DOMAIN h.bucket : g.bucket[b] = IF h.bucket[b] = s THEN d ELSE h.bucket[b]
  BY DEF Relocated
<1> SUFFICES ASSUME NEW b \in DOMAIN g.bucket
             PROVE  /\ ListIn(Swap(c[b], s, d), Slots(g))
                    /\ Leads(g, g.bucket[b], "hnext", Swap(c[b], s, d))
                    /\ Ran(Swap(c[b], s, d)) = {y \in Live(g) : BucketOf(g, g.slot[y].key) = b}
  BY <1>1 DEF Hashed, Swapping
<1>4. /\ ListIn(c[b], Slots(h))
      /\ Leads(h, h.bucket[b], "hnext", c[b])
      /\ Ran(c[b]) = {y \in Live(h) : BucketOf(h, h.slot[y].key) = b}
  BY <1>1 DEF Hashed
<1>5. d \notin Ran(c[b])
  BY <1>4
<1>6. /\ ListIn(Swap(c[b], s, d), Slots(h))
      /\ Ran(Swap(c[b], s, d)) = IF s \in Ran(c[b]) THEN (Ran(c[b]) \ {s}) \cup {d} ELSE Ran(c[b])
  <2>1. PICK q : q = c[b]
    OBVIOUS
  <2>2. ListIn(q, Slots(h)) /\ d \notin Ran(q)
    BY <1>4, <1>5, <2>1
  <2>3. /\ ListIn(Swap(q, s, d), Slots(h))
        /\ Ran(Swap(q, s, d)) = IF s \in Ran(q) THEN (Ran(q) \ {s}) \cup {d} ELSE Ran(q)
    BY <2>2, SwapFacts
  <2> QED BY <2>1, <2>3
<1>7. Ran(Swap(c[b], s, d)) = {y \in Live(g) : BucketOf(g, g.slot[y].key) = b}
  <2>1. \A y \in Live(h) : y # s => y \in Live(g) /\ g.slot[y].key = h.slot[y].key
    BY <1>2, <1>3
  <2>2. g.slot[d].key = h.slot[s].key /\ d \in Live(g) /\ s \notin Live(g)
    BY <1>2, <1>3
  <2>3. \A y \in Live(g) : y = d \/ (y \in Live(h) /\ y # s)
    BY <1>2
  <2> QED BY <1>1, <1>4, <1>6, <2>1, <2>2, <2>3
<1>8. LeadsTo(h, g, "hnext", c[b], s, d)
  <2>1. \A i \in 1 .. Len(c[b]) : c[b][i] \in Live(h)
    BY <1>4 DEF Ran
  <2>2. \A i \in 1 .. Len(c[b]) :
          c[b][i] # s => g.slot[c[b][i]]["hnext"] = IF h.slot[c[b][i]]["hnext"] = s
                                                    THEN d ELSE h.slot[c[b][i]]["hnext"]
    BY <1>2, <1>3, <2>1
  <2>3. g.slot[d]["hnext"] = h.slot[s]["hnext"]
    BY <1>3
  <2> QED BY <2>2, <2>3 DEF LeadsTo
<1>9. Leads(g, IF h.bucket[b] = s THEN d ELSE h.bucket[b], "hnext", Swap(c[b], s, d))
  BY <1>1, <1>2, <1>4, <1>5, <1>8, LeadsSwap
<1>10. g.bucket[b] = IF h.bucket[b] = s THEN d ELSE h.bucket[b]
  BY <1>1, <1>3
<1> QED BY <1>1, <1>6, <1>7, <1>9, <1>10

(* One list of a struct whose slot s, on list M of state L, moved to d. *)
LEMMA RelocateLinks ==
  ASSUME NEW m \in Nat, NEW nb \in Nat \ {0}, NEW h \in Sized(m, nb), NEW g \in Sized(m, nb),
         NEW s \in Live(h), NEW d \in Slots(h), d \notin Live(h), NEW L, h.slot[s].state = L,
         NEW a, h.slot[s].prev = a, NEW x, h.slot[s].next = x, Relocated(h, g, s, d, L, a, x),
         NEW l, NEW k, NEW q, Links(h, l, q), Ran(q) \subseteq Live(h),
         s \in Ran(q) =>
           /\ k.head = IF a < 0 THEN d ELSE l.head
           /\ k.tail = IF x < 0 THEN d ELSE l.tail,
         s \notin Ran(q) => a \notin Ran(q) /\ x \notin Ran(q) /\ k.head = l.head /\ k.tail = l.tail,
         k.n = l.n
  PROVE  Links(g, k, Swap(q, s, d))
<1>1. Slots(g) = Slots(h) /\ Slots(h) \subseteq Nat /\ s \in Slots(h) /\ s # d /\ Live(h) \subseteq Slots(h)
  <2>1. h \in CacheType
    BY SizedFacts
  <2>2. Slots(h) \subseteq Nat
    BY <2>1, SlotsAre
  <2>3. Live(h) \subseteq Slots(h)
    BY DEF Live
  <2> QED BY <2>2, <2>3, RelocateLive
<1>2. /\ \A y \in Slots(h) \ {s, d} : /\ g.slot[y].next = IF y = a THEN d ELSE h.slot[y].next
                                      /\ g.slot[y].prev = IF y = x THEN d ELSE h.slot[y].prev
      /\ g.slot[d] = h.slot[s]
  BY DEF Relocated
<1>3. d \notin Ran(q)
  OBVIOUS
<1>4. CASE s \in Ran(q)
  <2>1. /\ \A y \in Ran(q) : /\ y = a <=> h.slot[y].next = s
                             /\ y = x <=> h.slot[y].prev = s
        /\ a < 0 <=> l.head = s
        /\ x < 0 <=> l.tail = s
    BY <1>1, <1>4, LinkedTo
  <2>2. \A y \in Ran(q) \ {s} :
           /\ g.slot[y].next = IF h.slot[y].next = s THEN d ELSE h.slot[y].next
           /\ g.slot[y].prev = IF h.slot[y].prev = s THEN d ELSE h.slot[y].prev
    BY <1>1, <1>2, <1>3, <2>1
  <2>3. k.head = IF l.head = s THEN d ELSE l.head
    BY <1>4, <2>1
  <2>4. k.tail = IF l.tail = s THEN d ELSE l.tail
    BY <1>4, <2>1
  <2> QED BY <1>1, <1>2, <1>3, <2>2, <2>3, <2>4, LinksSwap
<1>5. CASE s \notin Ran(q)
  <2>1. /\ \A y \in Ran(q) : h.slot[y].next # s /\ h.slot[y].prev # s
        /\ l.head # s /\ l.tail # s
    BY <1>1, <1>5, NotLinked
  <2>2. \A y \in Ran(q) \ {s} :
           /\ g.slot[y].next = IF h.slot[y].next = s THEN d ELSE h.slot[y].next
           /\ g.slot[y].prev = IF h.slot[y].prev = s THEN d ELSE h.slot[y].prev
    BY <1>1, <1>2, <1>3, <1>5, <2>1
  <2>3. k.head = IF l.head = s THEN d ELSE l.head
    BY <1>5, <2>1
  <2>4. k.tail = IF l.tail = s THEN d ELSE l.tail
    BY <1>5, <2>1
  <2> QED BY <1>1, <1>2, <1>3, <1>5, <2>2, <2>3, <2>4, LinksSwap
<1> QED BY <1>4, <1>5

LEMMA KeysSwap ==
  ASSUME NEW h, NEW g, NEW S, NEW q, ListIn(q, S), NEW s, NEW d \in S, d \notin Ran(q),
         \A y \in Ran(q) \ {s} : g.slot[y].key = h.slot[y].key,
         g.slot[d].key = h.slot[s].key
  PROVE  Keys(g, Swap(q, s, d)) = Keys(h, q)
<1>1. /\ Len(Swap(q, s, d)) = Len(q)
      /\ \A i \in 1 .. Len(q) : Swap(q, s, d)[i] = IF q[i] = s THEN d ELSE q[i]
  BY SwapFacts
<1>2. \A i \in 1 .. Len(q) : q[i] \in Ran(q)
  BY DEF Ran
<1>3. \A i \in 1 .. Len(q) : g.slot[Swap(q, s, d)[i]].key = h.slot[q[i]].key
  BY <1>1, <1>2
<1> QED BY <1>1, <1>3 DEF Keys

(* What relocating slot s to slot d does to the lists. *)
LEMMA RelocateWhole ==
  ASSUME NEW m \in Nat, NEW nb \in Nat \ {0}, NEW h \in Sized(m, nb),
         NEW u, NEW p, NEW c, Whole(h, u, p, c),
         NEW s \in Live(h), NEW d \in Slots(h), d \notin Live(h)
  PROVE  LET g == Relocate(h, s, d)
         IN  /\ g \in Sized(m, nb)
             /\ Whole(g, Swap(u, s, d), Swap(p, s, d), Swapping(h, c, s, d))
             /\ Live(g) = (Live(h) \ {s}) \cup {d}
             /\ Keys(g, Swap(u, s, d)) = Keys(h, u) /\ Keys(g, Swap(p, s, d)) = Keys(h, p)
             /\ g.n = h.n /\ g.nchunk = h.nchunk
<1> DEFINE g == Relocate(h, s, d)
<1>1. Recency(h, u, p) /\ Hashed(h, c) /\ Filled(h) /\ Chunked(h)
  BY DEF Whole
<1>2. /\ h \in CacheType /\ Slots(h) = 0 .. m - 1 /\ Slots(h) \subseteq Nat /\ NumSlots(h) = m
      /\ d \in 0 .. m - 1
  <2>1. h \in CacheType /\ Slots(h) = 0 .. m - 1 /\ NumSlots(h) = m
    BY SizedFacts
  <2> QED BY <2>1, SlotsAre
<1>3. /\ Listed(h, u, p) /\ Ran(u) \cup Ran(p) \subseteq Live(h)
      /\ ListIn(u, Slots(h)) /\ ListIn(p, Slots(h))
      /\ \A y \in Ran(u) : h.slot[y].state = "lru"
      /\ \A y \in Ran(p) : h.slot[y].state = "pin"
  BY <1>1, RecencyLists
<1>4. (h.slot[s].state = "lru" /\ s \in Ran(u)) \/ (h.slot[s].state = "pin" /\ s \in Ran(p))
  BY <1>1, <1>2, LiveLists
<1>5. PICK L, a, x : L = h.slot[s].state /\ a = h.slot[s].prev /\ x = h.slot[s].next
  OBVIOUS
<1>6. /\ Links(h, h.lru, u) /\ Links(h, h.pin, p) /\ Ran(u) \cap Ran(p) = {}
      /\ Ran(u) = On(h, "lru") /\ Ran(p) = On(h, "pin") /\ h.n = Len(u) + Len(p)
  BY <1>1, <1>3 DEF Recency, Listed
<1>7. /\ L = "lru" => s \in Ran(u) /\ s \notin Ran(p) /\ a \in Ran(u) \cup {-1} /\ x \in Ran(u) \cup {-1}
      /\ L = "pin" => s \in Ran(p) /\ s \notin Ran(u) /\ a \in Ran(p) \cup {-1} /\ x \in Ran(p) \cup {-1}
      /\ L \in {"lru", "pin"}
  <2>1. CASE s \in Ran(u)
    <3>1. s \notin Ran(p) /\ L = "lru"
      BY <1>3, <1>5, <1>6, <2>1
    <3>2. h.slot[s].prev \in Ran(u) \cup {-1} /\ h.slot[s].next \in Ran(u) \cup {-1}
      BY <1>6, <2>1, Neighbours
    <3> QED BY <1>5, <2>1, <3>1, <3>2
  <2>2. CASE s \in Ran(p)
    <3>1. s \notin Ran(u) /\ L = "pin"
      BY <1>3, <1>5, <1>6, <2>2
    <3>2. h.slot[s].prev \in Ran(p) \cup {-1} /\ h.slot[s].next \in Ran(p) \cup {-1}
      BY <1>6, <2>2, Neighbours
    <3> QED BY <1>5, <2>2, <3>1, <3>2
  <2> QED BY <1>4, <2>1, <2>2
<1>8. a \in Live(h) \cup {-1} /\ x \in Live(h) \cup {-1}
  BY <1>3, <1>7
<1>9. g \in Sized(m, nb) /\ Relocated(h, g, s, d, L, a, x)
  BY <1>1, <1>2, <1>5, <1>7, <1>8, RelocateFields
<1> HIDE DEF g
<1>10. /\ Slots(g) = Slots(h) /\ Live(g) = (Live(h) \ {s}) \cup {d}
       /\ \A M \in {"lru", "pin"} :
            On(g, M) = IF s \in On(h, M) THEN (On(h, M) \ {s}) \cup {d} ELSE On(h, M)
       /\ s \in Slots(h) /\ s # d
  BY <1>9, RelocateLive
<1>11. Hashed(g, Swapping(h, c, s, d))
  BY <1>1, <1>9, RelocateHashed
<1>12. /\ \A y \in Slots(h) \ {s, d} : g.slot[y].key = h.slot[y].key /\ g.slot[y].data = h.slot[y].data
       /\ g.slot[d] = h.slot[s]
       /\ g.lru.head = IF L = "lru" /\ a < 0 THEN d ELSE h.lru.head
       /\ g.pin.head = IF L = "pin" /\ a < 0 THEN d ELSE h.pin.head
       /\ g.lru.tail = IF L = "lru" /\ x < 0 THEN d ELSE h.lru.tail
       /\ g.pin.tail = IF L = "pin" /\ x < 0 THEN d ELSE h.pin.tail
       /\ g.lru.n = h.lru.n /\ g.pin.n = h.pin.n
       /\ g.nchunk = h.nchunk /\ g.n = h.n
  BY <1>9 DEF Relocated
<1>13. -1 \notin Nat /\ Ran(u) \subseteq Nat /\ Ran(p) \subseteq Nat
  BY <1>2, <1>3, ListFacts
<1>14. Links(g, g.lru, Swap(u, s, d))
  <2>1. s \in Ran(u) => /\ g.lru.head = IF a < 0 THEN d ELSE h.lru.head
                        /\ g.lru.tail = IF x < 0 THEN d ELSE h.lru.tail
    BY <1>7, <1>12
  <2>2. s \notin Ran(u) => a \notin Ran(u) /\ x \notin Ran(u) /\ g.lru.head = h.lru.head /\ g.lru.tail = h.lru.tail
    BY <1>6, <1>7, <1>12, <1>13
  <2>3. Ran(u) \subseteq Live(h)
    BY <1>3
  <2> QED BY <1>5, <1>6, <1>9, <1>12, <2>1, <2>2, <2>3, RelocateLinks
<1>15. Links(g, g.pin, Swap(p, s, d))
  <2>1. s \in Ran(p) => /\ g.pin.head = IF a < 0 THEN d ELSE h.pin.head
                        /\ g.pin.tail = IF x < 0 THEN d ELSE h.pin.tail
    BY <1>7, <1>12
  <2>2. s \notin Ran(p) => a \notin Ran(p) /\ x \notin Ran(p) /\ g.pin.head = h.pin.head /\ g.pin.tail = h.pin.tail
    BY <1>6, <1>7, <1>12, <1>13
  <2>3. Ran(p) \subseteq Live(h)
    BY <1>3
  <2> QED BY <1>5, <1>6, <1>9, <1>12, <2>1, <2>2, <2>3, RelocateLinks
<1>16. d \notin Ran(u) /\ d \notin Ran(p)
  BY <1>3
<1>17. /\ Len(Swap(u, s, d)) = Len(u) /\ Len(Swap(p, s, d)) = Len(p)
       /\ Ran(Swap(u, s, d)) = IF s \in Ran(u) THEN (Ran(u) \ {s}) \cup {d} ELSE Ran(u)
       /\ Ran(Swap(p, s, d)) = IF s \in Ran(p) THEN (Ran(p) \ {s}) \cup {d} ELSE Ran(p)
  BY <1>3, <1>16, SwapFacts
<1>18. Recency(g, Swap(u, s, d), Swap(p, s, d))
  BY <1>6, <1>10, <1>12, <1>14, <1>15, <1>17 DEF Recency
<1>19. Chunked(g)
  <2>1. NumSlots(g) = m
    BY <1>9, SizedFacts
  <2> QED BY <1>1, <1>2, <1>12, <2>1 DEF Chunked
<1>20. Filled(g)
  <2>1. /\ \A y \in Live(h) : h.slot[y].key \in Blocks /\ h.slot[y].data = h.slot[y].key
                              /\ y < h.nchunk * Chunk
        /\ \A y, z \in Live(h) : h.slot[y].key = h.slot[z].key => y = z
    BY <1>1 DEF Filled
  <2>2. d < h.nchunk * Chunk
    <3>1. h.nchunk \in Nat
      BY <1>2, FieldsAre
    <3>2. h.nchunk * Chunk \in Nat
      BY <3>1, TimesChunk
    <3>3. m <= h.nchunk * Chunk
      BY <1>1, <1>2 DEF Chunked
    <3> HIDE DEF g
    <3> QED BY <1>2, <3>2, <3>3
  <2>3. \A y \in Live(h) : y # s => g.slot[y].key = h.slot[y].key /\ g.slot[y].data = h.slot[y].data
    BY <1>12 DEF Live
  <2>4. g.slot[d].key = h.slot[s].key /\ g.slot[d].data = h.slot[s].data
    BY <1>12
  <2>5. \A y \in Live(g) : y = d \/ (y \in Live(h) /\ y # s)
    BY <1>10
  <2>6. ASSUME NEW y \in Live(g)
        PROVE  g.slot[y].key \in Blocks /\ g.slot[y].data = g.slot[y].key /\ y < g.nchunk * Chunk
    BY <1>12, <2>1, <2>2, <2>3, <2>4, <2>5
  <2>7. ASSUME NEW y \in Live(g), NEW z \in Live(g), g.slot[y].key = g.slot[z].key PROVE y = z
    BY <2>1, <2>3, <2>4, <2>5, <2>7
  <2> QED BY <2>6, <2>7 DEF Filled
<1>21. Keys(g, Swap(u, s, d)) = Keys(h, u) /\ Keys(g, Swap(p, s, d)) = Keys(h, p)
  <2>1. g.slot[d].key = h.slot[s].key
    BY <1>12
  <2>2. \A y \in Live(h) \ {s} : g.slot[y].key = h.slot[y].key
    BY <1>12 DEF Live
  <2>3. /\ \A y \in Ran(u) \ {s} : g.slot[y].key = h.slot[y].key
        /\ \A y \in Ran(p) \ {s} : g.slot[y].key = h.slot[y].key
    BY <1>3, <2>2
  <2>4. Keys(g, Swap(u, s, d)) = Keys(h, u)
    BY <1>3, <1>16, <2>1, <2>3, KeysSwap
  <2>5. Keys(g, Swap(p, s, d)) = Keys(h, p)
    BY <1>3, <1>16, <2>1, <2>3, KeysSwap
  <2> QED BY <2>4, <2>5
<1>22. Whole(g, Swap(u, s, d), Swap(p, s, d), Swapping(h, c, s, d))
  BY <1>11, <1>18, <1>19, <1>20 DEF Whole
<1> QED BY <1>9, <1>10, <1>12, <1>21, <1>22 DEF g

-----------------------------------------------------------------------------
(***************************************************************************)
(* hvCacheShrink.                                                          *)
(***************************************************************************)
LEMMA LimitIs ==
  /\ Keep \in Nat \ {0} /\ Limit \in Nat \ {0} /\ Limit = Keep * Chunk
  /\ Cap <= Limit
<1> DEFINE a == Cap + Chunk - 1
<1>1. Cap \in Nat \ {0} /\ Chunk \in Nat \ {0} /\ a \in Nat /\ a >= Chunk
  BY SlotsAssumption
<1>2. Keep = a \div Chunk
  BY DEF Keep
<1> HIDE DEF a
<1>3. Keep \in Nat
  BY <1>1, <1>2
<1>4. Keep >= 1
  <2>1. a \div Chunk >= 1 <=> a >= 1 * Chunk
    BY <1>1, ChunkOf
  <2> QED BY <1>1, <1>2, <2>1
<1>5. Keep * Chunk \in Nat /\ (Keep + 1) * Chunk = Keep * Chunk + Chunk /\ 1 * Chunk <= Keep * Chunk
  BY <1>3, <1>4, TimesChunk
<1>6. ~(a >= Keep * Chunk + Chunk)
  <2>1. a \div Chunk >= Keep + 1 <=> a >= (Keep + 1) * Chunk
    BY <1>1, <1>3, ChunkOf
  <2> QED BY <1>2, <1>3, <1>5, <2>1
<1> DEFINE l == Keep * Chunk
<1>7. l \in Nat /\ ~(a >= l + Chunk) /\ 1 * Chunk <= l
  BY <1>5, <1>6
<1> HIDE DEF l
<1>8. Cap <= l /\ l # 0
  BY <1>1, <1>7 DEF a
<1> QED BY <1>3, <1>4, <1>7, <1>8 DEF Limit, l

(* As many slots are in use as there are blocks. *)
LEMMA LiveSize ==
  ASSUME NEW h \in CacheType, NEW u, NEW p, Recency(h, u, p)
  PROVE  IsFiniteSet(Live(h)) /\ Cardinality(Live(h)) = h.n
<1>1. /\ ListIn(u, Slots(h)) /\ ListIn(p, Slots(h)) /\ Ran(u) \cap Ran(p) = {}
      /\ Ran(u) \cup Ran(p) \subseteq Live(h)
  BY RecencyLists DEF Listed
<1>2. \A s \in Live(h) : s \in Ran(u) \cup Ran(p)
  BY LiveLists
<1>3. Live(h) = Ran(u) \cup Ran(p)
  BY <1>1, <1>2
<1>4. /\ IsFiniteSet(Ran(u)) /\ Cardinality(Ran(u)) = Len(u)
      /\ IsFiniteSet(Ran(p)) /\ Cardinality(Ran(p)) = Len(p)
  BY <1>1, RanSize
<1>5. IsFiniteSet({}) /\ Cardinality({}) = 0
  BY FS_EmptySet
<1>6. /\ IsFiniteSet(Ran(u) \cup Ran(p))
      /\ Cardinality(Ran(u) \cup Ran(p)) = Len(u) + Len(p) - Cardinality(Ran(u) \cap Ran(p))
  BY <1>4, FS_Union
<1>7. Len(u) \in Nat /\ Len(p) \in Nat
  BY <1>1, ListFacts
<1>8. Cardinality(Ran(u) \cap Ran(p)) = 0
  BY <1>1, <1>5
<1>9. h.n = Len(u) + Len(p)
  BY DEF Recency
<1>10. Len(u) + Len(p) - 0 = Len(u) + Len(p)
  BY <1>7
<1> QED BY <1>3, <1>6, <1>8, <1>9, <1>10

(* Some slot below the limit is free while one above it is in use. *)
LEMMA RoomBelow ==
  ASSUME NEW h \in CacheType, NEW u, NEW p, Recency(h, u, p), h.n <= Limit,
         NEW s \in Live(h), s >= Limit
  PROVE  \E y \in Slots(h) : y \notin Live(h) /\ y < Limit
<1> SUFFICES ASSUME \A y \in Slots(h) : y < Limit => y \in Live(h) PROVE FALSE
  OBVIOUS
<1> DEFINE l == Limit
           T == 0 .. l - 1
<1>1. l \in Nat /\ IsFiniteSet(Live(h)) /\ Cardinality(Live(h)) = h.n /\ h.n <= l
  BY LimitIs, LiveSize
<1>2. NumSlots(h) \in Nat /\ Slots(h) = 0 .. NumSlots(h) - 1 /\ s \in Slots(h) /\ s >= l
  BY SlotsAre DEF Live
<1>3. \A y \in Slots(h) : y < l => y \in Live(h)
  OBVIOUS
<1> HIDE DEF l
<1>4. T \subseteq Live(h)
  <2>1. \A y \in T : y \in Slots(h) /\ y < l
    BY <1>1, <1>2
  <2> QED BY <1>3, <2>1
<1>5. s \notin T
  BY <1>1, <1>2
<1>6. IsFiniteSet(T) /\ Cardinality(T) = l
  BY <1>1, IntervalSize
<1> HIDE DEF T
<1>7. IsFiniteSet(T \cup {s}) /\ Cardinality(T \cup {s}) = l + 1
  BY <1>5, <1>6, FS_AddElement
<1>8. T \cup {s} \subseteq Live(h)
  BY <1>4
<1>9. Cardinality(T \cup {s}) <= Cardinality(Live(h))
  BY <1>1, <1>8, FS_Subset
<1>10. h.n \in Int
  BY FieldsAre
<1> QED BY <1>1, <1>7, <1>9, <1>10

(***************************************************************************)
(* While blocks move: the struct keeps its sizes and its blocks, and the   *)
(* slots from the limit up to z are free.                                  *)
(***************************************************************************)
Packed(g, h, B, z) ==
  /\ g \in Sized(NumSlots(h), NumBuckets(h)) /\ g.n = h.n
  /\ \E u, p, c : Whole(g, u, p, c) /\ B = [lru |-> Keys(g, u), pin |-> Keys(g, p)]
  /\ \A y \in Live(g) : y < Limit \/ y >= z

PackStep(g, s) == IF s \in Live(g) THEN Relocate(g, s, Min(Slots(g) \ Live(g))) ELSE g

LEMMA PackStepFacts ==
  ASSUME NEW h \in CacheType, h.n <= Limit, NEW B, NEW s \in Limit .. NumSlots(h) - 1,
         NEW g, Packed(g, h, B, s)
  PROVE  Packed(PackStep(g, s), h, B, s + 1)
<1> DEFINE m == NumSlots(h)
           nb == NumBuckets(h)
           l == Limit
<1>1. /\ m \in Nat /\ nb \in Nat \ {0} /\ g \in Sized(m, nb) /\ g.n = h.n
      /\ \A y \in Live(g) : y < l \/ y >= s
  BY IsSized DEF Packed
<1>2. PICK u, p, c : Whole(g, u, p, c) /\ B = [lru |-> Keys(g, u), pin |-> Keys(g, p)]
  BY DEF Packed
<1>3. l \in Nat \ {0} /\ s \in Nat /\ l <= s
  BY LimitIs
<1>4. g \in CacheType /\ Slots(g) = 0 .. m - 1 /\ Slots(g) \subseteq Nat
  <2>1. g \in CacheType
    BY <1>1, SizedFacts
  <2> QED BY <1>1, <2>1, SizedFacts, SlotsAre
<1>5. Recency(g, u, p)
  BY <1>2 DEF Whole
<1>6. CASE s \notin Live(g)
  <2>1. ASSUME NEW y \in Live(g) PROVE y < l \/ y >= s + 1
    <3>1. y \in Nat /\ y # s /\ (y < l \/ y >= s)
      BY <1>1, <1>4, <1>6 DEF Live
    <3> QED BY <1>3, <3>1
  <2>2. PackStep(g, s) = g
    BY <1>6 DEF PackStep
  <2> QED BY <1>1, <1>2, <2>1, <2>2 DEF Packed
<1>7. CASE s \in Live(g)
  <2> DEFINE free == Slots(g) \ Live(g)
             d == Min(free)
             r == Relocate(g, s, d)
  <2>1. \E y \in free : y < l
    <3>1. g.n <= Limit
      BY <1>1
    <3>2. \E y \in Slots(g) : y \notin Live(g) /\ y < Limit
      BY <1>3, <1>4, <1>5, <1>7, <3>1, RoomBelow
    <3> QED BY <3>2
  <2>2. free \subseteq Nat
    BY <1>4
  <2> HIDE DEF free
  <2>3. d \in free /\ \A y \in free : d <= y
    BY <2>1, <2>2, NaturalMin
  <2>4. d \in Nat /\ d < l
    <3>1. PICK y \in free : y < l
      BY <2>1
    <3>2. d <= y /\ d \in Nat /\ y \in Nat
      BY <2>2, <2>3
    <3> QED BY <1>3, <3>1, <3>2
  <2> HIDE DEF d
  <2>5. d \in Slots(g) /\ d \notin Live(g)
    BY <2>3 DEF free
  <2>6. /\ r \in Sized(m, nb)
        /\ Whole(r, Swap(u, s, d), Swap(p, s, d), Swapping(g, c, s, d))
        /\ Live(r) = (Live(g) \ {s}) \cup {d}
        /\ Keys(r, Swap(u, s, d)) = Keys(g, u) /\ Keys(r, Swap(p, s, d)) = Keys(g, p)
        /\ r.n = g.n
    BY <1>1, <1>2, <1>7, <2>5, RelocateWhole
  <2> HIDE DEF r
  <2>7. ASSUME NEW y \in Live(r) PROVE y < l \/ y >= s + 1
    <3>1. CASE y = d
      BY <2>4, <3>1
    <3>2. CASE y # d
      <4>1. y \in Live(g) /\ y # s
        BY <2>6, <3>2
      <4>2. y \in Nat /\ (y < l \/ y >= s)
        BY <1>1, <1>4, <4>1 DEF Live
      <4> QED BY <1>3, <4>1, <4>2
    <3> QED BY <3>1, <3>2
  <2>8. PackStep(g, s) = r
    BY <1>7 DEF PackStep, r, d, free
  <2>9. Packed(r, h, B, s + 1)
    BY <1>1, <1>2, <2>6, <2>7 DEF Packed
  <2> QED BY <2>8, <2>9
<1> QED BY <1>6, <1>7

(* The blocks past the limit have moved below it. *)
LEMMA PackGood ==
  ASSUME NEW h \in CacheType, h.n <= Limit, NEW last, last = NumSlots(h) - 1, last >= Limit,
         NEW B, Packed(h, h, B, Limit)
  PROVE  LET moved[s \in Limit - 1 .. last] ==
               IF s < Limit THEN h
               ELSE LET g == moved[s - 1]
                    IN  IF s \in Live(g) THEN Relocate(g, s, Min(Slots(g) \ Live(g))) ELSE g
         IN  Packed(moved[last], h, B, last + 1)
<1> DEFINE m == NumSlots(h)
           l == Limit
           n == m - l
           V == Sized(m, NumBuckets(h))
           at(x) == l + (x[1] - 1)
           F == [x \in (1 .. n) \X V |->
                   IF Packed(x[2], h, B, at(x)) THEN PackStep(x[2], at(x)) ELSE x[2]]
           moved == CHOOSE f : f = [s \in l - 1 .. last |->
                      IF s < l THEN h
                      ELSE LET g == f[s - 1]
                           IN  IF s \in Live(g) THEN Relocate(g, s, Min(Slots(g) \ Live(g))) ELSE g]
<1>1. l \in Nat \ {0} /\ m \in Nat /\ last = m - 1 /\ l < m /\ n \in Nat /\ n >= 1
  BY LimitIs, IsSized
<1>2. h \in V
  BY IsSized
<1>3. ASSUME NEW g, NEW s \in l .. m - 1, Packed(g, h, B, s)
      PROVE  Packed(PackStep(g, s), h, B, s + 1) /\ PackStep(g, s) \in V
  <2>1. Packed(PackStep(g, s), h, B, s + 1)
    BY <1>3, PackStepFacts
  <2> QED BY <2>1 DEF Packed
<1>4. Packed(h, h, B, l)
  OBVIOUS
<1> HIDE DEF V, l, m
<1>5. ASSUME NEW i \in 1 .. n, NEW g \in V
      PROVE  /\ F[<< i, g >>] \in V
             /\ Packed(g, h, B, l + (i - 1)) => F[<< i, g >>] = PackStep(g, l + (i - 1))
  <2>1. << i, g >> \in (1 .. n) \X V
    OBVIOUS
  <2>2. F[<< i, g >>] = IF Packed(g, h, B, l + (i - 1)) THEN PackStep(g, l + (i - 1)) ELSE g
    BY <2>1
  <2>3. l + (i - 1) \in l .. m - 1
    BY <1>1
  <2> QED BY <1>3, <2>2, <2>3
<1>6. F \in [(1 .. n) \X V -> V]
  <2> DEFINE e(x) == IF Packed(x[2], h, B, at(x)) THEN PackStep(x[2], at(x)) ELSE x[2]
  <2>1. ASSUME NEW x \in (1 .. n) \X V PROVE e(x) \in V
    <3>1. x[1] \in 1 .. n /\ x[2] \in V
      OBVIOUS
    <3>2. at(x) \in l .. m - 1
      BY <1>1, <3>1
    <3> HIDE DEF at
    <3> QED BY <1>3, <3>1, <3>2
  <2>2. F = [x \in (1 .. n) \X V |-> e(x)]
    OBVIOUS
  <2> HIDE DEF e, F
  <2> QED BY <2>1, <2>2
<1> HIDE DEF F, at
<1>7. PICK f \in [0 .. n -> V] : f[0] = h /\ \A i \in 1 .. n : f[i] = F[<< i, f[i - 1] >>]
  <2>1. StepsIn(F, n, V)
    BY <1>6 DEF StepsIn
  <2>2. HasIterates(h, n, F, V)
    BY <1>1, <1>2, <2>1, Recursion
  <2> QED BY <2>2 DEF HasIterates, Iterates
<1> DEFINE S == {i \in 0 .. n : Packed(f[i], h, B, l + i)}
<1>8. ASSUME NEW i \in 1 .. n, Packed(f[i - 1], h, B, l + (i - 1))
      PROVE  f[i] = PackStep(f[i - 1], l + (i - 1)) /\ Packed(f[i], h, B, l + i)
  <2> DEFINE s == l + (i - 1)
             g == f[i - 1]
  <2>1. s \in l .. m - 1 /\ s + 1 = l + i /\ i - 1 \in 0 .. n
    BY <1>1
  <2>2. g \in V
    BY <1>7, <2>1
  <2>3. f[i] = F[<< i, g >>] /\ Packed(g, h, B, s)
    BY <1>7, <1>8
  <2>4. f[i] = PackStep(g, s)
    BY <1>5, <2>2, <2>3
  <2> HIDE DEF s, g
  <2>5. Packed(PackStep(g, s), h, B, s + 1)
    BY <1>3, <2>1, <2>3
  <2> QED BY <2>1, <2>4, <2>5 DEF s, g
<1>9. \A i \in 0 .. n : i \in S
  <2>1. 0 \in S
    <3>1. l + 0 = l /\ 0 \in 0 .. n
      BY <1>1
    <3> QED BY <1>4, <1>7, <3>1
  <2>2. ASSUME NEW i \in 1 .. n, i - 1 \in S PROVE i \in S
    <3>1. Packed(f[i], h, B, l + i)
      BY <1>8, <2>2
    <3> QED BY <1>1, <3>1
  <2> HIDE DEF S
  <2> QED BY <1>1, <2>1, <2>2, UpTo
<1>10. \A i \in 1 .. n : f[i] = PackStep(f[i - 1], l + (i - 1))
  <2> TAKE i \in 1 .. n
  <2>1. i - 1 \in 0 .. n
    BY <1>1
  <2>2. Packed(f[i - 1], h, B, l + (i - 1))
    BY <1>9, <2>1
  <2> QED BY <1>8, <2>2
<1> DEFINE z == [s \in l - 1 .. last |-> f[s - (l - 1)]]
<1>11. z = [s \in l - 1 .. last |->
              IF s < l THEN h
              ELSE LET g == z[s - 1]
                   IN  IF s \in Live(g) THEN Relocate(g, s, Min(Slots(g) \ Live(g))) ELSE g]
  <2>1. ASSUME NEW s \in l - 1 .. last PROVE z[s] = IF s < l THEN h ELSE PackStep(z[s - 1], s)
    <3>1. CASE s < l
      <4>1. s - (l - 1) = 0
        BY <1>1, <3>1
      <4> QED BY <1>7, <3>1, <4>1
    <3>2. CASE ~(s < l)
      <4> DEFINE i == s - (l - 1)
      <4>1. i \in 1 .. n /\ l + (i - 1) = s /\ s - 1 \in l - 1 .. last /\ (s - 1) - (l - 1) = i - 1
        BY <1>1, <3>2
      <4>2. z[s] = f[i] /\ z[s - 1] = f[i - 1]
        BY <4>1
      <4> HIDE DEF i
      <4> QED BY <1>10, <3>2, <4>1, <4>2
    <3> QED BY <3>1, <3>2
  <2> QED BY <2>1 DEF PackStep
<1> HIDE DEF z
<1>12. moved = [s \in l - 1 .. last |->
              IF s < l THEN h
              ELSE LET g == moved[s - 1]
                   IN  IF s \in Live(g) THEN Relocate(g, s, Min(Slots(g) \ Live(g))) ELSE g]
  BY <1>11
<1> HIDE DEF moved
<1>13. \A s \in l - 1 .. last : moved[s] = IF s < l THEN h ELSE PackStep(moved[s - 1], s)
  BY <1>12 DEF PackStep
<1> DEFINE T == {i \in 0 .. n : moved[l - 1 + i] = f[i]}
<1>14. n \in T
  <2>1. 0 \in T
    <3>1. l - 1 + 0 \in l - 1 .. last /\ l - 1 + 0 < l /\ 0 \in 0 .. n
      BY <1>1
    <3> QED BY <1>7, <1>13, <3>1
  <2>2. ASSUME NEW i \in 1 .. n, i - 1 \in T PROVE i \in T
    <3>1. /\ l - 1 + i \in l - 1 .. last /\ ~(l - 1 + i < l) /\ (l - 1 + i) - 1 = l - 1 + (i - 1)
          /\ l + (i - 1) = l - 1 + i /\ i \in 0 .. n
      BY <1>1
    <3>2. moved[l - 1 + i] = PackStep(moved[l - 1 + (i - 1)], l - 1 + i)
      BY <1>13, <3>1
    <3>3. moved[l - 1 + (i - 1)] = f[i - 1]
      BY <2>2
    <3> QED BY <1>10, <3>1, <3>2, <3>3
  <2> HIDE DEF T
  <2>3. \A i \in 0 .. n : i \in T
    BY <1>1, <2>1, <2>2, UpTo
  <2> QED BY <1>1, <2>3
<1>15. l - 1 + n = last /\ l + n = last + 1 /\ n \in 0 .. n
  BY <1>1
<1>16. Packed(moved[last], h, B, last + 1)
  <2>1. moved[last] = f[n]
    BY <1>14, <1>15
  <2>2. Packed(f[n], h, B, l + n)
    BY <1>9, <1>15
  <2> QED BY <1>15, <2>1, <2>2
<1> QED BY <1>16 DEF moved, l

(* The slots past the limit go, and the free list is made anew. *)
Dropped(g, free) ==
  [g EXCEPT !.nchunk = Keep, !.freehead = First(free),
            !.slot = [s \in 0 .. Limit - 1 |->
                        IF s \in free THEN [@[s] EXCEPT !.hnext = After(free, s)] ELSE @[s]]]

SlotsDropped(g, e, free) ==
  /\ \A y \in 0 .. Limit - 1 :
       /\ e.slot[y].key = g.slot[y].key /\ e.slot[y].data = g.slot[y].data
       /\ e.slot[y].state = g.slot[y].state
       /\ e.slot[y].next = g.slot[y].next /\ e.slot[y].prev = g.slot[y].prev
       /\ e.slot[y].hnext = IF y \in free THEN After(free, y) ELSE g.slot[y].hnext
  /\ e.nchunk = Keep /\ e.freehead = First(free) /\ e.bucket = g.bucket
  /\ e.lru = g.lru /\ e.pin = g.pin /\ e.n = g.n

LEMMA DroppedFields ==
  ASSUME NEW m \in Nat, NEW nb \in Nat \ {0}, NEW g \in Sized(m, nb), m > Limit,
         NEW free, free \subseteq 0 .. Limit - 1
  PROVE  Dropped(g, free) \in Sized(Limit, nb) /\ SlotsDropped(g, Dropped(g, free), free)
<1> DEFINE l == Limit
           sl == [s \in 0 .. l - 1 |->
                    IF s \in free THEN [g.slot[s] EXCEPT !.hnext = After(free, s)] ELSE g.slot[s]]
           fh == First(free)
           e == Dropped(g, free)
<1>1. l \in Nat /\ Keep \in Nat /\ g.slot \in [0 .. m - 1 -> SlotType] /\ l < m
  BY LimitIs, SizedFacts
<1>2. e = [g EXCEPT !.nchunk = Keep, !.freehead = fh, !.slot = sl]
  BY DEF Dropped, Sized
<1>3. free \subseteq Nat
  <2>1. 0 .. l - 1 \subseteq Nat
    OBVIOUS
  <2> QED BY <2>1
<1>4. fh \in Int /\ \A y : After(free, y) \in Int
  BY <1>3, FirstType DEF After
<1> HIDE DEF l, fh
<1>5. ASSUME NEW y \in 0 .. l - 1
      PROVE  /\ sl[y] \in SlotType
             /\ sl[y].key = g.slot[y].key /\ sl[y].data = g.slot[y].data
             /\ sl[y].state = g.slot[y].state
             /\ sl[y].next = g.slot[y].next /\ sl[y].prev = g.slot[y].prev
             /\ sl[y].hnext = IF y \in free THEN After(free, y) ELSE g.slot[y].hnext
  <2> DEFINE r == g.slot[y]
             x == After(free, y)
  <2>1. y \in 0 .. m - 1
    BY <1>1
  <2>2. r \in SlotType /\ x \in Int
    BY <1>1, <1>4, <2>1
  <2>3. sl[y] = IF y \in free THEN [r EXCEPT !.hnext = x] ELSE r
    OBVIOUS
  <2> HIDE DEF r, x, sl
  <2>4. /\ [r EXCEPT !.hnext = x] \in SlotType
        /\ [r EXCEPT !.hnext = x].key = r.key /\ [r EXCEPT !.hnext = x].data = r.data
        /\ [r EXCEPT !.hnext = x].state = r.state
        /\ [r EXCEPT !.hnext = x].next = r.next /\ [r EXCEPT !.hnext = x].prev = r.prev
        /\ [r EXCEPT !.hnext = x].hnext = x
    BY <2>2 DEF SlotType
  <2> QED BY <2>2, <2>3, <2>4 DEF r, x
<1>6. sl \in [0 .. l - 1 -> SlotType]
  BY <1>5
<1> HIDE DEF sl, e
<1>7. /\ e \in Sized(l, nb) /\ e.slot = sl /\ e.nchunk = Keep /\ e.freehead = fh
      /\ e.bucket = g.bucket /\ e.lru = g.lru /\ e.pin = g.pin /\ e.n = g.n
  BY <1>1, <1>2, <1>4, <1>6 DEF Sized
<1>8. SlotsDropped(g, e, free)
  BY <1>5, <1>7 DEF SlotsDropped, l, fh
<1> QED BY <1>7, <1>8 DEF e, l

LEMMA DropGood ==
  ASSUME NEW h \in CacheType, NumSlots(h) > Limit, NEW B, NEW g, Packed(g, h, B, NumSlots(h))
  PROVE  LET e == Dropped(g, (0 .. Limit - 1) \ Live(g))
         IN  /\ Good(e) /\ BlocksOf(e) = B /\ e.n = h.n
             /\ e.nchunk = Keep /\ \A y \in Live(e) : y < Limit
<1> DEFINE m == NumSlots(h)
           nb == NumBuckets(h)
           l == Limit
           free == (0 .. l - 1) \ Live(g)
           e == Dropped(g, free)
<1>1. /\ m \in Nat /\ nb \in Nat \ {0} /\ g \in Sized(m, nb) /\ g.n = h.n
      /\ \A y \in Live(g) : y < l \/ y >= m
  BY IsSized DEF Packed
<1>2. PICK u, p, c : Whole(g, u, p, c) /\ B = [lru |-> Keys(g, u), pin |-> Keys(g, p)]
  BY DEF Packed
<1>3. l \in Nat \ {0} /\ Keep \in Nat /\ l = Keep * Chunk /\ l < m
  BY LimitIs
<1>4. Slots(g) = 0 .. m - 1
  BY <1>1, SizedFacts
<1>5. e \in Sized(l, nb) /\ SlotsDropped(g, e, free)
  BY <1>1, DroppedFields
<1> HIDE DEF e
<1>6. /\ \A y \in 0 .. l - 1 :
           /\ e.slot[y].key = g.slot[y].key /\ e.slot[y].data = g.slot[y].data
           /\ e.slot[y].state = g.slot[y].state
           /\ e.slot[y].next = g.slot[y].next /\ e.slot[y].prev = g.slot[y].prev
           /\ e.slot[y].hnext = IF y \in free THEN After(free, y) ELSE g.slot[y].hnext
      /\ e.nchunk = Keep /\ e.freehead = First(free) /\ e.bucket = g.bucket
      /\ e.lru = g.lru /\ e.pin = g.pin /\ e.n = g.n
  BY <1>5 DEF SlotsDropped
<1>7. e \in CacheType /\ Slots(e) = 0 .. l - 1 /\ NumSlots(e) = l
  BY <1>1, <1>3, <1>5, SizedFacts
<1>8. \A y \in Live(g) : y \in 0 .. l - 1 /\ y < l
  <2> TAKE y \in Live(g)
  <2>1. y \in 0 .. m - 1 /\ (y < l \/ y >= m)
    BY <1>1, <1>4 DEF Live
  <2> QED BY <1>1, <1>3, <2>1
<1> HIDE DEF m, l
<1>9. Live(e) = Live(g) /\ On(e, "free") = free
  <2>1. \A y \in 0 .. l - 1 : y \in Slots(g)
    BY <1>1, <1>3, <1>4
  <2>2. Live(e) = {y \in 0 .. l - 1 : g.slot[y].state # "free"}
    BY <1>6, <1>7 DEF Live
  <2>3. On(e, "free") = {y \in 0 .. l - 1 : g.slot[y].state = "free"}
    BY <1>6, <1>7 DEF On
  <2> QED BY <1>8, <2>1, <2>2, <2>3 DEF Live
<1>10. Staying(g, e)
  BY <1>6, <1>8, <1>9 DEF Staying
<1>11. Recency(g, u, p) /\ Hashed(g, c) /\ Filled(g)
  BY <1>2 DEF Whole
<1>12. Recency(e, u, p)
  BY <1>10, <1>11, StayingRecency
<1>13. Hashed(e, c)
  <2>1. \A y \in Live(g) : e.slot[y].hnext = g.slot[y].hnext
    BY <1>6, <1>8
  <2> QED BY <1>6, <1>10, <1>11, <2>1, StayingHashed
<1>14. Filled(e)
  <2>1. \A y \in Live(g) : y < e.nchunk * Chunk
    BY <1>3, <1>6, <1>8
  <2> QED BY <1>10, <1>11, <2>1, StayingFilled
<1>15. Chunked(e)
  BY <1>3, <1>6, <1>7 DEF Chunked
<1>16. free \subseteq 0 .. l - 1
  OBVIOUS
<1> HIDE DEF free
<1>17. PICK f : Freed(e, f, {})
  <2>1. \A s \in free : e.slot[s].hnext = After(free, s)
    BY <1>6, <1>16
  <2>2. PICK f : Ascends(f, free)
    BY <1>3, <1>16, AscendsExists
  <2>3. Leads(e, e.freehead, "hnext", f)
    BY <1>6, <2>1, <2>2, LeadsAscending
  <2>4. ListIn(f, Slots(e)) /\ Ran(f) = free
    BY <1>7, <1>16, <2>2, ListWider DEF Ascends
  <2>5. Freed(e, f, {})
    BY <1>9, <2>3, <2>4 DEF Freed
  <2> QED BY <2>5
<1>18. Whole(e, u, p, c)
  BY <1>12, <1>13, <1>14, <1>15 DEF Whole
<1>19. Good(e) /\ BlocksOf(e) = [lru |-> Keys(e, u), pin |-> Keys(e, p)]
  BY <1>7, <1>17, <1>18, MadeGood
<1>20. Keys(e, u) = Keys(g, u) /\ Keys(e, p) = Keys(g, p)
  <2>1. Ran(u) \cup Ran(p) \subseteq Live(g)
    BY <1>11, RecencyLists
  <2>2. \A y \in Live(g) : e.slot[y].key = g.slot[y].key
    BY <1>6, <1>8
  <2> QED BY <2>1, <2>2, KeysKept
<1>21. \A y \in Live(e) : y < l
  BY <1>8, <1>9
<1> QED BY <1>1, <1>2, <1>6, <1>19, <1>20, <1>21 DEF e, free, l

(* What hvCacheShrink leaves: the blocks, below the limit if they fit. *)
ShrunkTo(h, g) ==
  /\ Good(g) /\ BlocksOf(g) = BlocksOf(h)
  /\ h.n <= Limit => g.nchunk <= Keep /\ \A s \in Live(g) : s < Limit

LEMMA ShrunkGood ==
  ASSUME NEW h, Good(h)
  PROVE  ShrunkTo(h, Shrink(h))
<1>1. PICK u, p, c, f :
        /\ h \in CacheType /\ Whole(h, u, p, c) /\ Chunked(h)
        /\ BlocksOf(h) = [lru |-> Keys(h, u), pin |-> Keys(h, p)]
  BY GoodParts
<1> DEFINE m == NumSlots(h)
           last == m - 1
           moved[s \in Limit - 1 .. last] ==
             IF s < Limit THEN h
             ELSE LET g == moved[s - 1]
                  IN  IF s \in Live(g) THEN Relocate(g, s, Min(Slots(g) \ Live(g))) ELSE g
           packed == moved[last]
           e == Dropped(packed, (0 .. Limit - 1) \ Live(packed))
<1>2. m \in Nat /\ Slots(h) = 0 .. m - 1 /\ h.nchunk \in Nat /\ h.n \in Int
      /\ h \in Sized(m, NumBuckets(h))
  BY <1>1, SlotsAre, FieldsAre, IsSized
<1>3. Limit \in Nat \ {0} /\ Keep \in Nat \ {0} /\ Limit = Keep * Chunk
  BY LimitIs
<1>4. Shrink(h) = IF last < Limit \/ h.n > Limit THEN h ELSE e
  BY DEF Shrink, Dropped, NumSlots
<1>5. CASE last < Limit
  <2>1. h.nchunk <= Keep
    <3>1. CASE h.nchunk <= Keep
      BY <3>1
    <3>2. CASE ~(h.nchunk <= Keep)
      <4> DEFINE a == h.nchunk - 1
      <4>1. a \in Nat /\ Keep <= a
        BY <1>2, <1>3, <3>2
      <4>2. a * Chunk < m
        BY <1>1, <3>2 DEF Chunked
      <4> HIDE DEF a, m
      <4>3. Keep * Chunk <= a * Chunk /\ a * Chunk \in Nat
        BY <1>3, <4>1, TimesChunk
      <4>4. m <= Limit
        BY <1>2, <1>3, <1>5
      <4> QED BY <1>2, <1>3, <4>2, <4>3, <4>4
    <3> QED BY <3>1, <3>2
  <2>2. \A s \in Live(h) : s < Limit
    <3> TAKE s \in Live(h)
    <3>1. s \in 0 .. last
      BY <1>2 DEF Live
    <3> QED BY <1>2, <1>3, <1>5, <3>1
  <2>3. Shrink(h) = h
    BY <1>4, <1>5
  <2> QED BY <2>1, <2>2, <2>3 DEF ShrunkTo
<1>6. CASE h.n > Limit
  <2>1. Shrink(h) = h /\ ~(h.n <= Limit)
    BY <1>2, <1>3, <1>4, <1>6
  <2> QED BY <2>1 DEF ShrunkTo
<1>7. CASE ~(last < Limit) /\ ~(h.n > Limit)
  <2>1. last >= Limit /\ h.n <= Limit /\ m > Limit /\ last + 1 = m /\ last = m - 1
    BY <1>2, <1>3, <1>7
  <2>2. PICK B : B = BlocksOf(h)
    OBVIOUS
  <2>3. Packed(h, h, B, Limit)
    <3>1. \A y \in Live(h) : y < Limit \/ y >= Limit
      <4> TAKE y \in Live(h)
      <4>1. y \in 0 .. last
        BY <1>2 DEF Live
      <4> QED BY <1>2, <1>3, <4>1
    <3> QED BY <1>1, <1>2, <2>2, <3>1 DEF Packed
  <2> HIDE DEF moved, m
  <2>4. Packed(packed, h, B, last + 1)
    <3>1. PICK z : z = last
      OBVIOUS
    <3>2. z = NumSlots(h) - 1 /\ z >= Limit
      BY <2>1, <3>1 DEF m
    <3>3. LET mv[s \in Limit - 1 .. z] ==
               IF s < Limit THEN h
               ELSE LET g == mv[s - 1]
                    IN  IF s \in Live(g) THEN Relocate(g, s, Min(Slots(g) \ Live(g))) ELSE g
          IN  Packed(mv[z], h, B, z + 1)
      BY <1>1, <2>1, <2>3, <3>2, PackGood
    <3> QED BY <3>1, <3>3 DEF moved, m
  <2>5. Packed(packed, h, B, NumSlots(h)) /\ NumSlots(h) > Limit
    BY <2>1, <2>4 DEF m
  <2> HIDE DEF packed
  <2>6. /\ Good(e) /\ BlocksOf(e) = B
        /\ e.nchunk = Keep /\ \A y \in Live(e) : y < Limit
    BY <1>1, <2>5, DropGood
  <2>7. Shrink(h) = e
    BY <1>4, <1>7
  <2> HIDE DEF e
  <2>8. e.nchunk <= Keep
    BY <1>3, <2>6
  <2> QED BY <2>2, <2>6, <2>7, <2>8 DEF ShrunkTo
<1> QED BY <1>5, <1>6, <1>7

-----------------------------------------------------------------------------
(* hvCacheRelease. *)
LEMMA ReleasedGood ==
  ASSUME NEW h, Good(h)
  PROVE  LET g == ReleaseSlots(h)
         IN  /\ Good(g) /\ BlocksOf(g) = C!Released(BlocksOf(h))
             /\ g.nchunk <= Keep /\ \A s \in Live(g) : s < Limit
<1> DEFINE a == UnpinSlots(h)
           t == TrimSlots(a, 0, FALSE)
           g == Shrink(t)
<1>1. Good(a) /\ BlocksOf(a) = C!UnpinAll(BlocksOf(h)) /\ a.pin.n = 0
  BY UnpinnedGood
<1> HIDE DEF a
<1>2. Good(t) /\ BlocksOf(t) = C!Trim(BlocksOf(a), 0, FALSE) /\ t.n <= Cap
  <2>1. /\ Good(t)
        /\ BlocksOf(t) = C!Trim(BlocksOf(a), 0, FALSE)
        /\ a.pin.n = 0 /\ 0 = 0 /\ FALSE = FALSE => t.n <= Cap
    BY <1>1, TrimmedGood
  <2> QED BY <1>1, <2>1
<1> HIDE DEF t
<1>3. t.n <= Limit
  <2>1. t.n \in Int /\ Cap \in Nat /\ Limit \in Nat /\ Cap <= Limit
    BY <1>2, GoodParts, FieldsAre, LimitIs, SlotsAssumption
  <2> QED BY <1>2, <2>1
<1>4. ShrunkTo(t, g)
  BY <1>2, ShrunkGood
<1>5. BlocksOf(g) = C!Released(BlocksOf(h))
  BY <1>1, <1>2, <1>4 DEF ShrunkTo, C!Released
<1>6. ReleaseSlots(h) = g
  BY DEF ReleaseSlots, t, a
<1> QED BY <1>3, <1>4, <1>5, <1>6 DEF ShrunkTo

(* A struct without slots. *)
Emptied(h) ==
  /\ h.n = 0 /\ h.freehead = -1 /\ h.lru = EmptyList /\ h.pin = EmptyList
  /\ \A b \in DOMAIN h.bucket : h.bucket[b] = -1
  /\ h.nchunk <= Keep

LEMMA EmptyGood ==
  ASSUME NEW nb \in Nat \ {0}, NEW h \in Sized(0, nb), Emptied(h)
  PROVE  Good(h) /\ BlocksOf(h) = C!EmptyCache /\ Live(h) = {}
<1> DEFINE e == << >>
           c == [b \in DOMAIN h.bucket |-> e]
<1>1. h \in CacheType /\ Slots(h) = {} /\ NumSlots(h) = 0
  <2>1. h \in CacheType /\ Slots(h) = 0 .. 0 - 1 /\ NumSlots(h) = 0
    BY SizedFacts
  <2> QED BY <2>1
<1>2. Live(h) = {} /\ \A L : On(h, L) = {}
  BY <1>1 DEF Live, On
<1>3. e \in Seq({}) /\ Len(e) = 0
  OBVIOUS
<1>4. \A b \in DOMAIN h.bucket : c[b] = e
  OBVIOUS
<1> HIDE DEF e, c
<1>5. /\ ListIn(e, Slots(h)) /\ Ran(e) = {} /\ \A i : At(e, i) = -1
  BY <1>1, <1>3 DEF ListIn, Once, Ran, At
<1>6. \A first, field : first = -1 => Leads(h, first, field, e) /\ Back(h, first, e)
  BY <1>3, <1>5 DEF Leads, Back
<1>7. /\ h.n = 0 /\ h.freehead = -1 /\ h.lru = EmptyList /\ h.pin = EmptyList
      /\ \A b \in DOMAIN h.bucket : h.bucket[b] = -1
      /\ h.nchunk <= Keep
  BY DEF Emptied
<1>8. Recency(h, e, e)
  BY <1>2, <1>3, <1>5, <1>6, <1>7 DEF Recency, Links, EmptyList
<1>9. Hashed(h, c)
  BY <1>2, <1>4, <1>5, <1>6, <1>7 DEF Hashed
<1>10. Filled(h)
  BY <1>2 DEF Filled
<1>11. Chunked(h)
  <2>1. h.nchunk \in Nat
    BY <1>1, FieldsAre
  <2>2. h.nchunk * Chunk \in Nat
    BY <2>1, TimesChunk
  <2> QED BY <1>1, <1>7, <2>2 DEF Chunked
<1>12. Freed(h, e, {})
  BY <1>2, <1>5, <1>6, <1>7 DEF Freed
<1>13. Whole(h, e, e, c)
  BY <1>8, <1>9, <1>10, <1>11 DEF Whole
<1>14. Good(h) /\ BlocksOf(h) = [lru |-> Keys(h, e), pin |-> Keys(h, e)]
  BY <1>1, <1>12, <1>13, MadeGood
<1>15. Keys(h, e) = << >>
  BY <1>3 DEF Keys
<1> QED BY <1>2, <1>14, <1>15 DEF C!EmptyCache

(* hvCacheClear. *)
LEMMA ClearedGood ==
  ASSUME NEW h, Good(h)
  PROVE  LET g == ClearSlots(h)
         IN  Good(g) /\ BlocksOf(g) = C!EmptyCache /\ Live(g) = {} /\ g.nchunk <= Keep
<1> DEFINE m == NumSlots(h)
           nb == NumBuckets(h)
           nc == IF h.nchunk > Keep THEN Keep ELSE h.nchunk
           bk == Buckets(nb)
           ns == NoSlots
           el == EmptyList
           g == ClearSlots(h)
<1>1. /\ h \in CacheType /\ h.nchunk \in Nat /\ Keep \in Nat
      /\ m \in Nat /\ nb \in Nat \ {0} /\ h \in Sized(m, nb)
  <2>1. h \in CacheType
    BY DEF Good
  <2> QED BY <2>1, FieldsAre, IsSized, LimitIs
<1>2. g = [h EXCEPT !.slot = ns, !.n = 0, !.freehead = -1, !.lru = el, !.pin = el,
                    !.bucket = bk, !.nchunk = nc]
  BY <1>1 DEF ClearSlots, NumBuckets, Sized
<1>3. bk \in [0 .. nb - 1 -> Int] /\ \A b \in 0 .. nb - 1 : bk[b] = -1
  BY DEF Buckets
<1>4. ns \in [0 .. 0 - 1 -> SlotType]
  BY DEF NoSlots
<1>5. el \in ListType /\ nc \in Nat /\ nc <= Keep /\ -1 \in Int /\ 0 \in Int
  BY <1>1 DEF ListType, EmptyList
<1> HIDE DEF g, ns, nc, bk, m, nb, el
<1>6. /\ g \in Sized(0, nb) /\ g.n = 0 /\ g.freehead = -1 /\ g.lru = el /\ g.pin = el
      /\ g.bucket = bk /\ g.nchunk = nc
  BY <1>1, <1>2, <1>3, <1>4, <1>5 DEF Sized
<1>7. DOMAIN g.bucket = 0 .. nb - 1
  BY <1>1, <1>6, SizedFacts
<1>8. Emptied(g)
  BY <1>3, <1>5, <1>6, <1>7 DEF Emptied, el
<1> QED BY <1>1, <1>5, <1>6, <1>8, EmptyGood DEF g, nb

(* hvCacheInit. *)
LEMMA FreshGood ==
  Good(Fresh) /\ BlocksOf(Fresh) = C!EmptyCache
<1> DEFINE n == 2 * Cap0
           V == Nat \ {0}
           next(v) == IF v < n THEN 2 * v ELSE v
           F == [x \in (1 .. n) \X V |-> next(x[2])]
           double == CHOOSE f : f = [i \in 0 .. n |->
                       IF i = 0 THEN MinBuckets
                       ELSE IF f[i - 1] < n THEN 2 * f[i - 1] ELSE f[i - 1]]
           nb == double[n]
           bk == Buckets(nb)
<1>1. n \in Nat /\ MinBuckets \in V
  BY SlotsAssumption
<1> HIDE DEF n
<1>2. \A v \in V : next(v) \in V
  BY <1>1
<1> HIDE DEF V
<1>3. F \in [(1 .. n) \X V -> V] /\ \A i \in 1 .. n, v \in V : F[<< i, v >>] = next(v)
  BY <1>2
<1> HIDE DEF F
<1>4. PICK f \in [0 .. n -> V] : f[0] = MinBuckets /\ \A i \in 1 .. n : f[i] = F[<< i, f[i - 1] >>]
  <2>1. StepsIn(F, n, V)
    BY <1>3 DEF StepsIn
  <2>2. HasIterates(MinBuckets, n, F, V)
    BY <1>1, <2>1, Recursion
  <2> QED BY <2>2 DEF HasIterates, Iterates
<1>5. \A i \in 1 .. n : f[i] = next(f[i - 1])
  <2> TAKE i \in 1 .. n
  <2>1. i - 1 \in 0 .. n
    BY <1>1
  <2> QED BY <1>3, <1>4, <2>1
<1>6. f = [i \in 0 .. n |-> IF i = 0 THEN MinBuckets
                            ELSE IF f[i - 1] < n THEN 2 * f[i - 1] ELSE f[i - 1]]
  <2> DEFINE w(i) == IF i = 0 THEN MinBuckets
                     ELSE IF f[i - 1] < n THEN 2 * f[i - 1] ELSE f[i - 1]
  <2>1. \A i \in 0 .. n : f[i] = w(i)
    <3> TAKE i \in 0 .. n
    <3>1. CASE i = 0
      BY <1>4, <3>1
    <3>2. CASE i # 0
      <4>1. i \in 1 .. n
        BY <1>1, <3>2
      <4> QED BY <1>5, <3>2, <4>1
    <3> QED BY <3>1, <3>2
  <2>2. f = [i \in 0 .. n |-> f[i]]
    BY <1>4
  <2> HIDE DEF w
  <2>3. f = [i \in 0 .. n |-> w(i)]
    BY <2>1, <2>2
  <2> QED BY <2>3 DEF w
<1>7. double = [i \in 0 .. n |-> IF i = 0 THEN MinBuckets
                                 ELSE IF double[i - 1] < n THEN 2 * double[i - 1] ELSE double[i - 1]]
  BY <1>6
<1> HIDE DEF double
<1> DEFINE S == {i \in 0 .. n : double[i] \in V}
<1>8. \A i \in 0 .. n : i \in S
  <2>1. 0 \in S
    BY <1>1, <1>7
  <2>2. ASSUME NEW i \in 1 .. n, i - 1 \in S PROVE i \in S
    <3>1. double[i] = next(double[i - 1])
      BY <1>1, <1>7
    <3> HIDE DEF next
    <3> QED BY <1>1, <1>2, <2>2, <3>1
  <2> HIDE DEF S
  <2> QED BY <1>1, <2>1, <2>2, UpTo
<1>9. nb \in Nat \ {0}
  <2>1. n \in 0 .. n
    BY <1>1
  <2> QED BY <1>8, <2>1 DEF V
<1> HIDE DEF nb
<1>10. bk \in [0 .. nb - 1 -> Int] /\ \A b \in 0 .. nb - 1 : bk[b] = -1
  BY DEF Buckets
<1> HIDE DEF bk
<1>11. Fresh = [slot |-> NoSlots, aslot |-> 0, nchunk |-> 0, n |-> 0,
                lru |-> EmptyList, pin |-> EmptyList, freehead |-> -1, bucket |-> bk]
  BY DEF Fresh, bk, nb, double, n
<1> DEFINE ns == NoSlots
           el == EmptyList
           g == [slot |-> ns, aslot |-> 0, nchunk |-> 0, n |-> 0,
                 lru |-> el, pin |-> el, freehead |-> -1, bucket |-> bk]
<1>12. ns \in [0 .. 0 - 1 -> SlotType] /\ el \in ListType /\ Keep \in Nat
  BY LimitIs DEF NoSlots, ListType, EmptyList
<1> HIDE DEF ns, el
<1>13. g \in Sized(0, nb)
  BY <1>10, <1>12 DEF Sized
<1>14. Emptied(g)
  <2>1. DOMAIN g.bucket = 0 .. nb - 1
    BY <1>10
  <2> QED BY <1>10, <1>12, <2>1 DEF Emptied, el
<1>15. Good(g) /\ BlocksOf(g) = C!EmptyCache
  <2> HIDE DEF g
  <2> QED BY <1>9, <1>13, <1>14, EmptyGood
<1> QED BY <1>11, <1>15 DEF ns, el

-----------------------------------------------------------------------------
(***************************************************************************)
(* What hvOpen leaves: a cache with room for what it holds loses nothing.  *)
(***************************************************************************)
LEMMA TrimNone ==
  ASSUME NEW c, TwoLists(c), NEW extra \in {0, 1}, NEW pinning \in BOOLEAN, C!Size(c) + extra <= Cap
  PROVE  C!Trim(c, extra, pinning) = c
<1> DEFINE n == C!Size(c)
           l == Len(c.lru)
           floor == C!Floor(c, pinning)
<1>1. /\ Cap \in Nat \ {0} /\ Hard \in Nat /\ Cap <= Hard
      /\ n = Len(c.lru) + Len(c.pin) /\ n \in Nat /\ l \in Nat
  BY SlotsAssumption DEF TwoLists, C!Size
<1>2. floor \in Nat
  BY <1>1 DEF C!Floor
<1>3. C!Evict(c, 0) = c
  <2>1. 0 \in 0 .. n
    <3>1. n \in Nat
      BY <1>1
    <3> HIDE DEF n
    <3> QED BY <3>1
  <2>2. EvictsTo(c, n, 0, C!Evict(c, 0))
    BY <1>1, <2>1, EvictMore
  <2> QED BY <2>2 DEF EvictsTo
<1>4. /\ C!ToBudget(c, extra, pinning) = C!Evict(c, C!Smaller(C!Monus(n + extra, Cap), C!Monus(l, floor)))
      /\ C!ToHardLimit(c, extra) = C!Evict(c, C!Smaller(C!Monus(n + extra, Hard), n))
  BY DEF C!ToBudget, C!ToHardLimit
<1>5. n + extra <= Cap
  OBVIOUS
<1> HIDE DEF n, l, floor
<1>6. /\ C!Smaller(C!Monus(n + extra, Cap), C!Monus(l, floor)) = 0
      /\ C!Smaller(C!Monus(n + extra, Hard), n) = 0
  <2>1. n \in Nat /\ l \in Nat /\ Cap \in Nat /\ Hard \in Nat /\ Cap <= Hard
    BY <1>1
  <2>2. C!Monus(n + extra, Cap) = 0 /\ C!Monus(n + extra, Hard) = 0
    BY <1>5, <2>1 DEF C!Monus
  <2>3. C!Monus(l, floor) \in Nat
    BY <1>2, <2>1 DEF C!Monus
  <2>4. C!Smaller(0, C!Monus(l, floor)) = 0 /\ C!Smaller(0, n) = 0
    BY <2>1, <2>3 DEF C!Smaller
  <2> QED BY <2>2, <2>4
<1>7. C!ToBudget(c, extra, pinning) = c /\ C!ToHardLimit(c, extra) = c
  BY <1>3, <1>4, <1>6
<1> QED BY <1>7 DEF C!Trim

LEMMA ReleaseNone ==
  ASSUME NEW h, Good(h), BlocksOf(h).pin = << >>, h.n <= Cap
  PROVE  Good(ReleaseSlots(h)) /\ BlocksOf(ReleaseSlots(h)) = BlocksOf(h)
<1> DEFINE c == BlocksOf(h)
<1>1. TwoLists(c) /\ h.n = C!Size(c) /\ h.n \in Nat /\ c.pin = << >>
  BY CountsAre
<1> HIDE DEF c
<1>2. C!UnpinAll(c) = c
  <2>1. c.lru \in Seq(Blocks) /\ c = [lru |-> c.lru, pin |-> << >>]
    BY <1>1 DEF TwoLists
  <2>2. << >> \o c.lru = c.lru
    BY <2>1
  <2>3. C!UnpinAll(c) = [lru |-> << >> \o c.lru, pin |-> << >>]
    BY <1>1 DEF C!UnpinAll
  <2> QED BY <2>1, <2>2, <2>3
<1>3. C!Size(c) + 0 <= Cap
  BY <1>1
<1>4. C!Trim(c, 0, FALSE) = c
  BY <1>1, <1>3, TrimNone
<1>5. C!Released(c) = c
  BY <1>2, <1>4 DEF C!Released
<1>6. Good(ReleaseSlots(h)) /\ BlocksOf(ReleaseSlots(h)) = C!Released(c)
  BY ReleasedGood DEF c
<1> QED BY <1>5, <1>6 DEF c

LEMMA InitGood == SlotsInit => Good(hv) /\ C!CacheInit
<1> DEFINE e == C!EmptyCache
           g == PutSlot(Fresh, 0, FALSE, "none")
<1>1. Good(Fresh) /\ BlocksOf(Fresh) = e
  BY FreshGood
<1>2. /\ e.lru = << >> /\ e.pin = << >> /\ TwoLists(e) /\ C!Size(e) = 0 /\ ~C!Cached(e, 0)
  BY DEF C!EmptyCache, TwoLists, C!Size, C!Cached, C!ToSet, ToSet
<1>3. Cap \in Nat \ {0} /\ 0 \in Blocks
  BY SlotsAssumption DEF Blocks
<1>4. C!Put(e, 0, FALSE, FALSE) = [lru |-> << 0 >>, pin |-> << >>]
  <2>1. C!Size(e) + 1 <= Cap
    BY <1>2, <1>3
  <2>2. C!Trim(e, 1, FALSE) = e
    BY <1>2, <2>1, TrimNone
  <2>3. C!Put(e, 0, FALSE, FALSE) = C!Push(e, 0, FALSE)
    BY <1>2, <2>2 DEF C!Put
  <2>4. << 0 >> \o << >> = << 0 >>
    OBVIOUS
  <2>5. C!Push(e, 0, FALSE) = [lru |-> << 0 >> \o e.lru, pin |-> e.pin]
    BY DEF C!Push
  <2> QED BY <1>2, <2>3, <2>4, <2>5
<1>5. Good(g) /\ BlocksOf(g) = [lru |-> << 0 >>, pin |-> << >>]
  <2> HIDE DEF e
  <2>1. PICK oom \in BOOLEAN : /\ oom => "none" \in {"arrays", "chunk"}
                               /\ BlocksOf(g) = C!Put(e, 0, FALSE, oom)
    <3>1. \A fails : /\ Good(PutSlot(Fresh, 0, FALSE, fails))
                     /\ \E oom \in BOOLEAN :
                          /\ oom => fails \in {"arrays", "chunk"}
                          /\ BlocksOf(PutSlot(Fresh, 0, FALSE, fails))
                               = C!Put(BlocksOf(Fresh), 0, FALSE, oom)
      BY <1>1, <1>3, PutGood
    <3> QED BY <1>1, <3>1
  <2>2. oom = FALSE
    BY <2>1
  <2>3. Good(g)
    BY <1>1, <1>3, PutGood
  <2> QED BY <1>4, <2>1, <2>2, <2>3
<1> HIDE DEF e, g
<1>6. Good(ReleaseSlots(Fresh)) /\ BlocksOf(ReleaseSlots(Fresh)) = e
  <2>1. Fresh.n <= Cap
    <3>1. Fresh.n = C!Size(e)
      BY <1>1, CountsAre
    <3> QED BY <1>2, <1>3, <3>1
  <2> QED BY <1>1, <1>2, <2>1, ReleaseNone
<1>7. Good(ReleaseSlots(g)) /\ BlocksOf(ReleaseSlots(g)) = [lru |-> << 0 >>, pin |-> << >>]
  <2>1. BlocksOf(g).pin = << >> /\ C!Size(BlocksOf(g)) = 1
    BY <1>5 DEF C!Size
  <2>2. g.n <= Cap
    <3>1. g.n = C!Size(BlocksOf(g))
      BY <1>5, CountsAre
    <3> QED BY <1>3, <2>1, <3>1
  <2> QED BY <1>5, <2>1, <2>2, ReleaseNone
<1> QED BY <1>6, <1>7 DEF SlotsInit, C!CacheInit, e, g

-----------------------------------------------------------------------------
(***************************************************************************)
(* The inductive invariant, and what each action does: it keeps it, and is *)
(* a step of HvCache.                                                      *)
(***************************************************************************)
SlotsInv == Good(hv) /\ blocks = BlocksOf(hv)

LEMMA StepGood ==
  ASSUME SlotsInv, SlotsNext
  PROVE  Good(hv') /\ blocks' = BlocksOf(hv') /\ C!CacheNext
<1>1. Good(hv) /\ blocks = BlocksOf(hv) /\ blocks' = BlocksOf(hv')
  BY DEF SlotsInv, SlotsNext
<1>2. SUFFICES Good(hv') /\ C!CacheNext
  BY <1>1
<1>3. ASSUME NEW k \in Blocks, SlotsGet(k)
      PROVE  Good(hv') /\ C!CacheGet(k)
  <2> DEFINE s == SlotOf(hv, k)
  <2>1. s >= 0 /\ hv' = MoveToFront(hv, s, "lru")
    BY <1>3 DEF SlotsGet
  <2>2. s \in Live(hv) /\ hv.slot[s].key = k /\ C!Cached(BlocksOf(hv), k)
    BY <1>1, <2>1, Lookup
  <2> HIDE DEF s
  <2>3. /\ Good(hv')
        /\ BlocksOf(hv') = [lru |-> << k >> \o C!Without(BlocksOf(hv).lru, k),
                            pin |-> C!Without(BlocksOf(hv).pin, k)]
    BY <1>1, <2>1, <2>2, MovedGood
  <2> QED BY <1>1, <2>2, <2>3 DEF C!CacheGet, C!Touch
<1>4. ASSUME NEW k \in Blocks, SlotsPin(k)
      PROVE  Good(hv') /\ C!CachePin(k)
  <2> DEFINE s == SlotOf(hv, k)
  <2>1. s >= 0 /\ hv' = MoveToFront(hv, s, "pin")
    BY <1>4 DEF SlotsPin
  <2>2. s \in Live(hv) /\ hv.slot[s].key = k /\ C!Cached(BlocksOf(hv), k)
    BY <1>1, <2>1, Lookup
  <2> HIDE DEF s
  <2>3. /\ Good(hv')
        /\ BlocksOf(hv') = [lru |-> C!Without(BlocksOf(hv).lru, k),
                            pin |-> << k >> \o C!Without(BlocksOf(hv).pin, k)]
    BY <1>1, <2>1, <2>2, MovedGood
  <2> QED BY <1>1, <2>2, <2>3 DEF C!CachePin, C!Pin
<1>5. ASSUME NEW k \in Blocks, SlotsPut(k)
      PROVE  Good(hv') /\ C!CachePut(k)
  <2>1. PICK pinned \in BOOLEAN, fails \in Failures \cup {"none"} :
          hv' = PutSlot(hv, k, pinned, fails)
    BY <1>5 DEF SlotsPut
  <2>2. /\ Good(hv')
        /\ \E oom \in BOOLEAN : /\ oom => fails \in {"arrays", "chunk"}
                                /\ BlocksOf(hv') = C!Put(BlocksOf(hv), k, pinned, oom)
    BY <1>1, <2>1, PutGood
  <2>3. PICK oom \in BOOLEAN : /\ oom => fails \in {"arrays", "chunk"}
                               /\ BlocksOf(hv') = C!Put(BlocksOf(hv), k, pinned, oom)
    BY <2>2
  <2>4. oom \in {f \in BOOLEAN : f => Failures # {}}
    BY <2>1, <2>3
  <2> QED BY <1>1, <2>2, <2>3, <2>4 DEF C!CachePut
<1>6. ASSUME SlotsTrim PROVE Good(hv') /\ C!CacheTrim
  <2>1. hv' = TrimSlots(hv, 0, FALSE)
    BY <1>6 DEF SlotsTrim
  <2>2. Good(hv') /\ BlocksOf(hv') = C!Trim(BlocksOf(hv), 0, FALSE)
    BY <1>1, <2>1, TrimmedGood
  <2> QED BY <1>1, <2>2 DEF C!CacheTrim
<1>7. ASSUME SlotsUnpinAll PROVE Good(hv') /\ C!CacheUnpinAll
  <2>1. hv' = UnpinSlots(hv)
    BY <1>7 DEF SlotsUnpinAll
  <2>2. Good(hv') /\ BlocksOf(hv') = C!UnpinAll(BlocksOf(hv))
    BY <1>1, <2>1, UnpinnedGood
  <2> QED BY <1>1, <2>2 DEF C!CacheUnpinAll
<1>8. ASSUME SlotsRelease PROVE Good(hv') /\ C!CacheRelease
  <2>1. hv' = ReleaseSlots(hv)
    BY <1>8 DEF SlotsRelease
  <2>2. Good(hv') /\ BlocksOf(hv') = C!Released(BlocksOf(hv))
    BY <1>1, <2>1, ReleasedGood
  <2> QED BY <1>1, <2>2 DEF C!CacheRelease
<1>9. ASSUME SlotsClear PROVE Good(hv') /\ C!CacheClear
  <2>1. hv' = ClearSlots(hv)
    BY <1>9 DEF SlotsClear
  <2>2. Good(hv') /\ BlocksOf(hv') = C!EmptyCache
    BY <1>1, <2>1, ClearedGood
  <2> QED BY <1>1, <2>2 DEF C!CacheClear
<1>10. C!Blocks = Blocks
  BY DEF C!Blocks, Blocks
<1> QED BY <1>3, <1>4, <1>5, <1>6, <1>7, <1>8, <1>9, <1>10 DEF SlotsNext, C!CacheNext

LEMMA InvariantHolds == SlotsSpec => []SlotsInv
<1>1. SlotsInit => SlotsInv
  BY InitGood DEF SlotsInv, SlotsInit
<1>2. SlotsInv /\ [SlotsNext]_vars => SlotsInv'
  <2> SUFFICES ASSUME SlotsInv, [SlotsNext]_vars PROVE SlotsInv'
    OBVIOUS
  <2>1. CASE SlotsNext
    BY <2>1, StepGood DEF SlotsInv
  <2>2. CASE UNCHANGED vars
    BY <2>2 DEF SlotsInv, vars
  <2> QED BY <2>1, <2>2
<1> QED BY <1>1, <1>2, PTL DEF SlotsSpec

(***************************************************************************)
(* ListsWhole, for any file, budget, chunk size and hash function and      *)
(* whichever allocations fail: after every operation of the block cache    *)
(* the LRU, pinned and free lists share out the slots, forwards and        *)
(* backwards, and the counters count them.                                 *)
(***************************************************************************)
THEOREM SlotsListsWhole == SlotsSpec => []ListsWhole
<1>1. SlotsInv => ListsWhole
  BY GoodIsRight DEF SlotsInv
<1> QED BY <1>1, InvariantHolds, PTL

(***************************************************************************)
(* ChainsExact: hvCacheGet finds a block exactly when a slot holds it,     *)
(* whatever evictions, relocations and rehashes did to the shared link.    *)
(***************************************************************************)
THEOREM SlotsChainsExact == SlotsSpec => []ChainsExact
<1>1. SlotsInv => ChainsExact
  BY GoodIsRight DEF SlotsInv
<1> QED BY <1>1, InvariantHolds, PTL

(***************************************************************************)
(* BytesOfBlock: a slot in use has memory, with the bytes of its block.    *)
(***************************************************************************)
THEOREM SlotsBytesOfBlock == SlotsSpec => []BytesOfBlock
<1>1. SlotsInv => BytesOfBlock
  BY GoodIsRight DEF SlotsInv
<1> QED BY <1>1, InvariantHolds, PTL

(***************************************************************************)
(* MemoryGivenBack: hvCacheRelease and hvCacheClear leave no chunk above   *)
(* the budget, and no block above it either.                               *)
(***************************************************************************)
THEOREM SlotsMemoryGivenBack == SlotsSpec => []MemoryGivenBack
<1>1. SlotsInv => MemoryGivenBack
  BY ReleasedGood, ClearedGood DEF SlotsInv, MemoryGivenBack
<1> QED BY <1>1, InvariantHolds, PTL

(***************************************************************************)
(* The slots, hash chains, free list and chunks implement HvCache: seen    *)
(* through BlocksOf, hvOpen leaves one of its initial states and each      *)
(* operation, the failed allocations included, is its operation of that    *)
(* name.  So the rest of the VFS may be reasoned about over two lists.     *)
(***************************************************************************)
THEOREM SlotsImplementCache == SlotsSpec => ImplementsCache
<1>1. SlotsInit => C!CacheInit
  BY InitGood
<1>2. SlotsInv /\ [SlotsNext]_vars => [C!CacheNext]_blocks
  BY StepGood DEF vars
<1> QED BY <1>1, <1>2, InvariantHolds, PTL DEF SlotsSpec, ImplementsCache, C!CacheSpec
=============================================================================
