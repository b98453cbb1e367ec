---------------------------- MODULE SpecLoopProofs ----------------------------
(***************************************************************************)
(* Theorems about HvCache, HvFile and SpecLoop.  What the operations of    *)
(* the block cache do to a cache that is in order: every one keeps it in   *)
(* order and below the hard limit.  The file only touches its cache        *)
(* through those operations, its state is well formed, and a batch that is *)
(* being fetched fits beside the pins and arrives; a read leaves the cache *)
(* within its budget or held above it by pins, the floor of unpinned       *)
(* blocks is kept while there are pins, and a pinned block stays until it  *)
(* is read.                                                                *)
(*                                                                         *)
(* The loop uses the file only as FileSpec allows.  When every block that  *)
(* its lookups may bring fits in the budget, nothing is evicted on the     *)
(* way; then the lookups hit the cache once the loop ends, and it needs no *)
(* more passes than the longest path has blocks.                           *)
(***************************************************************************)
EXTENDS SpecLoop, SequenceTheorems, InductionLemmas

-----------------------------------------------------------------------------
(* Lists without duplicates. *)

LEMMA WithoutProperties ==
  ASSUME NEW S, NEW s \in Seq(S), NoDup(s), NEW k
  PROVE  /\ Without(s, k) \in Seq(S)
         /\ NoDup(Without(s, k))
         /\ ToSet(Without(s, k)) = ToSet(s) \ {k}
         /\ Len(Without(s, k)) = IF k \in ToSet(s) THEN Len(s) - 1 ELSE Len(s)
<1>0. /\ Len(s) \in Nat
      /\ DOMAIN s = 1 .. Len(s)
      /\ \A i \in 1 .. Len(s) : s[i] \in S
  BY LenProperties, ElementOfSeq
<1>1. CASE k \notin ToSet(s)
  BY <1>0, <1>1 DEF Without
<1>2. CASE k \in ToSet(s)
  <2> DEFINE i == CHOOSE j \in DOMAIN s : s[j] = k
             a == SubSeq(s, 1, i - 1)
             b == SubSeq(s, i + 1, Len(s))
             w == a \o b
  <2>1. i \in 1 .. Len(s) /\ s[i] = k
    BY <1>0, <1>2 DEF ToSet
  <2>2. Without(s, k) = w
    BY <1>2 DEF Without, RemoveAt
  <2> HIDE DEF i
  <2>3. /\ a \in Seq(S) /\ Len(a) = i - 1
        /\ \A j \in 1 .. i - 1 : a[j] = s[j]
    <3>1. \A j \in 1 .. i - 1 : s[j] \in S
      BY <1>0, <2>1
    <3> QED BY <3>1, <2>1, <1>0, SubSeqProperties
  <2>4. /\ b \in Seq(S) /\ Len(b) = Len(s) - i
        /\ \A j \in 1 .. Len(s) - i : b[j] = s[i + j]
    <3>1. \A j \in i + 1 .. Len(s) : s[j] \in S
      BY <1>0, <2>1
    <3>2. /\ b \in Seq(S)
          /\ Len(b) = IF i + 1 <= Len(s) THEN Len(s) - (i + 1) + 1 ELSE 0
          /\ \A j \in 1 .. Len(s) - (i + 1) + 1 : b[j] = s[i + 1 + j - 1]
      BY <3>1, <2>1, <1>0, SubSeqProperties
    <3> HIDE DEF a, b, w
    <3>3. Len(b) = Len(s) - i
      <4> DEFINE n == Len(s)
                 l == Len(b)
      <4>1. n \in Nat /\ i \in 1 .. n
        BY <2>1, <1>0
      <4>2. l = IF i + 1 <= n THEN n - (i + 1) + 1 ELSE 0
        BY <3>2
      <4> HIDE DEF n, l
      <4>3. l = n - i
        BY <4>1, <4>2
      <4> QED BY <4>3 DEF n, l
    <3>4. ASSUME NEW j \in 1 .. Len(s) - i
          PROVE  b[j] = s[i + j]
      <4>1. j \in 1 .. Len(s) - (i + 1) + 1 /\ i + 1 + j - 1 = i + j
        BY <2>1, <1>0
      <4> QED BY <4>1, <3>2
    <3> QED BY <3>2, <3>3, <3>4
  <2> HIDE DEF a, b
  <2>5. /\ w \in Seq(S) /\ Len(w) = Len(s) - 1
        /\ DOMAIN w = 1 .. Len(s) - 1
        /\ \A j \in 1 .. Len(s) - 1 : w[j] = IF j < i THEN s[j] ELSE s[j + 1]
    <3>1. /\ w \in Seq(S) /\ Len(w) = Len(a) + Len(b)
          /\ \A j \in 1 .. Len(a) + Len(b) :
               w[j] = IF j <= Len(a) THEN a[j] ELSE b[j - Len(a)]
      BY <2>3, <2>4, ConcatProperties
    <3>2. Len(a) + Len(b) = Len(s) - 1
      BY <2>1, <2>3, <2>4, <1>0
    <3>3. DOMAIN w = 1 .. Len(s) - 1
      BY <3>1, <3>2, LenProperties
    <3>4. ASSUME NEW j \in 1 .. Len(s) - 1
          PROVE  w[j] = IF j < i THEN s[j] ELSE s[j + 1]
      <4>1. CASE j < i
        BY <4>1, <3>1, <3>2, <2>1, <2>3, <1>0
      <4>2. CASE ~(j < i)
        <5>1. w[j] = b[j - (i - 1)]
          BY <4>2, <3>1, <3>2, <2>1, <2>3, <1>0
        <5>2. j - (i - 1) \in 1 .. Len(s) - i /\ i + (j - (i - 1)) = j + 1
          BY <4>2, <2>1, <1>0
        <5> QED BY <5>1, <5>2, <2>4, <4>2
      <4> QED BY <4>1, <4>2
    <3> QED BY <3>1, <3>2, <3>3, <3>4
  <2> HIDE DEF w
  <2>6. NoDup(w)
    BY <2>5, <2>1, <1>0 DEF NoDup
  <2>7. ToSet(w) = ToSet(s) \ {k}
    <3>1. ASSUME NEW j \in 1 .. Len(s) - 1
          PROVE  w[j] \in ToSet(s) \ {k}
      BY <2>5, <2>1, <1>0 DEF ToSet, NoDup
    <3>2. ASSUME NEW j \in 1 .. Len(s), s[j] # k
          PROVE  s[j] \in ToSet(w)
      <4>1. CASE j < i
        BY <4>1, <2>5, <2>1, <1>0 DEF ToSet
      <4>2. CASE j > i
        <5>1. j - 1 \in 1 .. Len(s) - 1 /\ w[j - 1] = s[j]
          BY <4>2, <2>5, <2>1, <1>0
        <5> QED BY <5>1, <2>5 DEF ToSet
      <4> QED BY <4>1, <4>2, <3>2, <2>1, <1>0
    <3> QED BY <3>1, <3>2, <2>5, <1>0 DEF ToSet
  <2> QED BY <1>2, <2>2, <2>5, <2>6, <2>7
<1> QED BY <1>1, <1>2

LEMMA PrependProperties ==
  ASSUME NEW S, NEW s \in Seq(S), NoDup(s), NEW k \in S, k \notin ToSet(s)
  PROVE  /\ << k >> \o s \in Seq(S)
         /\ NoDup(<< k >> \o s)
         /\ ToSet(<< k >> \o s) = ToSet(s) \cup {k}
         /\ Len(<< k >> \o s) = Len(s) + 1
<1> DEFINE w == << k >> \o s
<1>1. /\ Len(s) \in Nat /\ DOMAIN s = 1 .. Len(s)
      /\ << k >> \in Seq(S) /\ Len(<< k >>) = 1 /\ << k >>[1] = k
  BY LenProperties
<1>2. /\ w \in Seq(S) /\ Len(w) = 1 + Len(s)
      /\ \A i \in 1 .. 1 + Len(s) :
           w[i] = IF i <= 1 THEN << k >>[i] ELSE s[i - 1]
  BY <1>1, ConcatProperties
<1>3. DOMAIN w = 1 .. Len(s) + 1
  BY <1>2, <1>1, LenProperties
<1>4. w[1] = k /\ \A i \in 1 .. Len(s) : w[i + 1] = s[i]
  <2>1. w[1] = k
    BY <1>1, <1>2
  <2>2. ASSUME NEW i \in 1 .. Len(s)
        PROVE  w[i + 1] = s[i]
    <3>1. i + 1 \in 1 .. 1 + Len(s) /\ ~(i + 1 <= 1) /\ (i + 1) - 1 = i
      BY <1>1
    <3> QED BY <3>1, <1>2
  <2> QED BY <2>1, <2>2
<1> HIDE DEF w
<1>5. \A i \in 1 .. Len(s) + 1 : i = 1 \/ (i - 1 \in 1 .. Len(s) /\ w[i] = s[i - 1])
  <2> TAKE i \in 1 .. Len(s) + 1
  <2>1. i = 1 \/ (i - 1 \in 1 .. Len(s) /\ (i - 1) + 1 = i)
    BY <1>1
  <2> QED BY <2>1, <1>4
<1>6. ToSet(w) = ToSet(s) \cup {k}
  <2>1. ToSet(w) \subseteq ToSet(s) \cup {k}
    BY <1>1, <1>3, <1>4, <1>5 DEF ToSet
  <2>2. \A i \in 1 .. Len(s) : s[i] \in ToSet(w)
    <3> TAKE i \in 1 .. Len(s)
    <3>1. i + 1 \in 1 .. Len(s) + 1
      BY <1>1
    <3> QED BY <3>1, <1>3, <1>4 DEF ToSet
  <2>3. k \in ToSet(w)
    BY <1>1, <1>3, <1>4 DEF ToSet
  <2> QED BY <1>1, <2>1, <2>2, <2>3 DEF ToSet
<1>7. NoDup(w)
  <2> SUFFICES ASSUME NEW i \in 1 .. Len(s) + 1, NEW j \in 1 .. Len(s) + 1,
                      w[i] = w[j]
               PROVE  i = j
    BY <1>3 DEF NoDup
  <2>1. \A n \in 1 .. Len(s) : s[n] # k
    BY <1>1 DEF ToSet
  <2>2. CASE i = 1
    BY <2>1, <2>2, <1>4, <1>5
  <2>3. CASE j = 1
    BY <2>1, <2>3, <1>4, <1>5
  <2>4. CASE i # 1 /\ j # 1
    <3>1. /\ i - 1 \in 1 .. Len(s) /\ j - 1 \in 1 .. Len(s)
          /\ s[i - 1] = s[j - 1]
      BY <2>4, <1>5
    <3>2. i - 1 = j - 1
      BY <3>1, <1>1 DEF NoDup
    <3> QED BY <3>2
  <2> QED BY <2>2, <2>3, <2>4
<1> QED BY <1>1, <1>2, <1>6, <1>7 DEF w

LEMMA DropProperties ==
  ASSUME NEW S, NEW s \in Seq(S), NoDup(s), NEW m \in 0 .. Len(s)
  PROVE  /\ DropOldest(s, m) \in Seq(S)
         /\ NoDup(DropOldest(s, m))
         /\ ToSet(DropOldest(s, m)) \subseteq ToSet(s)
         /\ Len(DropOldest(s, m)) = Len(s) - m
         /\ m = 0 => DropOldest(s, m) = s
<1> DEFINE n == Len(s) - m
           w == SubSeq(s, 1, n)
<1>1. /\ Len(s) \in Nat /\ DOMAIN s = 1 .. Len(s)
      /\ \A i \in 1 .. Len(s) : s[i] \in S
  BY LenProperties, ElementOfSeq
<1>2. n \in 0 .. Len(s)
  BY <1>1
<1> HIDE DEF n
<1>3. /\ w \in Seq(S)
      /\ Len(w) = n
      /\ \A i \in 1 .. n : w[i] = s[i]
  <2>1. \A i \in 1 .. n : s[i] \in S
    BY <1>1, <1>2
  <2>2. /\ w \in Seq(S)
        /\ Len(w) = IF 1 <= n THEN n - 1 + 1 ELSE 0
        /\ \A i \in 1 .. n - 1 + 1 : w[i] = s[1 + i - 1]
    BY <2>1, <1>1, <1>2, SubSeqProperties
  <2> HIDE DEF w
  <2>3. Len(w) = n
    BY <2>2, <1>1, <1>2
  <2>4. ASSUME NEW i \in 1 .. n
        PROVE  w[i] = s[i]
    <3>1. i \in 1 .. n - 1 + 1 /\ 1 + i - 1 = i
      BY <1>1, <1>2
    <3> QED BY <3>1, <2>2
  <2> QED BY <2>2, <2>3, <2>4
<1>4. DOMAIN w = 1 .. n
  BY <1>3, LenProperties
<1>5. NoDup(w) /\ ToSet(w) \subseteq ToSet(s)
  <2> HIDE DEF w
  <2>1. 1 .. n \subseteq 1 .. Len(s)
    BY <1>1, <1>2
  <2> QED BY <2>1, <1>1, <1>3, <1>4 DEF NoDup, ToSet
<1>6. m = 0 => w = s
  BY <1>1, SubSeqFull DEF n
<1> QED BY <1>3, <1>5, <1>6 DEF DropOldest, n

LEMMA ConcatNoDup ==
  ASSUME NEW S, NEW s \in Seq(S), NEW t \in Seq(S), NoDup(s), NoDup(t),
         ToSet(s) \cap ToSet(t) = {}
  PROVE  /\ s \o t \in Seq(S)
         /\ NoDup(s \o t)
         /\ ToSet(s \o t) = ToSet(s) \cup ToSet(t)
         /\ Len(s \o t) = Len(s) + Len(t)
<1> DEFINE w == s \o t
           m == Len(s)
           n == Len(t)
<1>1. /\ m \in Nat /\ n \in Nat
      /\ DOMAIN s = 1 .. m /\ DOMAIN t = 1 .. n
  BY LenProperties
<1>2. /\ w \in Seq(S) /\ Len(w) = m + n
      /\ \A i \in 1 .. m + n : w[i] = IF i <= m THEN s[i] ELSE t[i - m]
  BY ConcatProperties
<1>3. DOMAIN w = 1 .. m + n
  BY <1>2, LenProperties
<1> HIDE DEF w, m, n
<1>4. \A i \in 1 .. m + n :
        \/ i \in 1 .. m /\ w[i] = s[i]
        \/ ~(i <= m) /\ i - m \in 1 .. n /\ w[i] = t[i - m]
  BY <1>1, <1>2
<1>5. \A i \in 1 .. n : i + m \in 1 .. m + n /\ w[i + m] = t[i]
  <2> TAKE i \in 1 .. n
  <2>1. i + m \in 1 .. m + n /\ ~(i + m <= m) /\ (i + m) - m = i
    BY <1>1
  <2> QED BY <2>1, <1>2
<1>6. \A i \in 1 .. m : i \in 1 .. m + n /\ w[i] = s[i]
  BY <1>1, <1>2
<1>7. ToSet(w) = ToSet(s) \cup ToSet(t)
  <2>1. ToSet(w) \subseteq ToSet(s) \cup ToSet(t)
    BY <1>1, <1>3, <1>4 DEF ToSet
  <2>2. ToSet(s) \subseteq ToSet(w)
    BY <1>1, <1>3, <1>6 DEF ToSet
  <2>3. ToSet(t) \subseteq ToSet(w)
    BY <1>1, <1>3, <1>5 DEF ToSet
  <2> QED BY <2>1, <2>2, <2>3
<1>8. NoDup(w)
  <2> SUFFICES ASSUME NEW i \in 1 .. m + n, NEW j \in 1 .. m + n, w[i] = w[j]
               PROVE  i = j
    BY <1>3 DEF NoDup
  <2>1. \A x \in 1 .. m, y \in 1 .. n : s[x] # t[y]
    BY <1>1 DEF ToSet
  <2>2. CASE i \in 1 .. m /\ j \in 1 .. m
    BY <2>2, <1>1, <1>6 DEF NoDup
  <2>3. CASE i \in 1 .. m /\ j \notin 1 .. m
    BY <2>3, <2>1, <1>4, <1>6
  <2>4. CASE i \notin 1 .. m /\ j \in 1 .. m
    BY <2>4, <2>1, <1>4, <1>6
  <2>5. CASE i \notin 1 .. m /\ j \notin 1 .. m
    <3>1. i - m \in 1 .. n /\ j - m \in 1 .. n /\ t[i - m] = t[j - m]
      BY <2>5, <1>4
    <3>2. i - m = j - m
      BY <3>1, <1>1 DEF NoDup
    <3> QED BY <3>2, <1>1
  <2> QED BY <2>2, <2>3, <2>4, <2>5
<1> QED BY <1>2, <1>7, <1>8 DEF w, m, n

-----------------------------------------------------------------------------
(* Caches in order. *)

Members(c) == ToSet(c.lru) \cup ToSet(c.pin)

LEMMA SizeType ==
  ASSUME NEW c, InOrder(c)
  PROVE  /\ Len(c.lru) \in Nat /\ Len(c.pin) \in Nat /\ Size(c) \in Nat
         /\ Size(c) = Len(c.lru) + Len(c.pin)
         /\ c.lru \in Seq(Blocks) /\ c.pin \in Seq(Blocks)
         /\ ToSet(c.lru) \subseteq Blocks /\ ToSet(c.pin) \subseteq Blocks
         /\ c = [lru |-> c.lru, pin |-> c.pin]
<1>1. c.lru \in Seq(Blocks) /\ c.pin \in Seq(Blocks)
  BY DEF InOrder
<1>2. Len(c.lru) \in Nat /\ Len(c.pin) \in Nat
  BY <1>1, LenProperties
<1>3. ToSet(c.lru) \subseteq Blocks /\ ToSet(c.pin) \subseteq Blocks
  BY <1>1, LenProperties, ElementOfSeq DEF ToSet
<1> QED BY <1>1, <1>2, <1>3 DEF InOrder, Size

LEMMA EmptyList ==
  /\ << >> \in Seq(Blocks) /\ NoDup(<< >>) /\ ToSet(<< >>) = {} /\ Len(<< >>) = 0
  BY DEF NoDup, ToSet

LEMMA EmptyIsInOrder == InOrder(EmptyCache) /\ Size(EmptyCache) = 0
  BY EmptyList DEF InOrder, EmptyCache, Size

LEMMA TouchProperties ==
  ASSUME NEW c, InOrder(c), NEW k \in Blocks
  PROVE  /\ InOrder(Touch(c, k))
         /\ Size(Touch(c, k)) = Size(c)
         /\ Members(Touch(c, k)) = Members(c)
         /\ ToSet(Touch(c, k).pin) = ToSet(c.pin) \ {k}
<1> DEFINE l == Without(c.lru, k)
           p == Without(c.pin, k)
           h == << k >> \o l
<1>1. CASE ~Cached(c, k)
  BY <1>1 DEF Touch, Cached
<1>2. CASE Cached(c, k)
  <2>1. /\ l \in Seq(Blocks) /\ NoDup(l) /\ ToSet(l) = ToSet(c.lru) \ {k}
        /\ Len(l) = IF k \in ToSet(c.lru) THEN Len(c.lru) - 1 ELSE Len(c.lru)
    BY WithoutProperties DEF InOrder
  <2>2. /\ p \in Seq(Blocks) /\ NoDup(p) /\ ToSet(p) = ToSet(c.pin) \ {k}
        /\ Len(p) = IF k \in ToSet(c.pin) THEN Len(c.pin) - 1 ELSE Len(c.pin)
    BY WithoutProperties DEF InOrder
  <2>3. Touch(c, k) = [lru |-> h, pin |-> p]
    BY <1>2 DEF Touch
  <2> HIDE DEF l, p
  <2>4. /\ h \in Seq(Blocks) /\ NoDup(h)
        /\ ToSet(h) = ToSet(l) \cup {k}
        /\ Len(h) = Len(l) + 1
    BY <2>1, PrependProperties
  <2> HIDE DEF h
  <2>5. InOrder(Touch(c, k))
    BY <2>1, <2>2, <2>3, <2>4 DEF InOrder
  <2>6. Size(Touch(c, k)) = Size(c)
    <3> DEFINE nl == Len(c.lru)
               np == Len(c.pin)
               ml == Len(l)
               mp == Len(p)
               mh == Len(h)
    <3>1. nl \in Nat /\ np \in Nat /\ Size(c) = nl + np
      BY SizeType
    <3>2. k \in ToSet(c.lru) <=> k \notin ToSet(c.pin)
      BY <1>2 DEF Cached, InOrder
    <3>3. Size(Touch(c, k)) = mh + mp
      BY <2>3 DEF Size
    <3>4. \/ ml = nl - 1 /\ mp = np
          \/ ml = nl /\ mp = np - 1
      BY <2>1, <2>2, <3>2
    <3>5. mh = ml + 1
      BY <2>4
    <3> HIDE DEF nl, np, ml, mp, mh
    <3> QED BY <3>1, <3>3, <3>4, <3>5
  <2>7. Members(Touch(c, k)) = Members(c)
    BY <1>2, <2>1, <2>2, <2>3, <2>4 DEF Members, Cached
  <2> QED BY <2>2, <2>3, <2>5, <2>6, <2>7
<1> QED BY <1>1, <1>2

LEMMA PinProperties ==
  ASSUME NEW c, InOrder(c), NEW k \in Blocks
  PROVE  /\ InOrder(Pin(c, k))
         /\ Size(Pin(c, k)) = Size(c)
         /\ Members(Pin(c, k)) = Members(c)
         /\ ToSet(c.pin) \subseteq ToSet(Pin(c, k).pin)
         /\ Cached(c, k) => k \in ToSet(Pin(c, k).pin)
<1> DEFINE l == Without(c.lru, k)
           p == Without(c.pin, k)
           h == << k >> \o p
<1>1. CASE ~Cached(c, k)
  BY <1>1 DEF Pin
<1>2. CASE Cached(c, k)
  <2>1. /\ l \in Seq(Blocks) /\ NoDup(l) /\ ToSet(l) = ToSet(c.lru) \ {k}
        /\ Len(l) = IF k \in ToSet(c.lru) THEN Len(c.lru) - 1 ELSE Len(c.lru)
    BY WithoutProperties DEF InOrder
  <2>2. /\ p \in Seq(Blocks) /\ NoDup(p) /\ ToSet(p) = ToSet(c.pin) \ {k}
        /\ Len(p) = IF k \in ToSet(c.pin) THEN Len(c.pin) - 1 ELSE Len(c.pin)
    BY WithoutProperties DEF InOrder
  <2>3. Pin(c, k) = [lru |-> l, pin |-> h]
    BY <1>2 DEF Pin
  <2> HIDE DEF l, p
  <2>4. /\ h \in Seq(Blocks) /\ NoDup(h)
        /\ ToSet(h) = ToSet(p) \cup {k}
        /\ Len(h) = Len(p) + 1
    BY <2>2, PrependProperties
  <2> HIDE DEF h
  <2>5. InOrder(Pin(c, k))
    BY <2>1, <2>2, <2>3, <2>4 DEF InOrder
  <2>6. Size(Pin(c, k)) = Size(c)
    <3> DEFINE nl == Len(c.lru)
               np == Len(c.pin)
               ml == Len(l)
               mp == Len(p)
               mh == Len(h)
    <3>1. nl \in Nat /\ np \in Nat /\ Size(c) = nl + np
      BY SizeType
    <3>2. k \in ToSet(c.lru) <=> k \notin ToSet(c.pin)
      BY <1>2 DEF Cached, InOrder
    <3>3. Size(Pin(c, k)) = ml + mh
      BY <2>3 DEF Size
    <3>4. \/ ml = nl - 1 /\ mp = np
          \/ ml = nl /\ mp = np - 1
      BY <2>1, <2>2, <3>2
    <3>5. mh = mp + 1
      BY <2>4
    <3> HIDE DEF nl, np, ml, mp, mh
    <3> QED BY <3>1, <3>3, <3>4, <3>5
  <2>7. Members(Pin(c, k)) = Members(c)
    BY <1>2, <2>1, <2>2, <2>3, <2>4 DEF Members, Cached
  <2> QED BY <2>2, <2>3, <2>4, <2>5, <2>6, <2>7
<1> QED BY <1>1, <1>2

LEMMA UnpinAllProperties ==
  ASSUME NEW c, InOrder(c)
  PROVE  /\ InOrder(UnpinAll(c))
         /\ Size(UnpinAll(c)) = Size(c)
         /\ Members(UnpinAll(c)) = Members(c)
<1>1. /\ c.pin \o c.lru \in Seq(Blocks) /\ NoDup(c.pin \o c.lru)
      /\ ToSet(c.pin \o c.lru) = ToSet(c.pin) \cup ToSet(c.lru)
      /\ Len(c.pin \o c.lru) = Len(c.pin) + Len(c.lru)
  BY ConcatNoDup DEF InOrder
<1> QED BY <1>1, EmptyList, SizeType DEF UnpinAll, InOrder, Size, Members

LEMMA SplitEviction ==
  ASSUME NEW n \in Nat, NEW q \in Nat, NEW m \in 0 .. n + q
  PROVE  /\ Smaller(m, n) \in 0 .. n /\ Monus(m, n) \in 0 .. q
         /\ Smaller(m, n) + Monus(m, n) = m
         /\ m <= n => Monus(m, n) = 0 /\ Smaller(m, n) = m
         /\ m > n => Smaller(m, n) = n
  BY DEF Smaller, Monus

LEMMA EvictProperties ==
  ASSUME NEW c, InOrder(c), NEW m \in 0 .. Size(c)
  PROVE  /\ InOrder(Evict(c, m))
         /\ Size(Evict(c, m)) = Size(c) - m
         /\ ToSet(Evict(c, m).lru) \subseteq ToSet(c.lru)
         /\ ToSet(Evict(c, m).pin) \subseteq ToSet(c.pin)
         /\ m <= Len(c.lru) => Evict(c, m).pin = c.pin
         /\ m > Len(c.lru) => Evict(c, m).lru = << >>
         /\ m <= Len(c.lru) => Len(Evict(c, m).lru) = Len(c.lru) - m
         /\ Len(Evict(c, m).pin) <= Len(c.pin)
<1> DEFINE a == Smaller(m, Len(c.lru))
           b == Monus(m, Len(c.lru))
           l == DropOldest(c.lru, a)
           p == DropOldest(c.pin, b)
<1>0. /\ Len(c.lru) \in Nat /\ Len(c.pin) \in Nat /\ Size(c) \in Nat
      /\ Size(c) = Len(c.lru) + Len(c.pin)
      /\ m \in 0 .. Len(c.lru) + Len(c.pin)
  BY SizeType
<1>1. /\ a \in 0 .. Len(c.lru) /\ b \in 0 .. Len(c.pin) /\ a + b = m
      /\ m <= Len(c.lru) => b = 0 /\ a = m
      /\ m > Len(c.lru) => a = Len(c.lru)
  BY <1>0, SplitEviction DEF a, b
<1> HIDE DEF a, b
<1>2. /\ l \in Seq(Blocks) /\ NoDup(l) /\ ToSet(l) \subseteq ToSet(c.lru)
      /\ Len(l) = Len(c.lru) - a
  BY <1>1, DropProperties DEF InOrder
<1>3. /\ p \in Seq(Blocks) /\ NoDup(p) /\ ToSet(p) \subseteq ToSet(c.pin)
      /\ Len(p) = Len(c.pin) - b
      /\ b = 0 => p = c.pin
  BY <1>1, DropProperties DEF InOrder
<1>4. Evict(c, m) = [lru |-> l, pin |-> p]
  BY DEF Evict, a, b
<1> HIDE DEF l, p
<1>5. InOrder(Evict(c, m))
  BY <1>2, <1>3, <1>4 DEF InOrder
<1>6. Size(Evict(c, m)) = Size(c) - m
  <2> DEFINE nl == Len(c.lru)
             np == Len(c.pin)
             ml == Len(l)
             mp == Len(p)
  <2>1. Size(Evict(c, m)) = ml + mp
    BY <1>4 DEF Size
  <2>2. ml = nl - a /\ mp = np - b
    BY <1>2, <1>3
  <2>3. nl \in Nat /\ np \in Nat /\ Size(c) = nl + np
    BY <1>0
  <2>4. a \in Nat /\ b \in Nat /\ a + b = m
    BY <1>0, <1>1
  <2> HIDE DEF nl, np, ml, mp, l, p, a, b
  <2> QED BY <2>1, <2>2, <2>3, <2>4
<1>7. m > Len(c.lru) => l = << >>
  BY <1>0, <1>1, <1>2, EmptySeq
<1>8. Len(p) <= Len(c.pin)
  <2> DEFINE np == Len(c.pin)
             mp == Len(p)
  <2>1. np \in Nat /\ b \in 0 .. np /\ mp = np - b
    BY <1>0, <1>1, <1>3
  <2>2. mp <= np
    <3> HIDE DEF np, mp, b
    <3> QED BY <2>1
  <2> QED BY <2>2
<1> QED BY <1>1, <1>2, <1>3, <1>4, <1>5, <1>6, <1>7, <1>8

(* How many blocks the two loops of hvCacheTrim evict. *)
LEMMA BudgetCount ==
  ASSUME NEW nl \in Nat, NEW np \in Nat, NEW f \in Nat, NEW e \in {0, 1}
  PROVE  LET m == Smaller(Monus(nl + np + e, Cap), Monus(nl, f))
         IN  m \in 0 .. nl /\ m \in 0 .. nl + np
<1>1. Cap \in Nat
  BY CacheAssumption
<1> DEFINE x == Monus(nl + np + e, Cap)
           y == Monus(nl, f)
<1>2. x \in Nat /\ y \in 0 .. nl
  BY <1>1 DEF Monus
<1> HIDE DEF x, y
<1>3. Smaller(x, y) \in 0 .. nl
  BY <1>2 DEF Smaller
<1> QED BY <1>3 DEF x, y

LEMMA HardCount ==
  ASSUME NEW n \in Nat, NEW nl \in Nat, NEW np \in Nat, n = nl + np,
         NEW e \in {0, 1}
  PROVE  LET m == Smaller(Monus(n + e, Hard), n)
         IN  /\ m \in 0 .. n
             /\ n - m + e <= Hard
             /\ m > nl => np + e > Hard
<1>1. Hard \in Nat /\ Hard >= 1
  BY CacheAssumption
<1> DEFINE x == Monus(n + e, Hard)
<1>2. /\ x \in Nat /\ x <= n
      /\ n - x + e <= Hard
      /\ x > nl => np + e > Hard
  BY <1>1 DEF Monus
<1> HIDE DEF x
<1>3. Smaller(x, n) = x
  BY <1>2 DEF Smaller
<1> QED BY <1>2, <1>3 DEF x

LEMMA ToBudgetProperties ==
  ASSUME NEW c, InOrder(c), NEW extra \in {0, 1}, NEW holding \in BOOLEAN
  PROVE  LET d == ToBudget(c, extra, holding)
         IN  /\ InOrder(d)
             /\ Size(d) <= Size(c)
             /\ d.pin = c.pin
             /\ ToSet(d.lru) \subseteq ToSet(c.lru)
<1> DEFINE nl == Len(c.lru)
           np == Len(c.pin)
           n == Size(c)
           f == Floor(c, holding)
           m == Smaller(Monus(n + extra, Cap), Monus(nl, f))
           d == Evict(c, m)
<1>1. nl \in Nat /\ np \in Nat /\ n \in Nat /\ n = nl + np
  BY SizeType
<1>2. f \in Nat
  BY CacheAssumption DEF Floor
<1>3. ToBudget(c, extra, holding) = d
  BY DEF ToBudget
<1>4. m \in 0 .. nl /\ m \in 0 .. n
  <2> HIDE DEF nl, np, n, f
  <2> QED BY <1>1, <1>2, BudgetCount
<1>5. m <= nl
  <2> HIDE DEF nl, m
  <2> QED BY <1>1, <1>4
<1> HIDE DEF m
<1>6. /\ InOrder(d) /\ Size(d) = n - m /\ d.pin = c.pin
      /\ ToSet(d.lru) \subseteq ToSet(c.lru)
  BY <1>4, <1>5, EvictProperties
<1>7. Size(d) <= n
  <2> DEFINE sd == Size(d)
  <2>1. sd = n - m
    BY <1>6
  <2>2. sd <= n
    <3> HIDE DEF nl, np, n, sd
    <3> QED BY <2>1, <1>1, <1>4
  <2> QED BY <2>2
<1> QED BY <1>3, <1>6, <1>7

LEMMA ToHardLimitProperties ==
  ASSUME NEW c, InOrder(c), NEW extra \in {0, 1}
  PROVE  LET d == ToHardLimit(c, extra)
         IN  /\ InOrder(d)
             /\ Size(d) + extra <= Hard
             /\ Size(d) <= Size(c)
             /\ ToSet(d.pin) \subseteq ToSet(c.pin)
             /\ ToSet(d.lru) \subseteq ToSet(c.lru)
             /\ d.pin = c.pin \/ (d.lru = << >> /\ Len(c.pin) + extra > Hard)
             /\ Len(d.pin) <= Len(c.pin)
<1> DEFINE nl == Len(c.lru)
           np == Len(c.pin)
           n == Size(c)
           m == Smaller(Monus(n + extra, Hard), n)
           d == Evict(c, m)
<1>1. nl \in Nat /\ np \in Nat /\ n \in Nat /\ n = nl + np
  BY SizeType
<1>2. ToHardLimit(c, extra) = d
  BY DEF ToHardLimit
<1>3. /\ m \in 0 .. n /\ n - m + extra <= Hard
      /\ m > nl => np + extra > Hard
  <2> HIDE DEF nl, np, n
  <2> QED BY <1>1, HardCount
<1> HIDE DEF m
<1>4. /\ InOrder(d) /\ Size(d) = n - m
      /\ ToSet(d.lru) \subseteq ToSet(c.lru) /\ ToSet(d.pin) \subseteq ToSet(c.pin)
      /\ m <= nl => d.pin = c.pin
      /\ m > nl => d.lru = << >>
      /\ Len(d.pin) <= np
  BY <1>3, EvictProperties
<1>5. Size(d) + extra <= Hard /\ Size(d) <= n
  <2> DEFINE sd == Size(d)
  <2>1. sd = n - m
    BY <1>4
  <2>2. sd + extra <= Hard /\ sd <= n
    <3>1. Hard \in Nat
      BY CacheAssumption
    <3> HIDE DEF nl, np, n, sd
    <3> QED BY <2>1, <3>1, <1>1, <1>3
  <2> QED BY <2>2
<1>6. d.pin = c.pin \/ (d.lru = << >> /\ np + extra > Hard)
  <2> HIDE DEF d, nl, np, n
  <2>1. m <= nl \/ m > nl
    BY <1>1, <1>3
  <2> QED BY <2>1, <1>3, <1>4
<1> QED BY <1>2, <1>4, <1>5, <1>6

LEMMA TrimProperties ==
  ASSUME NEW c, InOrder(c), NEW extra \in {0, 1}, NEW holding \in BOOLEAN
  PROVE  LET d == Trim(c, extra, holding)
         IN  /\ InOrder(d)
             /\ Size(d) + extra <= Hard
             /\ Size(d) <= Size(c)
             /\ ToSet(d.pin) \subseteq ToSet(c.pin)
             /\ ToSet(d.lru) \subseteq ToSet(c.lru)
             /\ d.pin = c.pin \/ (d.lru = << >> /\ Len(c.pin) + extra > Hard)
             /\ Len(d.pin) <= Len(c.pin)
<1> DEFINE b == ToBudget(c, extra, holding)
           d == ToHardLimit(b, extra)
<1>1. /\ InOrder(b) /\ Size(b) <= Size(c) /\ b.pin = c.pin
      /\ ToSet(b.lru) \subseteq ToSet(c.lru)
  BY ToBudgetProperties
<1>2. Trim(c, extra, holding) = d
  BY DEF Trim
<1> HIDE DEF b
<1>3. /\ InOrder(d) /\ Size(d) + extra <= Hard /\ Size(d) <= Size(b)
      /\ ToSet(d.pin) \subseteq ToSet(b.pin) /\ ToSet(d.lru) \subseteq ToSet(b.lru)
      /\ d.pin = b.pin \/ (d.lru = << >> /\ Len(b.pin) + extra > Hard)
      /\ Len(d.pin) <= Len(b.pin)
  BY <1>1, ToHardLimitProperties
<1> HIDE DEF d
<1>4. Size(b) \in Nat /\ Size(c) \in Nat /\ Size(d) \in Nat
  BY <1>1, <1>3, SizeType
<1>5. Size(d) <= Size(c)
  BY <1>1, <1>3, <1>4
<1> QED BY <1>1, <1>2, <1>3, <1>5

LEMMA TrimWithin ==
  ASSUME NEW c, InOrder(c)
  PROVE  InOrder(Trim(c, 0, FALSE)) /\ Size(Trim(c, 0, FALSE)) <= Hard
<1> DEFINE d == Trim(c, 0, FALSE)
           n == Size(d)
<1>1. InOrder(d) /\ n + 0 <= Hard
  BY TrimProperties
<1>2. n \in Nat
  BY <1>1, SizeType
<1>3. n <= Hard
  <2> HIDE DEF n
  <2> QED BY <1>1, <1>2
<1> QED BY <1>1, <1>3

LEMMA ReleasedProperties ==
  ASSUME NEW c, InOrder(c)
  PROVE  InOrder(Released(c)) /\ Size(Released(c)) <= Hard
BY UnpinAllProperties, TrimWithin DEF Released

(* A block put into the cache. *)
LEMMA PushProperties ==
  ASSUME NEW c, InOrder(c), NEW k \in Blocks, ~Cached(c, k), NEW pinned \in BOOLEAN
  PROVE  LET d == Push(c, k, pinned)
         IN  /\ InOrder(d)
             /\ Size(d) = Size(c) + 1
             /\ pinned  => /\ ToSet(d.pin) = ToSet(c.pin) \cup {k}
                           /\ Len(d.pin) = Len(c.pin) + 1
                           /\ d.lru = c.lru
             /\ ~pinned => /\ d.pin = c.pin
                           /\ ToSet(d.lru) = ToSet(c.lru) \cup {k}
<1> DEFINE nl == Len(c.lru)
           np == Len(c.pin)
           d == Push(c, k, pinned)
<1>1. nl \in Nat /\ np \in Nat /\ Size(c) = nl + np
  BY SizeType
<1>2. CASE pinned
  <2> DEFINE h == << k >> \o c.pin
  <2>1. /\ h \in Seq(Blocks) /\ NoDup(h) /\ ToSet(h) = ToSet(c.pin) \cup {k}
        /\ Len(h) = np + 1
    BY PrependProperties DEF InOrder, Cached
  <2>2. d = [lru |-> c.lru, pin |-> h]
    BY <1>2 DEF Push
  <2> HIDE DEF h, d
  <2>3. InOrder(d)
    BY <2>1, <2>2 DEF InOrder, Cached
  <2>4. Size(d) = nl + Len(h)
    BY <2>2 DEF Size
  <2>5. Size(d) = Size(c) + 1
    <3> DEFINE mh == Len(h)
    <3>1. mh = np + 1 /\ Size(d) = nl + mh
      BY <2>1, <2>4
    <3> HIDE DEF mh, nl, np
    <3> QED BY <3>1, <1>1
  <2>6. d.lru = c.lru /\ d.pin = h
    BY <2>2
  <2> QED BY <1>2, <2>1, <2>3, <2>5, <2>6 DEF d
<1>3. CASE ~pinned
  <2> DEFINE h == << k >> \o c.lru
  <2>1. /\ h \in Seq(Blocks) /\ NoDup(h) /\ ToSet(h) = ToSet(c.lru) \cup {k}
        /\ Len(h) = nl + 1
    BY PrependProperties DEF InOrder, Cached
  <2>2. d = [lru |-> h, pin |-> c.pin]
    BY <1>3 DEF Push
  <2> HIDE DEF h, d
  <2>3. InOrder(d)
    BY <2>1, <2>2 DEF InOrder, Cached
  <2>4. Size(d) = Len(h) + np
    BY <2>2 DEF Size
  <2>5. Size(d) = Size(c) + 1
    <3> DEFINE mh == Len(h)
    <3>1. mh = nl + 1 /\ Size(d) = mh + np
      BY <2>1, <2>4
    <3> HIDE DEF mh, nl, np
    <3> QED BY <3>1, <1>1
  <2>6. d.lru = h /\ d.pin = c.pin
    BY <2>2
  <2> QED BY <1>3, <2>1, <2>3, <2>5, <2>6 DEF d
<1> QED BY <1>2, <1>3 DEF d

(* hvCachePut keeps the lists in order and the cache within the hard limit *)
(* and pins a block of a batch that was not there.  Nothing pinned is lost *)
(* unless memory ran out or the batch alone exceeds the hard limit.        *)
LEMMA PutProperties ==
  ASSUME NEW c, InOrder(c), Size(c) <= Hard,
         NEW k \in Blocks, NEW pinned \in BOOLEAN, NEW oom \in BOOLEAN
  PROVE  LET d == Put(c, k, pinned, oom)
         IN  /\ InOrder(d)
             /\ Size(d) <= Hard
<1> DEFINE t == Trim(c, 1, pinned)
           e == Evict(t, 1)
           nt == Size(t)
<1>1. Hard \in Nat /\ Hard >= 1
  BY CacheAssumption
<1>2. InOrder(t) /\ nt + 1 <= Hard /\ nt \in Nat
      /\ ToSet(t.pin) \subseteq ToSet(c.pin) /\ ToSet(t.lru) \subseteq ToSet(c.lru)
  <2>1. InOrder(t) /\ Size(t) + 1 <= Hard
        /\ ToSet(t.pin) \subseteq ToSet(c.pin) /\ ToSet(t.lru) \subseteq ToSet(c.lru)
    BY TrimProperties
  <2> QED BY <2>1, SizeType
<1>3. CASE Cached(c, k)
  <2>1. InOrder(Pin(c, k)) /\ Size(Pin(c, k)) = Size(c)
    BY <1>3, PinProperties
  <2> QED BY <1>3, <2>1 DEF Put
<1>4. CASE ~Cached(c, k)
  <2>1. ~Cached(t, k)
    BY <1>2, <1>4 DEF Cached
  <2>2. CASE ~oom
    <3> DEFINE d == Push(t, k, pinned)
               nd == Size(d)
    <3>1. InOrder(d) /\ nd = nt + 1
      BY <1>2, <2>1, PushProperties
    <3>2. Put(c, k, pinned, oom) = d
      BY <1>4, <2>2 DEF Put
    <3>3. nd <= Hard
      <4> HIDE DEF nd, nt
      <4> QED BY <1>1, <1>2, <3>1
    <3> QED BY <3>1, <3>2, <3>3
  <2>3. CASE oom /\ nt = 0
    <3>1. Put(c, k, pinned, oom) = t
      BY <1>4, <2>3 DEF Put
    <3>2. nt <= Hard
      <4> HIDE DEF nt
      <4> QED BY <1>1, <1>2
    <3> QED BY <1>2, <3>1, <3>2
  <2>4. CASE oom /\ nt # 0
    <3> DEFINE d == Push(e, k, pinned)
               nd == Size(d)
               ne == Size(e)
    <3>1. 1 \in 0 .. nt
      <4> HIDE DEF nt
      <4> QED BY <1>2, <2>4
    <3>2. InOrder(e) /\ ne = nt - 1
          /\ ToSet(e.pin) \subseteq ToSet(t.pin) /\ ToSet(e.lru) \subseteq ToSet(t.lru)
      BY <1>2, <3>1, EvictProperties
    <3>3. ~Cached(e, k)
      BY <2>1, <3>2 DEF Cached
    <3>4. InOrder(d) /\ nd = ne + 1
      BY <3>2, <3>3, PushProperties
    <3>5. Put(c, k, pinned, oom) = d
      BY <1>4, <2>4 DEF Put
    <3>6. nd <= Hard
      <4> HIDE DEF nd, nt, ne
      <4> QED BY <1>1, <1>2, <3>2, <3>4
    <3> QED BY <3>4, <3>5, <3>6
  <2> QED BY <2>2, <2>3, <2>4
<1> QED BY <1>3, <1>4

(* A block that was not cached: only it can join the lists, nothing pinned *)
(* is lost while the pinned blocks and it fit under the hard limit.        *)
LEMMA PutNewProperties ==
  ASSUME NEW c, InOrder(c), NEW k \in Blocks, ~Cached(c, k),
         NEW pinned \in BOOLEAN, NEW oom \in BOOLEAN
  PROVE  LET d == Put(c, k, pinned, oom)
         IN  /\ ToSet(d.lru) \subseteq ToSet(c.lru) \cup {k}
             /\ pinned => ToSet(d.lru) \subseteq ToSet(c.lru)
             /\ Len(d.pin) <= Len(c.pin) + (IF pinned THEN 1 ELSE 0)
             /\ (~oom /\ Len(c.pin) + 1 <= Hard) => ToSet(c.pin) \subseteq ToSet(d.pin)
             /\ (~oom /\ pinned) => k \in ToSet(d.pin)
<1> DEFINE d == Put(c, k, pinned, oom)
           t == Trim(c, 1, pinned)
           e == Evict(t, 1)
           np == Len(c.pin)
           nt == Size(t)
           tp == Len(t.pin)
           one == IF pinned THEN 1 ELSE 0
<1>1. /\ InOrder(t) /\ tp <= np
      /\ ToSet(t.pin) \subseteq ToSet(c.pin) /\ ToSet(t.lru) \subseteq ToSet(c.lru)
      /\ t.pin = c.pin \/ np + 1 > Hard
  BY TrimProperties
<1>2. np \in Nat /\ tp \in Nat /\ nt \in Nat /\ Hard \in Nat /\ one \in {0, 1}
  BY <1>1, SizeType, CacheAssumption
<1>3. ~Cached(t, k)
  BY <1>1 DEF Cached
<1> HIDE DEF t
<1>4. ASSUME NEW s, InOrder(s), ~Cached(s, k), d = Push(s, k, pinned),
             Len(s.pin) <= Len(t.pin), ToSet(s.lru) \subseteq ToSet(t.lru)
      PROVE  /\ ToSet(d.lru) \subseteq ToSet(c.lru) \cup {k}
             /\ pinned => ToSet(d.lru) \subseteq ToSet(c.lru)
             /\ Len(d.pin) <= Len(c.pin) + one
             /\ pinned => k \in ToSet(d.pin)
             /\ ToSet(s.pin) \subseteq ToSet(d.pin)
  <2> DEFINE dp == Len(d.pin)
             sp == Len(s.pin)
  <2> HIDE DEF d
  <2>1. /\ pinned  => /\ ToSet(d.pin) = ToSet(s.pin) \cup {k}
                      /\ dp = sp + 1
                      /\ d.lru = s.lru
        /\ ~pinned => /\ d.pin = s.pin
                      /\ ToSet(d.lru) = ToSet(s.lru) \cup {k}
    <3> DEFINE q == Push(s, k, pinned)
    <3>1. /\ pinned  => /\ ToSet(q.pin) = ToSet(s.pin) \cup {k}
                        /\ Len(q.pin) = Len(s.pin) + 1
                        /\ q.lru = s.lru
          /\ ~pinned => /\ q.pin = s.pin
                        /\ ToSet(q.lru) = ToSet(s.lru) \cup {k}
      <4>1. InOrder(s) /\ ~Cached(s, k)
        BY <1>4
      <4> QED BY <4>1, PushProperties
    <3>2. d = q
      BY <1>4
    <3> HIDE DEF q
    <3> QED BY <3>1, <3>2
  <2>2. sp \in Nat
    BY <1>4, SizeType
  <2>3. dp = sp + one
    <3>1. ~pinned => dp = sp
      BY <2>1
    <3>2. (pinned => dp = sp + 1) /\ (pinned => one = 1) /\ (~pinned => one = 0)
      BY <2>1
    <3> HIDE DEF dp, sp, one
    <3> QED BY <3>1, <3>2, <2>2
  <2>4. sp <= tp
    BY <1>4
  <2>5. dp <= np + one
    <3> HIDE DEF dp, sp, tp, np, one
    <3> QED BY <1>1, <1>2, <2>2, <2>3, <2>4
  <2> QED BY <1>1, <1>4, <2>1, <2>5
<1>5. CASE ~oom
  <2>1. d = Push(t, k, pinned)
    BY <1>5 DEF Put, t
  <2>2. tp <= tp
    <3> HIDE DEF tp
    <3> QED BY <1>2
  <2>3. /\ ToSet(d.lru) \subseteq ToSet(c.lru) \cup {k}
        /\ pinned => ToSet(d.lru) \subseteq ToSet(c.lru)
        /\ Len(d.pin) <= np + one
        /\ pinned => k \in ToSet(d.pin)
        /\ ToSet(t.pin) \subseteq ToSet(d.pin)
    <3> HIDE DEF d
    <3> QED BY <1>1, <1>3, <1>4, <2>1, <2>2
  <2>4. np + 1 <= Hard => t.pin = c.pin
    <3> HIDE DEF np
    <3> QED BY <1>1, <1>2
  <2> HIDE DEF d
  <2> QED BY <2>3, <2>4, <1>5 DEF d
<1>6. CASE oom /\ nt = 0
  <2>1. d = t
    BY <1>6 DEF Put, t
  <2>2. Len(t.pin) <= np + one
    <3> HIDE DEF tp, np, one
    <3> QED BY <1>1, <1>2 DEF tp
  <2> QED BY <1>1, <1>6, <2>1, <2>2
<1>7. CASE oom /\ nt # 0
  <2>1. d = Push(e, k, pinned)
    BY <1>7 DEF Put, t
  <2>2. 1 \in 0 .. nt
    <3> HIDE DEF nt
    <3> QED BY <1>2, <1>7
  <2>3. InOrder(e) /\ ToSet(e.lru) \subseteq ToSet(t.lru) /\ Len(e.pin) <= Len(t.pin)
        /\ ToSet(e.pin) \subseteq ToSet(t.pin)
    BY <1>1, <2>2, EvictProperties
  <2>4. ~Cached(e, k)
    BY <1>3, <2>3 DEF Cached
  <2>5. /\ ToSet(d.lru) \subseteq ToSet(c.lru) \cup {k}
        /\ pinned => ToSet(d.lru) \subseteq ToSet(c.lru)
        /\ Len(d.pin) <= np + one
    <3> HIDE DEF d, e
    <3> QED BY <1>4, <2>1, <2>3, <2>4
  <2> QED BY <1>7, <2>5
<1> QED BY <1>5, <1>6, <1>7

-----------------------------------------------------------------------------
CacheInv == CacheTypeOK /\ WithinHard

LEMMA InitSatisfies == CacheInit => CacheInv
<1> SUFFICES ASSUME CacheInit PROVE CacheInv
  OBVIOUS
<1>1. Hard \in Nat /\ Hard >= 1 /\ 0 \in Blocks
  BY CacheAssumption DEF Blocks
<1>2. InOrder(EmptyCache) /\ Size(EmptyCache) = 0
  BY EmptyIsInOrder
<1>3. CASE cache = EmptyCache
  BY <1>1, <1>2, <1>3 DEF CacheInv, CacheTypeOK, WithinHard
<1>4. CASE cache = [lru |-> << 0 >>, pin |-> << >>]
  <2>1. ~Cached(EmptyCache, 0)
    BY EmptyList DEF Cached, EmptyCache
  <2>2. /\ InOrder(Push(EmptyCache, 0, FALSE))
        /\ Size(Push(EmptyCache, 0, FALSE)) = Size(EmptyCache) + 1
    <3>1. FALSE \in BOOLEAN
      OBVIOUS
    <3> QED BY <1>1, <1>2, <2>1, <3>1, PushProperties
  <2>3. cache = Push(EmptyCache, 0, FALSE)
    BY <1>4 DEF Push, EmptyCache
  <2>4. Size(cache) <= Hard
    <3> DEFINE n == Size(cache)
    <3>1. n = 0 + 1
      BY <1>2, <2>2, <2>3
    <3> HIDE DEF n
    <3>2. n <= Hard
      BY <1>1, <3>1
    <3> QED BY <3>2 DEF n
  <2> QED BY <2>2, <2>3, <2>4 DEF CacheInv, CacheTypeOK, WithinHard
<1> QED BY <1>3, <1>4 DEF CacheInit

(* Every operation of the cache keeps the lists in order and its size      *)
(* within the hard limit.                                                  *)
LEMMA StepPreserves == CacheInv /\ [CacheNext]_cache => CacheInv'
<1> SUFFICES ASSUME CacheInv, [CacheNext]_cache PROVE CacheInv'
  OBVIOUS
<1>0. InOrder(cache) /\ Size(cache) <= Hard /\ Hard \in Nat
  BY CacheAssumption DEF CacheInv, CacheTypeOK, WithinHard
<1>1. ASSUME NEW k \in Blocks, CacheGet(k) PROVE CacheInv'
  BY <1>0, <1>1, TouchProperties DEF CacheGet, CacheInv, CacheTypeOK, WithinHard
<1>2. ASSUME NEW k \in Blocks, CachePin(k) PROVE CacheInv'
  BY <1>0, <1>2, PinProperties DEF CachePin, CacheInv, CacheTypeOK, WithinHard
<1>3. ASSUME NEW k \in Blocks, CachePut(k) PROVE CacheInv'
  <2>1. PICK pinned \in BOOLEAN, oom \in MemFails :
          cache' = Put(cache, k, pinned, oom)
    BY <1>3 DEF CachePut
  <2>2. oom \in BOOLEAN
    BY CacheAssumption
  <2> QED BY <1>0, <2>1, <2>2, PutProperties DEF CacheInv, CacheTypeOK, WithinHard
<1>4. ASSUME CacheTrim PROVE CacheInv'
  <2>1. InOrder(Trim(cache, 0, FALSE)) /\ Size(Trim(cache, 0, FALSE)) <= Hard
    BY <1>0, TrimWithin
  <2> QED BY <1>4, <2>1 DEF CacheTrim, CacheInv, CacheTypeOK, WithinHard
<1>5. ASSUME CacheUnpinAll PROVE CacheInv'
  BY <1>0, <1>5, UnpinAllProperties DEF CacheUnpinAll, CacheInv, CacheTypeOK, WithinHard
<1>6. ASSUME CacheRelease PROVE CacheInv'
  BY <1>0, <1>6, ReleasedProperties DEF CacheRelease, CacheInv, CacheTypeOK, WithinHard
<1>7. ASSUME CacheClear PROVE CacheInv'
  BY <1>0, <1>7, EmptyIsInOrder DEF CacheClear, CacheInv, CacheTypeOK, WithinHard
<1>8. CASE UNCHANGED cache
  BY <1>0, <1>8 DEF CacheInv, CacheTypeOK, WithinHard
<1> QED BY <1>1, <1>2, <1>3, <1>4, <1>5, <1>6, <1>7, <1>8 DEF CacheNext

(* The two lists of the cache never list a block twice, neither in one     *)
(* list nor in both.                                                       *)
THEOREM CacheTypeCorrect == CacheSpec => []CacheTypeOK
<1>1. CacheInv => CacheTypeOK
  BY DEF CacheInv
<1> QED BY <1>1, InitSatisfies, StepPreserves, PTL DEF CacheSpec

(* However blocks are pinned, the cache never holds more than the hard     *)
(* limit.                                                                  *)
THEOREM CacheWithinHard == CacheSpec => []WithinHard
<1>1. CacheInv => WithinHard
  BY DEF CacheInv
<1> QED BY <1>1, InitSatisfies, StepPreserves, PTL DEF CacheSpec

-----------------------------------------------------------------------------
(***************************************************************************)
(* The file.                                                               *)
(***************************************************************************)
FileInv == FileTypeOK /\ WithinHard

LEMMA BlocksAreNat == Blocks \subseteq Nat /\ 0 \in Blocks /\ NumBlocks \in Nat
BY CacheAssumption DEF Blocks

LEMMA CachedIsBlock ==
  ASSUME NEW c, InOrder(c), NEW k, Cached(c, k)
  PROVE  k \in Blocks
<1>1. ToSet(c.lru) \subseteq Blocks /\ ToSet(c.pin) \subseteq Blocks
  BY DEF InOrder, ToSet
<1> QED BY <1>1 DEF Cached

LEMMA FileInitSatisfies == FileInit => FileInv
<1> SUFFICES ASSUME FileInit PROVE FileInv
  OBVIOUS
<1>1. CacheTypeOK /\ WithinHard
  BY InitSatisfies DEF FileInit, CacheInv
<1>2. -1 \in -1 .. NumBlocks /\ 0 \in 0 .. RaMax /\ 0 \in 0 .. NumBlocks /\ 0 \in Blocks
  BY BlocksAreNat, FileAssumption
<1> QED BY <1>1, <1>2 DEF FileInit, FileInv, FileTypeOK, NoRead

-----------------------------------------------------------------------------
(***************************************************************************)
(* Every step of the file is a step of its cache, or leaves it alone.      *)
(***************************************************************************)
LEMMA StepImplementsCache == FileInv /\ [FileNext]_vars => [CacheNext]_cache
<1> SUFFICES ASSUME FileInv, [FileNext]_vars PROVE [CacheNext]_cache
  OBVIOUS
<1>0. InOrder(cache) /\ want \subseteq Blocks /\ gaps \subseteq Blocks
  BY DEF FileInv, FileTypeOK, CacheTypeOK
<1>1. ASSUME NEW b \in Blocks, NEW pin \in BOOLEAN, CacheBlock(b, pin)
      PROVE  [CacheNext]_cache
  <2>1. PICK oom \in MemFails :
          cache' = IF Cached(cache, b) THEN cache ELSE Put(cache, b, pin, oom)
    BY <1>1 DEF CacheBlock
  <2>2. CASE Cached(cache, b)
    BY <2>1, <2>2
  <2>3. CASE ~Cached(cache, b)
    BY <2>1, <2>3 DEF CacheNext, CachePut
  <2> QED BY <2>2, <2>3
<1>2. ASSUME cache' = BackToBudget(cache) PROVE [CacheNext]_cache
  BY <1>2 DEF BackToBudget, CacheNext, CacheTrim
<1>3. ASSUME NEW S, Announce(S) PROVE [CacheNext]_cache
  BY <1>3 DEF Announce, CacheNext, CacheUnpinAll
<1>4. CASE Calls
  <2>1. ASSUME NEW b0 \in Blocks, NEW b1 \in Blocks, ReadStart(b0, b1)
        PROVE  [CacheNext]_cache
    BY <2>1 DEF ReadStart
  <2>2. ASSUME NEW S \in Batches, Prefetch(S) PROVE [CacheNext]_cache
    BY <2>2, <1>3 DEF Prefetch
  <2>3. CASE SpecBegin
    BY <2>3 DEF SpecBegin
  <2>4. CASE SpecEnd
    BY <2>4, <1>3 DEF SpecEnd
  <2>5. CASE SpecDiscard
    BY <2>5 DEF SpecDiscard
  <2>6. CASE Release
    BY <2>6 DEF Release, CacheNext, CacheRelease
  <2>7. CASE PragmaReset
    BY <2>7 DEF PragmaReset, CacheNext, CacheClear
  <2>8. ASSUME NEW clear \in BOOLEAN, Reset(clear) PROVE [CacheNext]_cache
    BY <2>8 DEF Reset, CacheNext, CacheClear
  <2> QED BY <1>4, <2>1, <2>2, <2>3, <2>4, <2>5, <2>6, <2>7, <2>8 DEF Calls
<1>5. CASE Steps
  <2>1. CASE ReadHit
    <3>1. rd.b \in Blocks
      BY <1>0, <2>1, CachedIsBlock DEF ReadHit
    <3> QED BY <2>1, <3>1 DEF ReadHit, CacheNext, CacheGet
  <2>2. CASE ReadSpeculate
    BY <2>2 DEF ReadSpeculate
  <2>3. CASE ReadMiss
    BY <2>3 DEF ReadMiss
  <2>4. CASE ReadEnd
    BY <2>4, <1>2 DEF ReadEnd
  <2>5. CASE ReadFetch
    BY <2>5, <1>2 DEF ReadFetch
  <2>6. CASE ScanBlock
    <3>1. PICK b \in scan :
            \/ UNCHANGED cache
            \/ Cached(cache, b) /\ cache' = Pin(cache, b)
      BY <2>6 DEF ScanBlock
    <3>2. Cached(cache, b) => b \in Blocks
      BY <1>0, CachedIsBlock
    <3> QED BY <3>1, <3>2 DEF CacheNext, CachePin
  <2>7. CASE ScanEnd
    BY <2>7 DEF ScanEnd
  <2>8. CASE RoundOk
    BY <2>8 DEF RoundOk
  <2>9. CASE RoundFail
    BY <2>9 DEF RoundFail
  <2>10. CASE PutGap
    BY <1>0, <1>1, <2>10 DEF PutGap
  <2>11. CASE PutWanted
    BY <1>0, <1>1, <2>11 DEF PutWanted, FileInv, FileTypeOK
  <2>12. CASE PutEnd
    BY <2>12 DEF PutEnd
  <2> QED BY <1>5, <2>1, <2>2, <2>3, <2>4, <2>5, <2>6, <2>7, <2>8, <2>9, <2>10,
             <2>11, <2>12 DEF Steps
<1>6. CASE UNCHANGED vars
  BY <1>6 DEF vars
<1> QED BY <1>4, <1>5, <1>6 DEF FileNext

-----------------------------------------------------------------------------
(***************************************************************************)
(* The file's own variables keep their types.                              *)
(***************************************************************************)
FileRest ==
  /\ pc \in {"idle", "read", "scan", "net", "put"}
  /\ speculating \in BOOLEAN
  /\ spec \subseteq Blocks
  /\ next_seq \in -1 .. NumBlocks
  /\ ra \in 0 .. RaMax
  /\ rd \in [b0 : Blocks, b1 : Blocks, b : 0 .. NumBlocks]
  /\ scan \subseteq Nat
  /\ batch \subseteq Blocks
  /\ want \subseteq Blocks
  /\ gaps \subseteq Blocks
  /\ pinning \in BOOLEAN

LEMMA NextRead ==
  ASSUME NEW r \in [b0 : Blocks, b1 : Blocks, b : 0 .. NumBlocks], r.b <= r.b1
  PROVE  [r EXCEPT !.b = @ + 1] \in [b0 : Blocks, b1 : Blocks, b : 0 .. NumBlocks]
<1>1. r.b + 1 \in 0 .. NumBlocks
  <2> DEFINE x == r.b
             y == r.b1
  <2>1. x \in Nat /\ y \in Nat /\ x <= y /\ y < NumBlocks /\ NumBlocks \in Nat
    BY BlocksAreNat DEF Blocks
  <2>2. x + 1 \in 0 .. NumBlocks
    <3> HIDE DEF x, y
    <3> QED BY <2>1
  <2> QED BY <2>2
<1> QED BY <1>1

LEMMA FollowIsPosition ==
  ASSUME NEW r \in [b0 : Blocks, b1 : Blocks, b : 0 .. NumBlocks]
  PROVE  Follow(r.b1 + 1) \in -1 .. NumBlocks
BY BlocksAreNat DEF Follow, Blocks

LEMMA PlannedAreBlocks ==
  ASSUME NEW W, NEW G \in Planned(W)
  PROVE  G \subseteq Blocks /\ G \cap W = {}
<1>1. Inside(W) \subseteq Blocks /\ Inside(W) \cap W = {}
  BY DEF Inside
<1>2. Coalesced(W) \subseteq Inside(W)
  BY DEF Coalesced
<1>3. G \subseteq Inside(W)
  BY <1>2 DEF Planned
<1> QED BY <1>1, <1>3

LEMMA NextRaInBounds == ra \in 0 .. RaMax => NextRa \in 0 .. RaMax
BY FileAssumption DEF NextRa, Smaller

LEMMA RestPreserved == FileInv /\ [FileNext]_vars => FileRest'
<1> SUFFICES ASSUME FileInv, [FileNext]_vars PROVE FileRest'
  OBVIOUS
<1>0. FileRest /\ InOrder(cache)
  BY DEF FileInv, FileTypeOK, CacheTypeOK, FileRest
<1> USE BlocksAreNat
<1>r. NoRead \in [b0 : Blocks, b1 : Blocks, b : 0 .. NumBlocks]
  BY DEF NoRead
<1>1. ASSUME Return, UNCHANGED << spec, speculating, ra, next_seq >> PROVE FileRest'
  BY <1>0, <1>1, <1>r DEF Return, NoCall, FileRest
<1>2. ASSUME NEW S, S \subseteq Nat, Announce(S), speculating' \in BOOLEAN,
             spec' \subseteq Blocks, UNCHANGED << next_seq, ra >>
      PROVE  FileRest'
  BY <1>0, <1>2 DEF Announce, FileRest
<1>3. CASE Calls
  <2>1. ASSUME NEW b0 \in Blocks, NEW b1 \in Blocks, ReadStart(b0, b1)
        PROVE  FileRest'
    <3>1. rd' \in [b0 : Blocks, b1 : Blocks, b : 0 .. NumBlocks]
      <4>1. b0 \in 0 .. NumBlocks
        BY DEF Blocks
      <4> QED BY <2>1, <4>1 DEF ReadStart
    <3> QED BY <1>0, <2>1, <3>1 DEF ReadStart, FileRest, fileVars
  <2>2. ASSUME NEW S \in Batches, Prefetch(S) PROVE FileRest'
    <3>1. S \subseteq Nat
      BY FileAssumption
    <3> QED BY <1>0, <1>2, <2>2, <3>1 DEF Prefetch, fileVars, FileRest
  <2>3. CASE SpecBegin
    BY <1>0, <2>3 DEF SpecBegin, callVars, FileRest
  <2>4. CASE SpecEnd
    <3>1. spec \subseteq Nat
      BY <1>0 DEF FileRest
    <3> QED BY <1>2, <2>4, <3>1 DEF SpecEnd
  <2>5. CASE SpecDiscard
    BY <1>0, <2>5 DEF SpecDiscard, callVars, FileRest
  <2>6. CASE Release
    BY <1>0, <2>6 DEF Release, callVars, fileVars, FileRest
  <2>7. CASE PragmaReset
    BY <1>0, <2>7 DEF PragmaReset, callVars, fileVars, FileRest
  <2>8. ASSUME NEW clear \in BOOLEAN, Reset(clear) PROVE FileRest'
    <3>1. -1 \in -1 .. NumBlocks /\ 0 \in 0 .. RaMax
      BY FileAssumption
    <3> QED BY <1>0, <2>8, <3>1 DEF Reset, callVars, FileRest
  <2> QED BY <1>3, <2>1, <2>2, <2>3, <2>4, <2>5, <2>6, <2>7, <2>8 DEF Calls
<1>4. CASE Steps
  <2>1. CASE ReadHit
    <3>1. rd' \in [b0 : Blocks, b1 : Blocks, b : 0 .. NumBlocks]
      BY <1>0, <2>1, NextRead DEF ReadHit, FileRest
    <3> QED BY <1>0, <2>1, <3>1 DEF ReadHit, fileVars, FileRest
  <2>2. CASE ReadSpeculate
    <3>1. CASE Return /\ UNCHANGED spec
      BY <1>1, <2>2, <3>1 DEF ReadSpeculate
    <3>2. CASE /\ spec' = spec \cup {rd.b}
               /\ rd' = [rd EXCEPT !.b = @ + 1]
               /\ UNCHANGED << pc, scan, batch, want, gaps, pinning >>
      <4>1. rd' \in [b0 : Blocks, b1 : Blocks, b : 0 .. NumBlocks]
        BY <1>0, <2>2, <3>2, NextRead DEF ReadSpeculate, FileRest
      <4>2. rd.b \in Blocks
        BY <1>0, <2>2 DEF ReadSpeculate, FileRest, Blocks
      <4> QED BY <1>0, <2>2, <3>2, <4>1, <4>2 DEF ReadSpeculate, FileRest
    <3> QED BY <2>2, <3>1, <3>2 DEF ReadSpeculate
  <2>3. CASE ReadMiss
    <3>1. CASE Return
      BY <1>1, <2>3, <3>1 DEF ReadMiss, fileVars
    <3>2. CASE /\ want' = want \cup {rd.b}
               /\ rd' = [rd EXCEPT !.b = @ + 1]
               /\ UNCHANGED << pc, scan, batch, gaps, pinning >>
      <4>1. rd' \in [b0 : Blocks, b1 : Blocks, b : 0 .. NumBlocks]
        BY <1>0, <2>3, <3>2, NextRead DEF ReadMiss, FileRest
      <4>2. rd.b \in Blocks
        BY <1>0, <2>3 DEF ReadMiss, FileRest, Blocks
      <4> QED BY <1>0, <2>3, <3>2, <4>1, <4>2 DEF ReadMiss, fileVars, FileRest
    <3> QED BY <2>3, <3>1, <3>2 DEF ReadMiss
  <2>4. CASE ReadEnd
    <3>1. next_seq' \in -1 .. NumBlocks
      BY <1>0, <2>4, FollowIsPosition DEF ReadEnd, FileRest
    <3> QED BY <1>0, <1>r, <2>4, <3>1 DEF ReadEnd, Return, NoCall, FileRest
  <2>5. CASE ReadFetch
    <3>1. ra' \in 0 .. RaMax
      BY <1>0, <2>5, NextRaInBounds DEF ReadFetch, FileRest
    <3>2. PICK W : W \subseteq Blocks /\ Fetch(W, FALSE)
      BY <1>0, <2>5 DEF ReadFetch, Readahead, FileRest
    <3>3. gaps' \subseteq Blocks
      BY <3>2, PlannedAreBlocks DEF Fetch
    <3> QED BY <1>0, <2>5, <3>1, <3>2, <3>3 DEF ReadFetch, Fetch, FileRest
  <2>6. CASE ScanBlock
    <3>1. PICK b \in scan :
            /\ scan' = scan \ {b}
            /\ \/ b \notin Blocks /\ UNCHANGED << cache, batch, want >>
               \/ /\ Cached(cache, b)
                  /\ cache' = Pin(cache, b)
                  /\ batch' = batch \cup {b}
                  /\ UNCHANGED want
               \/ /\ b \in Blocks /\ ~Cached(cache, b)
                  /\ want' = want \cup {b}
                  /\ UNCHANGED << cache, batch >>
      BY <2>6 DEF ScanBlock
    <3>2. Cached(cache, b) => b \in Blocks
      BY <1>0, CachedIsBlock
    <3> QED BY <1>0, <2>6, <3>1, <3>2 DEF ScanBlock, fileVars, FileRest
  <2>7. CASE ScanEnd
    <3>1. PICK T \in SUBSET want :
            IF T = {} THEN Return
            ELSE /\ Fetch(T, TRUE)
                 /\ batch' = batch \cup T
                 /\ UNCHANGED << rd, scan >>
      BY <2>7 DEF ScanEnd
    <3>2. CASE T = {}
      BY <1>1, <2>7, <3>1, <3>2 DEF ScanEnd, fileVars
    <3>3. CASE T # {}
      <4>1. gaps' \subseteq Blocks
        BY <3>1, <3>3, PlannedAreBlocks DEF Fetch
      <4> QED BY <1>0, <2>7, <3>1, <3>3, <4>1 DEF ScanEnd, Fetch, fileVars, FileRest
    <3> QED BY <3>2, <3>3
  <2>8. CASE RoundOk
    BY <1>0, <2>8 DEF RoundOk, callVars, fileVars, FileRest
  <2>9. CASE RoundFail
    BY <1>1, <2>9 DEF RoundFail, fileVars
  <2>10. CASE PutGap
    BY <1>0, <2>10 DEF PutGap, fileVars, FileRest
  <2>11. CASE PutWanted
    BY <1>0, <2>11 DEF PutWanted, fileVars, FileRest
  <2>12. CASE PutEnd
    <3>1. next_seq' \in -1 .. NumBlocks
      BY <1>0, <2>12, FollowIsPosition DEF PutEnd, FileRest
    <3> QED BY <1>0, <1>r, <2>12, <3>1 DEF PutEnd, Return, NoCall, FileRest
  <2> QED BY <1>4, <2>1, <2>2, <2>3, <2>4, <2>5, <2>6, <2>7, <2>8, <2>9, <2>10,
             <2>11, <2>12 DEF Steps
<1>5. CASE UNCHANGED vars
  BY <1>0, <1>5 DEF vars, callVars, fileVars, FileRest
<1> QED BY <1>3, <1>4, <1>5 DEF FileNext

LEMMA FileStepPreserves == FileInv /\ [FileNext]_vars => FileInv'
<1> SUFFICES ASSUME FileInv, [FileNext]_vars PROVE FileInv'
  OBVIOUS
<1>1. CacheInv'
  BY StepImplementsCache, StepPreserves DEF FileInv, FileTypeOK, CacheInv
<1>2. FileRest'
  BY RestPreserved
<1> QED BY <1>1, <1>2 DEF FileInv, FileTypeOK, FileRest, CacheInv

LEMMA FileInvariance == FileSpec => []FileInv
BY FileInitSatisfies, FileStepPreserves, PTL DEF FileSpec

(* The lists of the cache, the position and readahead of the file, and the *)
(* block sets a call works through are always well formed.                 *)
THEOREM FileTypeCorrect == FileSpec => []FileTypeOK
<1>1. FileInv => FileTypeOK
  BY DEF FileInv
<1> QED BY <1>1, FileInvariance, PTL

(* Reads, batches and releases never leave more blocks in the cache than   *)
(* its hard limit, between their steps included.                           *)
THEOREM FileWithinHard == FileSpec => []WithinHard
<1>1. FileInv => WithinHard
  BY DEF FileInv
<1> QED BY <1>1, FileInvariance, PTL

(* The loops of reads and batches, the network and the control calls use   *)
(* the cache only as CacheSpec allows: FileSpec implements it.             *)
THEOREM FileImplementsCache == FileSpec => CacheSpec
<1>1. FileInit => CacheInit
  BY DEF FileInit
<1> QED BY <1>1, FileInvariance, StepImplementsCache, PTL DEF FileSpec, CacheSpec

-----------------------------------------------------------------------------
(***************************************************************************)
(* Batches.  The blocks a batch still wants are not unpinned ones (or the  *)
(* insertion would skip them and leave them unpinned), and blocks nobody   *)
(* asked for come before the wanted ones, which their room is left for.    *)
(***************************************************************************)
BatchOnItsWay == pinning /\ pc \in {"net", "put"}

BatchInv ==
  /\ pc = "idle" => batch = {} /\ want = {} /\ gaps = {}
  /\ pc \in {"idle", "read", "scan"} => ~pinning
  /\ pc = "scan" => batch \subseteq Pinned /\ want \cap Unpinned = {}
  /\ BatchFits
  /\ BatchArrives
  /\ BatchOnItsWay => /\ want \cap Unpinned = {}
                      /\ want \cap gaps = {}
                      /\ gaps # {} => want # {}

LEMMA SetsOfBlocks ==
  ASSUME NEW S, S \subseteq Blocks
  PROVE  IsFiniteSet(S) /\ Cardinality(S) \in Nat
<1>1. IsFiniteSet(Blocks)
  BY CacheAssumption, FS_Interval, 0 \in Int, NumBlocks - 1 \in Int DEF Blocks
<1>2. IsFiniteSet(S)
  BY <1>1, FS_Subset
<1> QED BY <1>2, FS_CardinalityType

LEMMA OneLess ==
  ASSUME NEW S, S \subseteq Blocks, NEW b \in S
  PROVE  Cardinality(S \ {b}) = Cardinality(S) - 1 /\ Cardinality(S) >= 1
<1> DEFINE n == Cardinality(S)
           m == Cardinality(S \ {b})
<1>1. IsFiniteSet(S) /\ n \in Nat
  BY SetsOfBlocks
<1>2. m = n - 1
  BY <1>1, FS_RemoveElement
<1>3. m \in Nat
  <2>1. S \ {b} \subseteq Blocks
    OBVIOUS
  <2> QED BY <2>1, SetsOfBlocks
<1>4. n >= 1
  <2> HIDE DEF n, m
  <2> QED BY <1>1, <1>2, <1>3
<1> QED BY <1>2, <1>4

(* A step that leaves the call's sets and the cache alone. *)
LEMMA BatchIdle == BatchInv /\ Return => BatchInv'
BY DEF BatchInv, Return, NoCall, BatchFits, BatchArrives, BatchOnItsWay

(* A block of the round in progress enters the cache. *)
LEMMA BlockArrives ==
  ASSUME FileInv, NEW b \in Blocks, NEW pin \in BOOLEAN, CacheBlock(b, pin)
  PROVE  /\ Unpinned' \subseteq Unpinned \cup {b}
         /\ pin => Unpinned' \subseteq Unpinned
         /\ Len(cache'.pin) <= Len(cache.pin) + (IF pin THEN 1 ELSE 0)
         /\ (MemFails = {FALSE} /\ Len(cache.pin) + 1 <= Hard) => Pinned \subseteq Pinned'
         /\ (MemFails = {FALSE} /\ pin /\ b \notin Unpinned) => b \in Pinned'
<1>1. InOrder(cache)
  BY DEF FileInv, FileTypeOK, CacheTypeOK
<1>2. PICK oom \in MemFails :
        cache' = IF Cached(cache, b) THEN cache ELSE Put(cache, b, pin, oom)
  BY DEF CacheBlock
<1>3. oom \in BOOLEAN /\ (MemFails = {FALSE} => ~oom)
  BY CacheAssumption
<1>4. CASE Cached(cache, b)
  <2>1. cache' = cache
    BY <1>2, <1>4
  <2>2. Len(cache.pin) <= Len(cache.pin) + (IF pin THEN 1 ELSE 0)
    <3> DEFINE np == Len(cache.pin)
    <3>1. np \in Nat
      BY <1>1, SizeType
    <3>2. np <= np + (IF pin THEN 1 ELSE 0)
      <4> HIDE DEF np
      <4> QED BY <3>1
    <3> QED BY <3>2
  <2> QED BY <1>4, <2>1, <2>2 DEF Pinned, Unpinned, Cached
<1>5. CASE ~Cached(cache, b)
  <2> DEFINE d == Put(cache, b, pin, oom)
  <2>1. cache' = d
    BY <1>2, <1>5
  <2>2. /\ ToSet(d.lru) \subseteq ToSet(cache.lru) \cup {b}
        /\ pin => ToSet(d.lru) \subseteq ToSet(cache.lru)
        /\ Len(d.pin) <= Len(cache.pin) + (IF pin THEN 1 ELSE 0)
        /\ (~oom /\ Len(cache.pin) + 1 <= Hard) => ToSet(cache.pin) \subseteq ToSet(d.pin)
        /\ (~oom /\ pin) => b \in ToSet(d.pin)
    BY <1>1, <1>3, <1>5, PutNewProperties
  <2> HIDE DEF d
  <2> QED BY <1>3, <2>1, <2>2 DEF Pinned, Unpinned
<1> QED BY <1>4, <1>5

LEMMA BatchPutGap == FileInv /\ BatchInv /\ PutGap => BatchInv'
<1> SUFFICES ASSUME FileInv, BatchInv, PutGap PROVE BatchInv'
  OBVIOUS
<1>0. want \subseteq Blocks /\ gaps \subseteq Blocks /\ InOrder(cache)
  BY DEF FileInv, FileTypeOK, CacheTypeOK
<1>1. PICK b \in gaps : gaps' = gaps \ {b} /\ CacheBlock(b, FALSE)
  BY DEF PutGap
<1>2. pc = "put" /\ UNCHANGED << pc, batch, want, pinning >>
  BY DEF PutGap
<1> DEFINE np == Len(cache.pin)
           mp == Len(cache'.pin)
           n  == Cardinality(want)
<1>3. /\ Unpinned' \subseteq Unpinned \cup {b}
      /\ mp <= np + 0
      /\ (MemFails = {FALSE} /\ np + 1 <= Hard) => Pinned \subseteq Pinned'
  BY <1>0, <1>1, BlockArrives
<1>4. CASE pinning
  <2>1. /\ np + n <= Hard /\ b \notin want /\ want # {} /\ want \cap Unpinned = {}
        /\ MemFails = {FALSE} => batch \subseteq Pinned \cup want
        /\ want \cap gaps = {}
    BY <1>1, <1>2, <1>4 DEF BatchInv, BatchFits, BatchArrives, BatchOnItsWay
  <2>2. np \in Nat /\ mp \in Nat /\ n \in Nat /\ n >= 1 /\ Hard \in Nat
    <3>1. np \in Nat
      BY <1>0, SizeType
    <3>2. PICK w : w \in want
      BY <2>1
    <3>3. n \in Nat /\ n >= 1
      BY <1>0, <3>2, SetsOfBlocks, OneLess
    <3>4. InOrder(cache')
      BY FileStepPreserves DEF FileNext, Steps, FileInv, FileTypeOK, CacheTypeOK
    <3>5. mp \in Nat
      BY <3>4, SizeType
    <3> QED BY <3>1, <3>3, <3>5, CacheAssumption
  <2>3. mp + n <= Hard /\ np + 1 <= Hard
    <3> HIDE DEF np, mp, n
    <3> QED BY <1>3, <2>1, <2>2
  <2>4. BatchFits'
    BY <1>2, <2>3 DEF BatchFits
  <2>5. BatchArrives'
    BY <1>2, <1>3, <2>1, <2>3 DEF BatchArrives
  <2>6. want \cap Unpinned' = {}
    BY <1>3, <2>1
  <2> QED BY <1>1, <1>2, <2>1, <2>4, <2>5, <2>6 DEF BatchInv, BatchOnItsWay
<1>5. CASE ~pinning
  BY <1>2, <1>5 DEF BatchInv, BatchFits, BatchArrives, BatchOnItsWay
<1> QED BY <1>4, <1>5

LEMMA BatchPutWanted == FileInv /\ BatchInv /\ PutWanted => BatchInv'
<1> SUFFICES ASSUME FileInv, BatchInv, PutWanted PROVE BatchInv'
  OBVIOUS
<1>0. want \subseteq Blocks /\ InOrder(cache)
  BY DEF FileInv, FileTypeOK, CacheTypeOK
<1>1. PICK b \in want : want' = want \ {b} /\ CacheBlock(b, pinning)
  BY DEF PutWanted
<1>2. pc = "put" /\ gaps = {} /\ UNCHANGED << pc, batch, gaps, pinning >>
  BY DEF PutWanted
<1> DEFINE np == Len(cache.pin)
           mp == Len(cache'.pin)
           n  == Cardinality(want)
           m  == Cardinality(want')
<1>3. CASE pinning
  <2>1. /\ np + n <= Hard /\ want \cap Unpinned = {}
        /\ MemFails = {FALSE} => batch \subseteq Pinned \cup want
    BY <1>2, <1>3 DEF BatchInv, BatchFits, BatchArrives, BatchOnItsWay
  <2>2. /\ Unpinned' \subseteq Unpinned
        /\ mp <= np + 1
        /\ (MemFails = {FALSE} /\ np + 1 <= Hard) => Pinned \subseteq Pinned'
        /\ MemFails = {FALSE} => b \in Pinned'
    <3>1. pinning \in BOOLEAN
      BY DEF FileInv, FileTypeOK
    <3>2. b \in Blocks /\ b \notin Unpinned
      BY <1>0, <2>1
    <3>3. pinning = TRUE
      BY <1>3, <3>1
    <3>4. CacheBlock(b, TRUE)
      BY <1>1, <3>3
    <3> QED BY <3>2, <3>4, BlockArrives
  <2>3. m = n - 1 /\ n >= 1 /\ n \in Nat
    BY <1>0, <1>1, OneLess, SetsOfBlocks
  <2>4. np \in Nat /\ mp \in Nat /\ Hard \in Nat
    <3>1. InOrder(cache')
      BY FileStepPreserves DEF FileNext, Steps, FileInv, FileTypeOK, CacheTypeOK
    <3> QED BY <1>0, <3>1, SizeType, CacheAssumption
  <2>5. mp + m <= Hard /\ np + 1 <= Hard
    <3> HIDE DEF np, mp, n, m
    <3> QED BY <2>1, <2>2, <2>3, <2>4
  <2>6. BatchFits'
    BY <1>2, <2>5 DEF BatchFits
  <2>7. BatchArrives'
    BY <1>1, <1>2, <2>1, <2>2, <2>5 DEF BatchArrives
  <2> QED BY <1>1, <1>2, <2>1, <2>2, <2>6, <2>7 DEF BatchInv, BatchOnItsWay
<1>4. CASE ~pinning
  BY <1>2, <1>4 DEF BatchInv, BatchFits, BatchArrives, BatchOnItsWay
<1> QED BY <1>3, <1>4

(* A block of the batch is looked up. *)
LEMMA BatchScanBlock == FileInv /\ BatchInv /\ ScanBlock => BatchInv'
<1> SUFFICES ASSUME FileInv, BatchInv, ScanBlock PROVE BatchInv'
  OBVIOUS
<1>0. InOrder(cache)
  BY DEF FileInv, FileTypeOK, CacheTypeOK
<1>1. pc = "scan" /\ ~pinning /\ UNCHANGED << pc, pinning >>
      /\ batch \subseteq Pinned /\ want \cap Unpinned = {}
  BY DEF ScanBlock, BatchInv
<1>2. PICK b \in scan :
        \/ UNCHANGED << cache, batch, want >>
        \/ /\ Cached(cache, b) /\ cache' = Pin(cache, b)
           /\ batch' = batch \cup {b} /\ UNCHANGED want
        \/ /\ b \in Blocks /\ ~Cached(cache, b)
           /\ want' = want \cup {b} /\ UNCHANGED << cache, batch >>
  BY DEF ScanBlock
<1>3. batch' \subseteq Pinned' /\ want' \cap Unpinned' = {}
  <2>1. CASE Cached(cache, b) /\ cache' = Pin(cache, b)
             /\ batch' = batch \cup {b} /\ UNCHANGED want
    <3> DEFINE d == Pin(cache, b)
    <3>1. b \in Blocks
      BY <1>0, <2>1, CachedIsBlock
    <3>2. /\ InOrder(d) /\ Members(d) = Members(cache)
          /\ ToSet(cache.pin) \subseteq ToSet(d.pin) /\ b \in ToSet(d.pin)
      BY <1>0, <2>1, <3>1, PinProperties
    <3>3. ToSet(d.lru) \subseteq ToSet(cache.lru)
      <4> HIDE DEF d
      <4> QED BY <3>2 DEF InOrder, Members
    <3> HIDE DEF d
    <3>4. cache' = d
      BY <2>1 DEF d
    <3> QED BY <1>1, <2>1, <3>2, <3>3, <3>4 DEF Pinned, Unpinned
  <2>2. CASE b \in Blocks /\ ~Cached(cache, b)
             /\ want' = want \cup {b} /\ UNCHANGED << cache, batch >>
    BY <1>1, <2>2 DEF Cached, Pinned, Unpinned
  <2>3. CASE UNCHANGED << cache, batch, want >>
    BY <1>1, <2>3 DEF Pinned, Unpinned
  <2> QED BY <1>2, <2>1, <2>2, <2>3
<1> QED BY <1>1, <1>3 DEF BatchInv, BatchFits, BatchArrives, BatchOnItsWay

(* The batch is cut at the room the pinned blocks leave. *)
LEMMA BatchScanEnd == FileInv /\ BatchInv /\ ScanEnd => BatchInv'
<1> SUFFICES ASSUME FileInv, BatchInv, ScanEnd PROVE BatchInv'
  OBVIOUS
<1>0. want \subseteq Blocks /\ InOrder(cache) /\ Size(cache) <= Hard
  BY DEF FileInv, FileTypeOK, CacheTypeOK, WithinHard
<1>1. PICK T \in SUBSET want :
        /\ FirstOf(T, want, Room)
        /\ IF T = {} THEN Return
           ELSE /\ Fetch(T, TRUE)
                /\ batch' = batch \cup T
                /\ UNCHANGED << rd, scan >>
  BY DEF ScanEnd
<1>2. pc = "scan" /\ UNCHANGED cache
      /\ batch \subseteq Pinned /\ want \cap Unpinned = {}
  BY DEF ScanEnd, BatchInv
<1>3. CASE T = {}
  BY <1>1, <1>3, BatchIdle
<1>4. CASE T # {}
  <2>1. pc' = "net" /\ want' = T /\ gaps' \in Planned(T) /\ pinning' = TRUE
        /\ batch' = batch \cup T
    BY <1>1, <1>4 DEF Fetch
  <2>2. gaps' \cap want' = {}
    BY <2>1, PlannedAreBlocks
  <2>3. Len(cache.pin) + Cardinality(T) <= Hard
    <3> DEFINE np == Len(cache.pin)
               nl == Len(cache.lru)
               n  == Cardinality(want)
               t  == Cardinality(T)
    <3>1. np \in Nat /\ nl \in Nat /\ n \in Nat /\ Hard \in Nat
      BY <1>0, SizeType, SetsOfBlocks, CacheAssumption
    <3>2. nl + np <= Hard
      BY <1>0, SizeType DEF Size
    <3>3. t = IF Hard - np <= n THEN Hard - np ELSE n
      BY <1>1 DEF FirstOf, Room, Smaller
    <3>4. np + t <= Hard
      <4> HIDE DEF np, nl, n, t
      <4> QED BY <3>1, <3>2, <3>3
    <3> QED BY <3>4
  <2>4. BatchFits'
    BY <1>2, <2>1, <2>3 DEF BatchFits
  <2>5. BatchArrives'
    BY <1>2, <2>1 DEF BatchArrives, Pinned
  <2>6. want' \cap Unpinned' = {}
    BY <1>2, <2>1 DEF Unpinned
  <2> QED BY <1>4, <2>1, <2>2, <2>4, <2>5, <2>6 DEF BatchInv, BatchOnItsWay
<1> QED BY <1>3, <1>4

LEMMA BatchStepPreserves == FileInv /\ BatchInv /\ [FileNext]_vars => BatchInv'
<1> SUFFICES ASSUME FileInv, BatchInv, [FileNext]_vars PROVE BatchInv'
  OBVIOUS
<1> USE DEF BatchInv, BatchFits, BatchArrives, BatchOnItsWay
<1>1. ASSUME NEW S, Announce(S), pc = "idle" PROVE BatchInv'
  BY <1>1 DEF Announce
<1>i. ASSUME pc = "idle", UNCHANGED << pc, batch, want, gaps, pinning >> PROVE BatchInv'
  BY <1>i
<1>2. CASE Calls
  <2>1. ASSUME NEW b0 \in Blocks, NEW b1 \in Blocks, ReadStart(b0, b1) PROVE BatchInv'
    BY <2>1 DEF ReadStart
  <2>2. ASSUME NEW S \in Batches, Prefetch(S) PROVE BatchInv'
    BY <1>1, <2>2 DEF Prefetch
  <2>3. CASE SpecBegin \/ SpecDiscard
    BY <1>i, <2>3 DEF SpecBegin, SpecDiscard, callVars
  <2>4. CASE SpecEnd
    BY <1>1, <2>4 DEF SpecEnd
  <2>5. CASE Release \/ PragmaReset
    BY <1>i, <2>5 DEF Release, PragmaReset, callVars
  <2>6. ASSUME NEW clear \in BOOLEAN, Reset(clear) PROVE BatchInv'
    BY <1>i, <2>6 DEF Reset, callVars
  <2> QED BY <1>2, <2>1, <2>2, <2>3, <2>4, <2>5, <2>6 DEF Calls
<1>3. CASE Steps
  <2>1. CASE ReadHit
    BY <2>1 DEF ReadHit
  <2>2. CASE ReadSpeculate
    <3>1. CASE Return
      BY <3>1, BatchIdle
    <3>2. CASE pc = "read" /\ UNCHANGED << pc, batch, want, gaps, pinning >>
      BY <3>2
    <3> QED BY <2>2, <3>1, <3>2 DEF ReadSpeculate
  <2>3. CASE ReadMiss
    <3>1. CASE Return
      BY <3>1, BatchIdle
    <3>2. CASE pc = "read" /\ UNCHANGED << pc, batch, gaps, pinning >>
      BY <3>2
    <3> QED BY <2>3, <3>1, <3>2 DEF ReadMiss
  <2>4. CASE ReadEnd
    BY <2>4, BatchIdle DEF ReadEnd
  <2>5. CASE ReadFetch
    BY <2>5 DEF ReadFetch, Fetch
  <2>6. CASE ScanBlock
    BY <2>6, BatchScanBlock
  <2>7. CASE ScanEnd
    BY <2>7, BatchScanEnd
  <2>8. CASE RoundOk
    BY <2>8 DEF RoundOk, callVars, Pinned, Unpinned
  <2>9. CASE RoundFail
    BY <2>9, BatchIdle DEF RoundFail
  <2>10. CASE PutGap
    BY <2>10, BatchPutGap
  <2>11. CASE PutWanted
    BY <2>11, BatchPutWanted
  <2>12. CASE PutEnd
    BY <2>12, BatchIdle DEF PutEnd
  <2> QED BY <1>3, <2>1, <2>2, <2>3, <2>4, <2>5, <2>6, <2>7, <2>8, <2>9, <2>10,
             <2>11, <2>12 DEF Steps
<1>4. CASE UNCHANGED vars
  BY <1>4 DEF vars, callVars, Pinned, Unpinned
<1> QED BY <1>2, <1>3, <1>4 DEF FileNext

LEMMA BatchInvariance == FileSpec => []BatchInv
<1>1. FileInit => BatchInv
  BY DEF FileInit, BatchInv, BatchFits, BatchArrives, BatchOnItsWay
<1> QED BY <1>1, FileInvariance, BatchStepPreserves, PTL DEF FileSpec

(* hvFetchBatch cut the batch so that it fits beside the pins already      *)
(* there, and nothing pins in between.                                     *)
THEOREM BatchAlwaysFits == FileSpec => []BatchFits
<1>1. BatchInv => BatchFits
  BY DEF BatchInv
<1> QED BY <1>1, BatchInvariance, PTL

(* A batch larger than the cache is not evicted by its own insertion: each *)
(* of its blocks is pinned or still to come.                               *)
THEOREM BatchAlwaysArrives == FileSpec => []BatchArrives
<1>1. BatchInv => BatchArrives
  BY DEF BatchInv
<1> QED BY <1>1, BatchInvariance, PTL


-----------------------------------------------------------------------------
(***************************************************************************)
(* How far the two loops of hvCacheTrim go.                                *)
(***************************************************************************)
LEMMA BudgetLeaves ==
  ASSUME NEW nl \in Nat, NEW np \in Nat, NEW f \in Nat, NEW e \in {0, 1}
  PROVE  LET m == Smaller(Monus(nl + np + e, Cap), Monus(nl, f))
         IN  /\ nl + np - m + e <= Cap \/ nl - m <= f
             /\ m = 0 \/ nl - m >= f
<1>1. Cap \in Nat
  BY CacheAssumption
<1> DEFINE x == Monus(nl + np + e, Cap)
           y == Monus(nl, f)
<1>2. /\ x \in Nat /\ nl + np - x + e <= Cap
      /\ y \in Nat /\ nl - y <= f
      /\ y = 0 \/ nl - y = f
  BY <1>1 DEF Monus
<1> DEFINE m == Smaller(x, y)
<1>3. /\ m = x \/ m = y
      /\ m \in Nat /\ m <= y
  BY <1>2 DEF Smaller
<1> HIDE DEF x, y, m
<1>4. nl + np - m + e <= Cap \/ nl - m <= f
  BY <1>1, <1>2, <1>3
<1>5. m = 0 \/ nl - m >= f
  BY <1>2, <1>3
<1> QED BY <1>4, <1>5 DEF x, y, m

LEMMA FloorBounds ==
  ASSUME NEW c, NEW forPins \in BOOLEAN
  PROVE  /\ Cap \in Nat /\ Cap >= 1 /\ Cap \div 4 \in Nat
         /\ Floor(c, forPins) \in Nat /\ Floor(c, forPins) <= Cap \div 4
         /\ forPins \/ c.pin # << >> => Floor(c, forPins) = Cap \div 4
         /\ ~forPins /\ c.pin = << >> => Floor(c, forPins) = 0
BY CacheAssumption DEF Floor

LEMMA EvictNone == ASSUME NEW c, InOrder(c) PROVE Evict(c, 0) = c
<1> DEFINE nl == Len(c.lru)
           np == Len(c.pin)
<1>1. nl \in Nat /\ np \in Nat /\ c = [lru |-> c.lru, pin |-> c.pin]
  BY SizeType
<1>2. Smaller(0, nl) = 0 /\ Monus(0, nl) = 0
  <2> HIDE DEF nl
  <2> QED BY <1>1 DEF Smaller, Monus
<1>3. 0 \in 0 .. nl /\ 0 \in 0 .. np
  <2> HIDE DEF nl, np
  <2> QED BY <1>1
<1>4. DropOldest(c.lru, 0) = c.lru /\ DropOldest(c.pin, 0) = c.pin
  BY <1>3, DropProperties DEF InOrder
<1> QED BY <1>1, <1>2, <1>4 DEF Evict

LEMMA ToBudgetLeaves ==
  ASSUME NEW c, InOrder(c), NEW extra \in {0, 1}, NEW forPins \in BOOLEAN
  PROVE  LET d == ToBudget(c, extra, forPins)
         IN  /\ Size(d) + extra <= Cap \/ Len(d.lru) <= Floor(c, forPins)
             /\ d = c \/ Len(d.lru) >= Floor(c, forPins)
<1> DEFINE nl == Len(c.lru)
           np == Len(c.pin)
           n == Size(c)
           f == Floor(c, forPins)
           m == Smaller(Monus(n + extra, Cap), Monus(nl, f))
           d == Evict(c, m)
<1>1. nl \in Nat /\ np \in Nat /\ n \in Nat /\ n = nl + np /\ f \in Nat
  BY SizeType, FloorBounds
<1>2. ToBudget(c, extra, forPins) = d
  BY DEF ToBudget
<1>3. /\ m \in 0 .. n /\ m <= nl
      /\ n - m + extra <= Cap \/ nl - m <= f
      /\ m = 0 \/ nl - m >= f
  <2> HIDE DEF nl, np, n, f
  <2>1. n + extra = nl + np + extra
    BY <1>1
  <2>2. m \in 0 .. nl /\ m \in 0 .. nl + np
    BY <1>1, <2>1, BudgetCount
  <2>3. /\ nl + np - m + extra <= Cap \/ nl - m <= f
        /\ m = 0 \/ nl - m >= f
    BY <1>1, <2>1, BudgetLeaves
  <2> HIDE DEF m
  <2> QED BY <1>1, <2>2, <2>3
<1> HIDE DEF m
<1>4. Size(d) = n - m /\ Len(d.lru) = nl - m
  BY <1>3, EvictProperties
<1>5. m = 0 => d = c
  BY EvictNone
<1> QED BY <1>2, <1>3, <1>4, <1>5

LEMMA ToHardLimitLeaves ==
  ASSUME NEW c, InOrder(c), NEW extra \in {0, 1}
  PROVE  LET d == ToHardLimit(c, extra)
         IN  /\ d = c \/ Size(d) + extra = Hard
             /\ Len(d.lru) <= Len(c.lru)
<1> DEFINE nl == Len(c.lru)
           n == Size(c)
           m == Smaller(Monus(n + extra, Hard), n)
           d == Evict(c, m)
<1>0. Hard \in Nat /\ Hard >= 1
  BY CacheAssumption
<1>1. nl \in Nat /\ n \in Nat /\ Hard \in Nat /\ Hard >= 1
  BY <1>0, SizeType
<1>2. ToHardLimit(c, extra) = d
  BY DEF ToHardLimit
<1>3. m \in 0 .. n /\ (m = 0 \/ n - m + extra = Hard)
  <2> HIDE DEF n
  <2> QED BY <1>1 DEF Smaller, Monus
<1> HIDE DEF m
<1>4. /\ Size(d) = n - m
      /\ m <= nl => Len(d.lru) = nl - m
      /\ m > nl => d.lru = << >>
  BY <1>3, EvictProperties
<1>5. m = 0 => d = c
  BY EvictNone
<1>6. Len(d.lru) <= nl
  <2> DEFINE ml == Len(d.lru)
  <2>1. (m <= nl => ml = nl - m) /\ (m > nl => ml = 0)
    BY <1>4, EmptyList
  <2>2. m \in Nat
    BY <1>3
  <2> HIDE DEF ml, nl, d
  <2>3. ml <= nl
    BY <1>1, <2>1, <2>2
  <2> QED BY <2>3 DEF ml
<1> QED BY <1>2, <1>3, <1>4, <1>5, <1>6

(***************************************************************************)
(* The cache is within its budget, or held above it by its pins.           *)
(***************************************************************************)
InBudget(c) == \/ Size(c) <= Cap
               \/ c.pin # << >> /\ Len(c.lru) <= (Cap \div 4) + 1

LEMMA EmptyOrNot ==
  ASSUME NEW S, NEW s \in Seq(S)
  PROVE  (Len(s) = 0) <=> (s = << >>)
BY EmptySeq

(* A trim leaves room in the budget, or pins and no more than the floor    *)
(* beside them; and it goes below the floor at the hard limit only.        *)
LEMMA TrimLeaves ==
  ASSUME NEW c, InOrder(c), NEW extra \in {0, 1}, NEW forPins \in BOOLEAN
  PROVE  LET d == Trim(c, extra, forPins)
         IN  /\ \/ Size(d) + extra <= Cap
                \/ forPins
                \/ d.pin # << >> /\ Len(d.lru) <= Cap \div 4
             /\ d = c \/ Len(d.lru) >= Floor(c, forPins) \/ Size(d) + extra = Hard
<1> DEFINE b == ToBudget(c, extra, forPins)
           d == ToHardLimit(b, extra)
           f == Floor(c, forPins)
           nb == Size(b)
           nd == Size(d)
           lb == Len(b.lru)
           ld == Len(d.lru)
           pb == Len(b.pin)
           pd == Len(d.pin)
<1>1. /\ InOrder(b) /\ b.pin = c.pin
      /\ nb + extra <= Cap \/ lb <= f
      /\ b = c \/ lb >= f
  BY ToBudgetProperties, ToBudgetLeaves
<1>2. Trim(c, extra, forPins) = d
  BY DEF Trim
<1> HIDE DEF b
<1>3. /\ InOrder(d) /\ nd <= nb
      /\ d.pin = b.pin \/ d.lru = << >>
      /\ d = b \/ nd + extra = Hard
      /\ ld <= lb
  BY <1>1, ToHardLimitProperties, ToHardLimitLeaves
<1> HIDE DEF d
<1>4. /\ nb \in Nat /\ nd \in Nat /\ lb \in Nat /\ ld \in Nat
      /\ pb \in Nat /\ pd \in Nat
      /\ nb = lb + pb /\ nd = ld + pd
  BY <1>1, <1>3, SizeType
<1>5. /\ f \in Nat /\ f <= Cap \div 4 /\ Cap \in Nat /\ Cap >= 1 /\ Cap \div 4 \in Nat
      /\ ~forPins /\ c.pin = << >> => f = 0
  BY FloorBounds
<1>6. /\ (pb = 0) <=> (b.pin = << >>)
      /\ (pd = 0) <=> (d.pin = << >>)
      /\ (ld = 0) <=> (d.lru = << >>)
  BY <1>1, <1>3, SizeType, EmptyOrNot
<1>7. \/ nd + extra <= Cap
      \/ forPins
      \/ d.pin # << >> /\ ld <= Cap \div 4
  <2> SUFFICES ASSUME ~forPins, ~(nd + extra <= Cap)
               PROVE  d.pin # << >> /\ ld <= Cap \div 4
    OBVIOUS
  <2>1. ~(nb + extra <= Cap) /\ lb <= f
    <3> HIDE DEF nb, nd, lb, ld, pb, pd, f
    <3> QED BY <1>1, <1>3, <1>4, <1>5
  <2>2. ld <= Cap \div 4
    <3> DEFINE quarter == Cap \div 4
    <3>1. quarter \in Nat /\ f <= quarter
      BY <1>5
    <3>2. ld <= quarter
      <4> HIDE DEF nb, nd, lb, ld, pb, pd, f, quarter
      <4> QED BY <1>3, <1>4, <1>5, <2>1, <3>1
    <3> QED BY <3>2
  <2>3. d.pin # << >>
    <3> SUFFICES ASSUME d.pin = << >> PROVE FALSE
      OBVIOUS
    <3>1. pd = 0 /\ (pb = 0 \/ ld = 0) /\ (pb = 0 => f = 0)
      BY <1>1, <1>3, <1>5, <1>6
    <3> HIDE DEF nb, nd, lb, ld, pb, pd, f
    <3> QED BY <1>3, <1>4, <1>5, <2>1, <3>1
  <2> QED BY <2>2, <2>3
<1>8. d = c \/ ld >= f \/ nd + extra = Hard
  BY <1>1, <1>3
<1> QED BY <1>2, <1>7, <1>8

-----------------------------------------------------------------------------
(***************************************************************************)
(* A block that was not cached is put into the cache.                      *)
(***************************************************************************)
LEMMA PushLengths ==
  ASSUME NEW c, InOrder(c), NEW k \in Blocks, ~Cached(c, k), NEW pinned \in BOOLEAN
  PROVE  LET d == Push(c, k, pinned)
         IN  /\ InOrder(d)
             /\ Size(d) = Size(c) + 1
             /\ Members(d) = Members(c) \cup {k}
             /\ ToSet(c.pin) \subseteq ToSet(d.pin)
             /\ ToSet(d.lru) \subseteq ToSet(c.lru) \cup {k}
             /\ ~pinned => d.pin = c.pin /\ Len(d.lru) = Len(c.lru) + 1
             /\ Len(d.lru) >= Len(c.lru)
<1> DEFINE d == Push(c, k, pinned)
           nl == Len(c.lru)
           np == Len(c.pin)
           ml == Len(d.lru)
           mp == Len(d.pin)
<1>1. /\ InOrder(d) /\ Size(d) = Size(c) + 1
      /\ pinned  => /\ ToSet(d.pin) = ToSet(c.pin) \cup {k}
                    /\ d.lru = c.lru
      /\ ~pinned => /\ d.pin = c.pin
                    /\ ToSet(d.lru) = ToSet(c.lru) \cup {k}
  BY PushProperties
<1> HIDE DEF d
<1>2. /\ nl \in Nat /\ np \in Nat /\ ml \in Nat /\ mp \in Nat
      /\ Size(c) = nl + np /\ Size(d) = ml + mp
  BY <1>1, SizeType
<1>3. (pinned => ml = nl) /\ (~pinned => mp = np)
  BY <1>1
<1>4. (~pinned => ml = nl + 1) /\ ml >= nl
  <2>1. ml + mp = nl + np + 1
    BY <1>1, <1>2
  <2> HIDE DEF nl, np, ml, mp
  <2> QED BY <1>2, <1>3, <2>1
<1>5. /\ Members(d) = Members(c) \cup {k}
      /\ ToSet(c.pin) \subseteq ToSet(d.pin)
      /\ ToSet(d.lru) \subseteq ToSet(c.lru) \cup {k}
  BY <1>1 DEF Members
<1> QED BY <1>1, <1>4, <1>5 DEF d

LEMMA PutInBudget ==
  ASSUME NEW c, InOrder(c), NEW k \in Blocks, ~Cached(c, k), NEW oom \in BOOLEAN
  PROVE  InBudget(Put(c, k, FALSE, oom))
<1> DEFINE d == Put(c, k, FALSE, oom)
           t == Trim(c, 1, FALSE)
           e == Evict(t, 1)
           q == Cap \div 4
           nt == Size(t)
           nd == Size(d)
           lt == Len(t.lru)
           ld == Len(d.lru)
<1>1. /\ InOrder(t) /\ ToSet(t.pin) \subseteq ToSet(c.pin)
      /\ ToSet(t.lru) \subseteq ToSet(c.lru)
      /\ nt + 1 <= Cap \/ (t.pin # << >> /\ lt <= q)
  BY TrimProperties, TrimLeaves
<1>2. nt \in Nat /\ lt \in Nat /\ Cap \in Nat /\ Cap >= 1 /\ q \in Nat
  BY <1>1, SizeType, FloorBounds, FALSE \in BOOLEAN
<1>3. ~Cached(t, k)
  BY <1>1 DEF Cached
<1> HIDE DEF t, q
<1>4. CASE ~oom
  <2>1. d = Push(t, k, FALSE)
    BY <1>4 DEF Put, t
  <2> HIDE DEF d
  <2>2. nd = nt + 1 /\ d.pin = t.pin /\ ld = lt + 1
    BY <1>1, <1>3, <2>1, PushLengths, FALSE \in BOOLEAN
  <2>3. nd <= Cap \/ (t.pin # << >> /\ ld <= q + 1)
    <3> HIDE DEF nd, nt, lt, ld
    <3> QED BY <1>1, <1>2, <2>2
  <2>4. Size(d) <= Cap \/ (d.pin # << >> /\ Len(d.lru) <= (Cap \div 4) + 1)
    BY <2>2, <2>3 DEF q
  <2> QED BY <2>4 DEF InBudget, d
<1>5. CASE oom /\ nt = 0
  <2>1. d = t
    BY <1>5 DEF Put, t
  <2>2. nd <= Cap
    <3>1. nd = 0
      BY <1>5, <2>1
    <3> HIDE DEF nd
    <3> QED BY <1>2, <3>1
  <2> QED BY <2>2 DEF InBudget
<1>6. CASE oom /\ nt # 0
  <2> DEFINE le == Len(e.lru)
             pe == Len(e.pin)
             ne == Size(e)
  <2>1. d = Push(e, k, FALSE)
    BY <1>6 DEF Put, t
  <2>2. 1 \in 0 .. nt
    <3> HIDE DEF nt
    <3> QED BY <1>2, <1>6
  <2>3. /\ InOrder(e) /\ ne = nt - 1
        /\ ToSet(e.lru) \subseteq ToSet(t.lru) /\ ToSet(e.pin) \subseteq ToSet(t.pin)
        /\ 1 <= lt => e.pin = t.pin /\ le = lt - 1
        /\ 1 > lt => e.lru = << >>
    BY <1>1, <2>2, EvictProperties
  <2>4. ~Cached(e, k)
    BY <1>3, <2>3 DEF Cached
  <2> HIDE DEF d, e
  <2>5. nd = ne + 1 /\ d.pin = e.pin /\ ld = le + 1
    BY <2>1, <2>3, <2>4, PushLengths, FALSE \in BOOLEAN
  <2>6. /\ le \in Nat /\ pe \in Nat /\ ne = le + pe
        /\ (pe = 0) <=> (e.pin = << >>)
        /\ e.lru = << >> => le = 0
    <3>1. /\ le \in Nat /\ pe \in Nat /\ ne = le + pe
          /\ e.pin \in Seq(Blocks)
      BY <2>3, SizeType
    <3>2. (pe = 0) <=> (e.pin = << >>)
      BY <3>1, EmptyOrNot
    <3> QED BY <3>1, <3>2, EmptyList
  <2>7. nd <= Cap \/ (e.pin # << >> /\ ld <= q + 1)
    <3>1. (1 <= lt => le = lt - 1) /\ (1 > lt => le = 0)
      BY <2>3, <2>6
    <3>2. nd = nt - 1 + 1 /\ nd = le + pe + 1
      BY <2>3, <2>5, <2>6
    <3>3. 1 <= lt /\ t.pin # << >> => pe # 0
      BY <2>3, <2>6
    <3> HIDE DEF nd, nt, ne, lt, ld, le, pe
    <3> QED BY <1>1, <1>2, <2>5, <2>6, <3>1, <3>2, <3>3
  <2>8. Size(d) <= Cap \/ (d.pin # << >> /\ Len(d.lru) <= (Cap \div 4) + 1)
    BY <2>5, <2>7 DEF q
  <2> QED BY <2>8 DEF InBudget, d
<1> QED BY <1>4, <1>5, <1>6

(* An unpinned block that goes leaves a full floor or a full cache, as     *)
(* long as something is pinned.                                            *)
LEMMA PutKeepsFloor ==
  ASSUME NEW c, InOrder(c), NEW k \in Blocks, ~Cached(c, k), NEW pinned \in BOOLEAN,
         NEW b \in ToSet(c.lru), b \notin Members(Put(c, k, pinned, FALSE)),
         Put(c, k, pinned, FALSE).pin # << >>
  PROVE  LET d == Put(c, k, pinned, FALSE)
         IN  Len(d.lru) >= Cap \div 4 \/ Size(d) = Hard
<1> DEFINE d == Put(c, k, pinned, FALSE)
           t == Trim(c, 1, pinned)
           nt == Size(t)
           nd == Size(d)
           lt == Len(t.lru)
           ld == Len(d.lru)
           q == Cap \div 4
           f == Floor(c, pinned)
<1>1. /\ InOrder(t) /\ ToSet(t.pin) \subseteq ToSet(c.pin)
      /\ ToSet(t.lru) \subseteq ToSet(c.lru)
      /\ t = c \/ lt >= f \/ nt + 1 = Hard
      /\ t.pin = c.pin \/ t.lru = << >>
  BY TrimProperties, TrimLeaves
<1>2. ~Cached(t, k)
  BY <1>1 DEF Cached
<1>3. d = Push(t, k, pinned)
  BY DEF Put
<1>d. b \notin Members(d) /\ d.pin # << >>
  OBVIOUS
<1> HIDE DEF d, t
<1>4. /\ InOrder(d) /\ nd = nt + 1 /\ ld >= lt /\ Members(d) = Members(t) \cup {k}
      /\ ~pinned => d.pin = t.pin
  BY <1>1, <1>2, <1>3, PushLengths
<1>5. t # c
  BY <1>4, <1>d DEF Members
<1>6. CASE nt + 1 = Hard
  BY <1>4, <1>6 DEF d
<1>7. CASE lt >= f
  <2>1. pinned \/ c.pin # << >>
    <3> SUFFICES ASSUME ~pinned, c.pin = << >> PROVE FALSE
      OBVIOUS
    <3>1. d.pin = t.pin /\ ToSet(t.pin) = {}
      BY <1>1, <1>4, EmptyList
    <3>2. t.pin = << >>
      <4>1. t.pin \in Seq(Blocks)
        BY <1>1, SizeType
      <4>2. t.pin # << >> => t.pin[1] \in ToSet(t.pin)
        BY <4>1, EmptySeq DEF ToSet
      <4> QED BY <3>1, <4>2
    <3> QED BY <1>d, <3>1, <3>2
  <2>2. f = q /\ q \in Nat
    BY <2>1, FloorBounds
  <2>3. ld \in Nat /\ lt \in Nat
    BY <1>1, <1>4, SizeType
  <2>4. ld >= q
    <3> HIDE DEF ld, lt, q, f
    <3> QED BY <1>4, <1>7, <2>2, <2>3
  <2> QED BY <2>4 DEF d
<1> QED BY <1>1, <1>5, <1>6, <1>7

(* A pinned block that goes leaves none of the unpinned ones; without an   *)
(* allocation failure the pins were already at the hard limit.             *)
LEMMA PutKeepsPins ==
  ASSUME NEW c, InOrder(c), NEW k \in Blocks, ~Cached(c, k), NEW pinned \in BOOLEAN,
         NEW oom \in BOOLEAN,
         NEW b \in ToSet(c.pin), b \notin ToSet(Put(c, k, pinned, oom).pin)
  PROVE  /\ ToSet(c.lru) \cap ToSet(Put(c, k, pinned, oom).lru) = {}
         /\ oom \/ Len(c.pin) + 1 > Hard
<1> DEFINE d == Put(c, k, pinned, oom)
           t == Trim(c, 1, pinned)
           e == Evict(t, 1)
           nt == Size(t)
           lt == Len(t.lru)
<1>1. /\ InOrder(t) /\ ToSet(t.pin) \subseteq ToSet(c.pin)
      /\ ToSet(t.lru) \subseteq ToSet(c.lru)
      /\ t.pin = c.pin \/ (t.lru = << >> /\ Len(c.pin) + 1 > Hard)
  BY TrimProperties
<1>2. ~Cached(t, k) /\ k \notin ToSet(c.lru)
  BY <1>1 DEF Cached
<1>3. nt \in Nat /\ lt \in Nat /\ t.lru \in Seq(Blocks)
  BY <1>1, SizeType
<1>d. b \notin ToSet(d.pin)
  OBVIOUS
<1>4. CASE ~oom
  <2>1. d = Push(t, k, pinned)
    BY <1>4 DEF Put
  <2> HIDE DEF d, t
  <2>2. ToSet(t.pin) \subseteq ToSet(d.pin) /\ ToSet(d.lru) \subseteq ToSet(t.lru) \cup {k}
    BY <1>1, <1>2, <2>1, PushLengths
  <2>3. t.lru = << >> /\ Len(c.pin) + 1 > Hard
    BY <1>1, <1>d, <2>2
  <2> QED BY <1>2, <2>2, <2>3, EmptyList DEF d
<1>5. CASE oom /\ nt = 0
  <2>1. d = t
    BY <1>5 DEF Put
  <2> HIDE DEF d, t
  <2>2. t.lru = << >>
    <3>1. nt = lt + Len(t.pin) /\ Len(t.pin) \in Nat
      BY <1>1, SizeType
    <3>2. lt = 0
      <4> DEFINE p == Len(t.pin)
      <4> HIDE DEF nt, lt, p
      <4>1. nt = lt + p /\ p \in Nat
        BY <3>1 DEF p
      <4> QED BY <1>3, <1>5, <4>1
    <3> QED BY <1>3, <3>2, EmptyOrNot
  <2> QED BY <1>5, <2>1, <2>2, EmptyList DEF d
<1>6. CASE oom /\ nt # 0
  <2>1. d = Push(e, k, pinned)
    BY <1>6 DEF Put
  <2>2. 1 \in 0 .. nt
    <3> HIDE DEF nt
    <3> QED BY <1>3, <1>6
  <2> HIDE DEF d, t
  <2>3. /\ InOrder(e)
        /\ ToSet(e.lru) \subseteq ToSet(t.lru) /\ ToSet(e.pin) \subseteq ToSet(t.pin)
        /\ 1 <= lt => e.pin = t.pin
        /\ 1 > lt => e.lru = << >>
    BY <1>1, <2>2, EvictProperties
  <2>4. ~Cached(e, k)
    BY <1>2, <2>3 DEF Cached
  <2> HIDE DEF e
  <2>5. ToSet(e.pin) \subseteq ToSet(d.pin) /\ ToSet(d.lru) \subseteq ToSet(e.lru) \cup {k}
    BY <2>1, <2>3, <2>4, PushLengths
  <2>6. 1 <= lt \/ 1 > lt
    <3> HIDE DEF lt
    <3> QED BY <1>3
  <2>7. ToSet(e.lru) = {}
    <3>1. CASE e.lru = << >>
      BY <3>1, EmptyList
    <3>2. CASE t.lru = << >>
      BY <2>3, <3>2, EmptyList
    <3> QED BY <1>1, <1>d, <2>3, <2>5, <2>6, <3>1, <3>2
  <2> QED BY <1>2, <1>6, <2>5, <2>7 DEF d
<1> QED BY <1>4, <1>5, <1>6

LEMMA PutMembers ==
  ASSUME NEW c, InOrder(c), NEW k \in Blocks, ~Cached(c, k), NEW pinned \in BOOLEAN,
         NEW oom \in BOOLEAN
  PROVE  Members(Put(c, k, pinned, oom)) \subseteq Members(c) \cup {k}
<1> DEFINE d == Put(c, k, pinned, oom)
           t == Trim(c, 1, pinned)
           e == Evict(t, 1)
<1>1. /\ InOrder(t) /\ ToSet(t.pin) \subseteq ToSet(c.pin)
      /\ ToSet(t.lru) \subseteq ToSet(c.lru)
  BY TrimProperties
<1>2. ~Cached(t, k)
  BY <1>1 DEF Cached
<1>3. d = t \/ (~oom /\ d = Push(t, k, pinned)) \/ (Size(t) # 0 /\ d = Push(e, k, pinned))
  BY DEF Put
<1> HIDE DEF d, t
<1>4. CASE d = t
  BY <1>1, <1>4 DEF Members, d
<1>5. CASE d = Push(t, k, pinned)
  <2>1. Members(d) = Members(t) \cup {k}
    BY <1>1, <1>2, <1>5, PushLengths
  <2> QED BY <1>1, <2>1 DEF Members, d
<1>6. CASE Size(t) # 0 /\ d = Push(e, k, pinned)
  <2>1. 1 \in 0 .. Size(t)
    <3> DEFINE nt == Size(t)
    <3>1. nt \in Nat
      BY <1>1, SizeType
    <3> HIDE DEF nt
    <3>2. nt # 0 => 1 \in 0 .. nt
      BY <3>1
    <3> QED BY <1>6, <3>2 DEF nt
  <2>2. /\ InOrder(e)
        /\ ToSet(e.lru) \subseteq ToSet(t.lru) /\ ToSet(e.pin) \subseteq ToSet(t.pin)
    BY <1>1, <2>1, EvictProperties
  <2>3. ~Cached(e, k)
    BY <1>2, <2>2 DEF Cached
  <2> HIDE DEF e
  <2>4. Members(d) = Members(e) \cup {k}
    BY <1>6, <2>2, <2>3, PushLengths
  <2> QED BY <1>1, <2>2, <2>4 DEF Members, d
<1> QED BY <1>3, <1>4, <1>5, <1>6

-----------------------------------------------------------------------------
(***************************************************************************)
(* Demand reads.  A block a read waits for is not cached until its turn    *)
(* comes, so its insertion makes room first; the round is never empty, and *)
(* the last block inserted is a wanted one.                                *)
(***************************************************************************)
ReadInv ==
  /\ pc = "net" => want # {}
  /\ pc \in {"net", "put"} => want \cap gaps = {}
  /\ pc \in {"read", "net", "put"} /\ ~pinning => want \cap Members(cache) = {}
  /\ pc = "put" /\ ~pinning /\ want = {} => gaps = {} /\ InBudget(cache)

LEMMA ReadDone == Return => ReadInv'
BY DEF Return, NoCall, ReadInv

LEMMA BudgetKept ==
  ASSUME NEW c, InOrder(c)
  PROVE  LET d == BackToBudget(c)
         IN  /\ InOrder(d)
             /\ Members(d) \subseteq Members(c)
             /\ InBudget(d)
             /\ d = c \/ d = Trim(c, 0, FALSE)
<1> DEFINE d == BackToBudget(c)
           t == Trim(c, 0, FALSE)
           q == Cap \div 4
<1>0. Size(c) <= Cap <=> ~(Size(c) > Cap)
  <2> DEFINE n == Size(c)
  <2>1. n \in Nat /\ Cap \in Nat
    BY SizeType, CacheAssumption
  <2>2. n <= Cap <=> ~(n > Cap)
    <3> HIDE DEF n
    <3> QED BY <2>1
  <2> QED BY <2>2
<1>1. CASE Size(c) <= Cap
  <2>1. d = c
    BY <1>0, <1>1 DEF BackToBudget
  <2> QED BY <1>1, <2>1 DEF InBudget
<1>2. CASE ~(Size(c) <= Cap)
  <2>1. d = t
    BY <1>0, <1>2 DEF BackToBudget
  <2>2. /\ InOrder(t)
        /\ ToSet(t.pin) \subseteq ToSet(c.pin) /\ ToSet(t.lru) \subseteq ToSet(c.lru)
        /\ Size(t) + 0 <= Cap \/ (t.pin # << >> /\ Len(t.lru) <= q)
    BY TrimProperties, TrimLeaves, FALSE \in BOOLEAN
  <2> HIDE DEF d, t
  <2> DEFINE nt == Size(t)
             lt == Len(t.lru)
  <2>3. nt \in Nat /\ lt \in Nat /\ q \in Nat /\ Cap \in Nat
    BY <2>2, SizeType, FloorBounds, FALSE \in BOOLEAN
  <2>4. nt <= Cap \/ (t.pin # << >> /\ lt <= q + 1)
    <3>1. nt + 0 <= Cap \/ (t.pin # << >> /\ lt <= q)
      BY <2>2
    <3> HIDE DEF nt, lt, q
    <3> QED BY <2>3, <3>1
  <2>5. InBudget(t)
    BY <2>4 DEF InBudget
  <2> QED BY <2>1, <2>2, <2>5 DEF Members, d, t
<1> QED BY <1>1, <1>2

LEMMA NewBlockArrives ==
  ASSUME InOrder(cache), NEW b \in Blocks, NEW pin \in BOOLEAN, CacheBlock(b, pin)
  PROVE  /\ Members(cache') \subseteq Members(cache) \cup {b}
         /\ ~Cached(cache, b) /\ ~pin => InBudget(cache')
<1>1. PICK oom \in MemFails :
        cache' = IF Cached(cache, b) THEN cache ELSE Put(cache, b, pin, oom)
  BY DEF CacheBlock
<1>2. oom \in BOOLEAN
  BY CacheAssumption
<1>3. CASE Cached(cache, b)
  BY <1>1, <1>3
<1>4. CASE ~Cached(cache, b)
  <2>1. cache' = Put(cache, b, pin, oom)
    BY <1>1, <1>4
  <2>2. Members(cache') \subseteq Members(cache) \cup {b}
    BY <1>2, <1>4, <2>1, PutMembers
  <2>3. ~pin => InBudget(cache')
    <3> SUFFICES ASSUME ~pin PROVE InBudget(cache')
      OBVIOUS
    <3>1. pin = FALSE
      OBVIOUS
    <3> QED BY <1>2, <1>4, <2>1, <3>1, PutInBudget
  <2> QED BY <2>2, <2>3
<1> QED BY <1>3, <1>4

LEMMA ReadStepPreserves ==
  FileInv /\ BatchInv /\ ReadInv /\ [FileNext]_vars => ReadInv'
<1> SUFFICES ASSUME FileInv, BatchInv, ReadInv, [FileNext]_vars PROVE ReadInv'
  OBVIOUS
<1>0. /\ InOrder(cache) /\ want \subseteq Blocks /\ gaps \subseteq Blocks
      /\ pinning \in BOOLEAN
  BY DEF FileInv, FileTypeOK, CacheTypeOK
<1>i. ASSUME pc = "idle", UNCHANGED << pc, want, gaps, pinning >> PROVE ReadInv'
  BY <1>i DEF ReadInv
<1>s. ASSUME NEW S, Announce(S) PROVE ReadInv'
  BY <1>s DEF Announce, ReadInv
<1>1. CASE Calls
  <2>1. ASSUME NEW b0 \in Blocks, NEW b1 \in Blocks, ReadStart(b0, b1) PROVE ReadInv'
    <3>1. want' = {} /\ pc' = "read"
      BY <2>1 DEF ReadStart, BatchInv
    <3> QED BY <3>1 DEF ReadInv
  <2>2. ASSUME NEW S \in Batches, Prefetch(S) PROVE ReadInv'
    BY <1>s, <2>2 DEF Prefetch
  <2>3. CASE SpecBegin \/ SpecDiscard
    BY <1>i, <2>3 DEF SpecBegin, SpecDiscard, callVars
  <2>4. CASE SpecEnd
    BY <1>s, <2>4 DEF SpecEnd
  <2>5. CASE Release \/ PragmaReset
    BY <1>i, <2>5 DEF Release, PragmaReset, callVars
  <2>6. ASSUME NEW clear \in BOOLEAN, Reset(clear) PROVE ReadInv'
    BY <1>i, <2>6 DEF Reset, callVars
  <2> QED BY <1>1, <2>1, <2>2, <2>3, <2>4, <2>5, <2>6 DEF Calls
<1>2. CASE Steps
  <2>1. CASE ReadHit
    <3>1. rd.b \in Blocks /\ Members(cache') = Members(cache)
      BY <1>0, <2>1, CachedIsBlock, TouchProperties DEF ReadHit
    <3> QED BY <2>1, <3>1 DEF ReadHit, ReadInv
  <2>2. CASE ReadSpeculate
    <3>1. CASE Return
      BY <3>1, ReadDone
    <3>2. CASE UNCHANGED << pc, want, gaps, pinning, cache >>
      BY <3>2 DEF ReadInv
    <3> QED BY <2>2, <3>1, <3>2 DEF ReadSpeculate
  <2>3. CASE ReadMiss
    <3>1. CASE Return
      BY <3>1, ReadDone
    <3>2. CASE want' = want \cup {rd.b} /\ UNCHANGED << pc, gaps, pinning, cache >>
      <4>1. rd.b \notin Members(cache) /\ pc = "read"
        BY <2>3 DEF ReadMiss, Cached, Members
      <4> QED BY <3>2, <4>1 DEF ReadInv
    <3> QED BY <2>3, <3>1, <3>2 DEF ReadMiss
  <2>4. CASE ReadEnd
    BY <2>4, ReadDone DEF ReadEnd
  <2>5. CASE ReadFetch
    <3> DEFINE W == want \cup IF RaMax = 0 THEN {} ELSE Readahead(cache', rd.b1, ra')
    <3>1. pc = "read" /\ cache' = BackToBudget(cache) /\ Fetch(W, FALSE)
      BY <2>5 DEF ReadFetch
    <3>2. Members(cache') \subseteq Members(cache)
      BY <1>0, <3>1, BudgetKept
    <3>3. want \cap Members(cache) = {}
      BY <3>1 DEF ReadInv, BatchInv
    <3>4. W \cap Members(cache') = {}
      <4>1. \A b \in Readahead(cache', rd.b1, ra') : b \notin Members(cache')
        <5> TAKE b \in Readahead(cache', rd.b1, ra')
        <5>1. b \in rd.b1 + 1 .. b
          BY BlocksAreNat, CacheAssumption DEF Readahead, Blocks, FileInv, FileTypeOK
        <5> QED BY <5>1 DEF Readahead, Cached, Members
      <4> QED BY <3>2, <3>3, <4>1
    <3> HIDE DEF W
    <3>5. pc' = "net" /\ want' = W /\ W # {} /\ gaps' \in Planned(W) /\ pinning' = FALSE
      BY <3>1 DEF Fetch
    <3>6. want' \cap gaps' = {}
      BY <3>5, PlannedAreBlocks
    <3> QED BY <3>4, <3>5, <3>6 DEF ReadInv
  <2>6. CASE ScanBlock
    BY <2>6 DEF ScanBlock, ReadInv
  <2>7. CASE ScanEnd
    <3>1. PICK T : Return \/ Fetch(T, TRUE)
      BY <2>7 DEF ScanEnd
    <3>2. CASE Return
      BY <3>2, ReadDone
    <3>3. CASE Fetch(T, TRUE)
      <4>1. pc' = "net" /\ want' = T /\ T # {} /\ gaps' \in Planned(T) /\ pinning' = TRUE
        BY <3>3 DEF Fetch
      <4>2. want' \cap gaps' = {}
        BY <4>1, PlannedAreBlocks
      <4> QED BY <4>1, <4>2 DEF ReadInv
    <3> QED BY <3>1, <3>2, <3>3
  <2>8. CASE RoundOk
    BY <2>8 DEF RoundOk, callVars, ReadInv
  <2>9. CASE RoundFail
    BY <2>9, ReadDone DEF RoundFail
  <2>10. CASE PutGap
    <3>1. PICK b \in gaps : gaps' = gaps \ {b} /\ CacheBlock(b, FALSE)
      BY <2>10 DEF PutGap
    <3>2. pc = "put" /\ UNCHANGED << pc, want, pinning >>
      BY <2>10 DEF PutGap
    <3>3. Members(cache') \subseteq Members(cache) \cup {b}
      BY <1>0, <3>1, NewBlockArrives, FALSE \in BOOLEAN
    <3> QED BY <3>1, <3>2, <3>3 DEF ReadInv
  <2>11. CASE PutWanted
    <3>1. PICK b \in want : want' = want \ {b} /\ CacheBlock(b, pinning)
      BY <2>11 DEF PutWanted
    <3>2. pc = "put" /\ gaps = {} /\ UNCHANGED << pc, gaps, pinning >>
      BY <2>11 DEF PutWanted
    <3>3. /\ Members(cache') \subseteq Members(cache) \cup {b}
          /\ ~Cached(cache, b) /\ ~pinning => InBudget(cache')
      BY <1>0, <3>1, NewBlockArrives
    <3>4. ~pinning => ~Cached(cache, b) /\ want \cap Members(cache) = {}
      BY <3>1, <3>2 DEF ReadInv, Cached, Members
    <3> QED BY <3>1, <3>2, <3>3, <3>4 DEF ReadInv
  <2>12. CASE PutEnd
    BY <2>12, ReadDone DEF PutEnd
  <2> QED BY <1>2, <2>1, <2>2, <2>3, <2>4, <2>5, <2>6, <2>7, <2>8, <2>9, <2>10,
             <2>11, <2>12 DEF Steps
<1>3. CASE UNCHANGED vars
  BY <1>3 DEF vars, callVars, ReadInv
<1> QED BY <1>1, <1>2, <1>3 DEF FileNext

LEMMA ReadInvariance == FileSpec => []ReadInv
<1>1. FileInit => ReadInv
  BY DEF FileInit, ReadInv
<1> QED BY <1>1, FileInvariance, BatchInvariance, ReadStepPreserves, PTL DEF FileSpec

(* Once a read returns, the cache is within its budget, or what keeps it   *)
(* above is pinned and the unpinned part is down to its floor and the      *)
(* block just read.                                                        *)
THEOREM FileReadEndsInBudget == FileSpec => ReadEndsInBudget
<1> DEFINE Ends == ReadReturns => \/ Size(cache') <= Cap
                                  \/ /\ cache'.pin # << >>
                                     /\ Len(cache'.lru) <= (Cap \div 4) + 1
<1>1. FileInv /\ BatchInv /\ ReadInv /\ [FileNext]_vars => [Ends]_vars
  <2> SUFFICES ASSUME FileInv, ReadInv, FileNext, ReadReturns
               PROVE  InBudget(cache')
    BY DEF InBudget
  <2>0. InOrder(cache)
    BY DEF FileInv, FileTypeOK, CacheTypeOK
  <2>1. CASE Calls
    BY <2>1 DEF Calls, ReadReturns, ReadStart, Prefetch, SpecBegin, SpecEnd, SpecDiscard,
                Release, PragmaReset, Reset
  <2>2. CASE PutEnd
    <3>1. UNCHANGED cache /\ pc = "put" /\ want = {}
      BY <2>2 DEF PutEnd
    <3> QED BY <3>1 DEF ReadReturns, ReadInv
  <2>3. CASE ReadEnd
    BY <2>0, <2>3, BudgetKept DEF ReadEnd
  <2>4. CASE Steps /\ ~PutEnd /\ ~ReadEnd
    <3>1. ~(rd.b <= rd.b1 /\ rd.b > rd.b1)
      <4>1. rd.b \in Nat /\ rd.b1 \in Nat
        <5>1. rd \in [b0 : Blocks, b1 : Blocks, b : 0 .. NumBlocks]
          BY DEF FileInv, FileTypeOK
        <5>2. rd.b \in 0 .. NumBlocks /\ rd.b1 \in Blocks
          BY <5>1
        <5>3. 0 .. NumBlocks \subseteq Nat
          BY BlocksAreNat
        <5>4. Blocks \subseteq Nat
          BY BlocksAreNat
        <5> QED BY ONLY <5>2, <5>3, <5>4
      <4> DEFINE x == rd.b
                 y == rd.b1
      <4> HIDE DEF x, y
      <4>2. x \in Nat /\ y \in Nat => ~(x <= y /\ x > y)
        OBVIOUS
      <4> QED BY <4>1, <4>2 DEF x, y
    <3> QED BY <2>4, <3>1 DEF Steps, ReadReturns, ReadHit, ReadSpeculate, ReadMiss, ReadFetch,
                ScanBlock, ScanEnd, RoundOk, RoundFail, PutGap, PutWanted, Fetch
  <2> QED BY <2>1, <2>2, <2>3, <2>4 DEF FileNext
<1> QED BY <1>1, FileInvariance, BatchInvariance, ReadInvariance, PTL
       DEF FileSpec, ReadEndsInBudget

-----------------------------------------------------------------------------
(***************************************************************************)
(* The floor.                                                              *)
(***************************************************************************)
LEMMA BudgetFloor ==
  ASSUME NEW c, InOrder(c), Size(c) <= Hard
  PROVE  LET d == BackToBudget(c)
         IN  /\ d.pin = c.pin
             /\ (d # c /\ d.pin # << >>) => Len(d.lru) >= Cap \div 4 \/ Size(d) = Hard
<1> DEFINE d == BackToBudget(c)
           q == Cap \div 4
<1>1. d = c \/ d = Trim(c, 0, FALSE)
  BY BudgetKept
<1>2. CASE d = c
  BY <1>2
<1>3. CASE d = Trim(c, 0, FALSE)
  <2> HIDE DEF d
  <2>1. /\ InOrder(d)
        /\ d.pin = c.pin \/ Len(c.pin) + 0 > Hard
        /\ d = c \/ Len(d.lru) >= Floor(c, FALSE) \/ Size(d) + 0 = Hard
    BY <1>3, TrimProperties, TrimLeaves, FALSE \in BOOLEAN
  <2>2. d.pin = c.pin
    <3> DEFINE nl == Len(c.lru)
               np == Len(c.pin)
    <3>1. nl \in Nat /\ np \in Nat /\ nl + np <= Hard /\ Hard \in Nat
      BY SizeType, CacheAssumption
    <3>2. ~(np + 0 > Hard)
      <4> HIDE DEF nl, np
      <4> QED BY <3>1
    <3> QED BY <2>1, <3>2
  <2>3. d.pin # << >> => Floor(c, FALSE) = q
    BY <2>2, FloorBounds, FALSE \in BOOLEAN
  <2>4. Size(d) + 0 = Hard => Size(d) = Hard
    <3> DEFINE nd == Size(d)
    <3>1. nd \in Nat /\ Hard \in Nat
      BY <2>1, SizeType, CacheAssumption
    <3>2. nd + 0 = Hard => nd = Hard
      <4> HIDE DEF nd
      <4> QED BY <3>1
    <3> QED BY <3>2
  <2> QED BY <2>1, <2>2, <2>3, <2>4 DEF d
<1> QED BY <1>1, <1>2, <1>3

LEMMA ReleasedHasNoPins == ASSUME NEW c, InOrder(c) PROVE Released(c).pin = << >>
<1> DEFINE u == UnpinAll(c)
<1>1. InOrder(u) /\ u.pin = << >>
  BY UnpinAllProperties DEF UnpinAll
<1> HIDE DEF u
<1>2. Trim(u, 0, FALSE).pin = u.pin \/ Len(u.pin) + 0 > Hard
  BY <1>1, TrimProperties, FALSE \in BOOLEAN
<1>3. Len(u.pin) = 0
  BY <1>1, EmptyList
<1>4. ~(0 + 0 > Hard)
  BY CacheAssumption
<1> QED BY <1>1, <1>2, <1>3, <1>4 DEF Released, u

(* As long as there are pins, an unpinned block goes from a floor that is  *)
(* not exceeded only when the cache is at its hard limit.                  *)
THEOREM FileFloorKept == FileSpec => FloorKept
<1> DEFINE Kept == \A b \in Unpinned :
              (~Cached(cache', b) /\ cache'.pin # << >> /\ MemFails = {FALSE})
                => Len(cache'.lru) >= Cap \div 4 \/ Size(cache') = Hard
<1>1. FileInv /\ [FileNext]_vars => [Kept]_vars
  <2> SUFFICES ASSUME FileInv, FileNext,
                      NEW b \in Unpinned, ~Cached(cache', b), cache'.pin # << >>,
                      MemFails = {FALSE}
               PROVE  Len(cache'.lru) >= Cap \div 4 \/ Size(cache') = Hard
    OBVIOUS
  <2>0. /\ InOrder(cache) /\ Size(cache) <= Hard
        /\ want \subseteq Blocks /\ gaps \subseteq Blocks /\ pinning \in BOOLEAN
    BY DEF FileInv, FileTypeOK, CacheTypeOK, WithinHard
  <2>1. b \in Members(cache) /\ b \notin Members(cache')
    BY DEF Unpinned, Members, Cached
  <2>2. cache' # cache
    BY <2>1
  <2>3. ASSUME NEW k \in Blocks, NEW pin \in BOOLEAN, CacheBlock(k, pin)
        PROVE  Len(cache'.lru) >= Cap \div 4 \/ Size(cache') = Hard
    <3>1. ~Cached(cache, k) /\ cache' = Put(cache, k, pin, FALSE)
      BY <2>2, <2>3 DEF CacheBlock
    <3>2. b \in ToSet(cache.lru)
      BY DEF Unpinned
    <3> QED BY <2>0, <2>1, <3>1, <3>2, PutKeepsFloor
  <2>4. ASSUME cache' = BackToBudget(cache)
        PROVE  Len(cache'.lru) >= Cap \div 4 \/ Size(cache') = Hard
    BY <2>0, <2>2, <2>4, BudgetFloor
  <2>5. CASE Calls
    <3>u. UnpinAll(cache).pin = << >> /\ EmptyCache.pin = << >>
      BY DEF UnpinAll, EmptyCache
    <3>1. CASE cache' = UnpinAll(cache) \/ cache' = EmptyCache
      BY <3>u, <3>1
    <3>2. CASE cache' = Released(cache)
      BY <2>0, <3>2, ReleasedHasNoPins
    <3> QED BY <2>2, <2>5, <3>1, <3>2 DEF Calls, ReadStart, Prefetch, SpecBegin, SpecEnd,
               SpecDiscard, Release, PragmaReset, Reset, Announce
  <2>6. CASE ReadHit \/ ScanBlock
    <3>1. PICK k : Cached(cache, k) /\ (cache' = Touch(cache, k) \/ cache' = Pin(cache, k))
      BY <2>2, <2>6 DEF ReadHit, ScanBlock
    <3>2. k \in Blocks
      BY <2>0, <3>1, CachedIsBlock
    <3>3. Members(cache') = Members(cache)
      BY <2>0, <3>1, <3>2, TouchProperties, PinProperties
    <3> QED BY <2>1, <3>3
  <2>7. CASE ReadEnd \/ ReadFetch
    BY <2>4, <2>7 DEF ReadEnd, ReadFetch
  <2>8. CASE PutGap \/ PutWanted
    BY <2>0, <2>3, <2>8 DEF PutGap, PutWanted
  <2>9. CASE ReadSpeculate \/ ReadMiss \/ ScanEnd \/ RoundOk \/ RoundFail \/ PutEnd
    BY <2>2, <2>9 DEF ReadSpeculate, ReadMiss, ScanEnd, RoundOk, RoundFail, PutEnd
  <2> QED BY <2>5, <2>6, <2>7, <2>8, <2>9 DEF FileNext, Steps
<1> QED BY <1>1, FileInvariance, PTL DEF FileSpec, FloorKept

-----------------------------------------------------------------------------
(***************************************************************************)
(* The pins.                                                               *)
(***************************************************************************)
(* An insertion that costs a pin leaves no unpinned block; and either      *)
(* memory ran out, or the pins fill the cache to its hard limit.           *)
LEMMA PinLost ==
  ASSUME InOrder(cache), Size(cache) <= Hard,
         NEW k \in Blocks, NEW pin \in BOOLEAN, CacheBlock(k, pin),
         NEW b \in Pinned, b \notin ToSet(cache'.pin)
  PROVE  /\ Unpinned \cap ToSet(cache'.lru) = {}
         /\ Len(cache.pin) = Hard \/ MemFails # {FALSE}
<1>1. PICK oom \in MemFails :
        cache' = IF Cached(cache, k) THEN cache ELSE Put(cache, k, pin, oom)
  BY DEF CacheBlock
<1>2. oom \in BOOLEAN
  BY CacheAssumption
<1>3. ~Cached(cache, k) /\ cache' = Put(cache, k, pin, oom)
  BY <1>1 DEF Pinned
<1>4. b \in ToSet(cache.pin)
  BY DEF Pinned
<1>5. /\ ToSet(cache.lru) \cap ToSet(cache'.lru) = {}
      /\ oom \/ Len(cache.pin) + 1 > Hard
  BY <1>2, <1>3, <1>4, PutKeepsPins
<1>6. Len(cache.pin) + 1 > Hard => Len(cache.pin) = Hard
  <2> DEFINE nl == Len(cache.lru)
             np == Len(cache.pin)
  <2>1. nl \in Nat /\ np \in Nat /\ nl + np <= Hard /\ Hard \in Nat
    BY SizeType, CacheAssumption
  <2>2. np + 1 > Hard => np = Hard
    <3> HIDE DEF nl, np
    <3> QED BY <2>1
  <2> QED BY <2>2
<1> QED BY <1>1, <1>5, <1>6 DEF Unpinned

LEMMA RoomForBatch ==
  ASSUME FileInv, BatchInv, pc = "put", pinning, want # {}
  PROVE  Len(cache.pin) # Hard
<1>0. InOrder(cache) /\ want \subseteq Blocks
  BY DEF FileInv, FileTypeOK, CacheTypeOK
<1> DEFINE np == Len(cache.pin)
           n  == Cardinality(want)
<1>1. PICK w : w \in want
  OBVIOUS
<1>2. np \in Nat /\ n \in Nat /\ n >= 1 /\ Hard \in Nat
  <2>1. np \in Nat
    BY <1>0, SizeType
  <2>2. n \in Nat /\ n >= 1
    BY <1>0, <1>1, SetsOfBlocks, OneLess
  <2> QED BY <2>1, <2>2, CacheAssumption
<1>3. np + n <= Hard
  BY DEF BatchInv, BatchFits
<1>4. np # Hard
  <2> HIDE DEF np, n
  <2> QED BY <1>2, <1>3
<1> QED BY <1>4

(* A pinned block stays pinned until it is read, replaced by the next      *)
(* batch, released or cleared; an insertion takes it only when nothing     *)
(* unpinned is left, at the hard limit or out of memory, and never for the *)
(* sake of a batch.                                                        *)
THEOREM FilePinnedUntilRead == FileSpec => PinnedUntilRead
<1> DEFINE Stays == \A b \in Pinned :
              \/ b \in ToSet(cache'.pin)
              \/ pc = "read" /\ b = rd.b /\ Cached(cache', b)
              \/ Unpins
              \/ /\ pc = "put"
                 /\ Unpinned \cap ToSet(cache'.lru) = {}
                 /\ \/ Len(cache.pin) = Hard /\ ~pinning
                    \/ MemFails # {FALSE}
<1>1. FileInv /\ BatchInv /\ [FileNext]_vars => [Stays]_vars
  <2> SUFFICES ASSUME FileInv, BatchInv, FileNext,
                      NEW b \in Pinned, b \notin ToSet(cache'.pin), ~Unpins
               PROVE  \/ pc = "read" /\ b = rd.b /\ Cached(cache', b)
                      \/ /\ pc = "put"
                         /\ Unpinned \cap ToSet(cache'.lru) = {}
                         /\ \/ Len(cache.pin) = Hard /\ ~pinning
                            \/ MemFails # {FALSE}
    OBVIOUS
  <2>0. /\ InOrder(cache) /\ Size(cache) <= Hard
        /\ want \subseteq Blocks /\ gaps \subseteq Blocks /\ pinning \in BOOLEAN
    BY DEF FileInv, FileTypeOK, CacheTypeOK, WithinHard
  <2>1. b \in ToSet(cache.pin) /\ cache' # cache
    BY DEF Pinned
  <2>2. ASSUME NEW k \in Blocks, NEW pin \in BOOLEAN, CacheBlock(k, pin), pc = "put",
               pinning => want # {}
        PROVE  /\ Unpinned \cap ToSet(cache'.lru) = {}
               /\ \/ Len(cache.pin) = Hard /\ ~pinning
                  \/ MemFails # {FALSE}
    <3>1. /\ Unpinned \cap ToSet(cache'.lru) = {}
          /\ Len(cache.pin) = Hard \/ MemFails # {FALSE}
      BY <2>0, <2>2, PinLost
    <3>2. pinning => Len(cache.pin) # Hard
      BY <2>2, RoomForBatch
    <3> QED BY <3>1, <3>2
  <2>3. CASE Calls
    BY <2>1, <2>3 DEF Calls, ReadStart, Prefetch, SpecBegin, SpecEnd, SpecDiscard,
       Release, PragmaReset, Reset, Announce, Unpins
  <2>4. CASE ReadHit
    <3>1. rd.b \in Blocks /\ cache' = Touch(cache, rd.b) /\ pc = "read"
      BY <2>0, <2>4, CachedIsBlock DEF ReadHit
    <3>2. /\ ToSet(cache'.pin) = ToSet(cache.pin) \ {rd.b}
          /\ Members(cache') = Members(cache)
      BY <2>0, <3>1, TouchProperties
    <3>3. b = rd.b
      BY <2>1, <3>2
    <3>4. Cached(cache', b)
      BY <2>1, <3>2 DEF Members, Cached
    <3> QED BY <3>1, <3>3, <3>4
  <2>5. CASE ScanBlock
    <3>1. PICK k : Cached(cache, k) /\ cache' = Pin(cache, k)
      BY <2>1, <2>5 DEF ScanBlock
    <3>2. k \in Blocks
      BY <2>0, <3>1, CachedIsBlock
    <3> QED BY <2>0, <2>1, <3>1, <3>2, PinProperties
  <2>6. CASE ReadEnd \/ ReadFetch
    <3>1. cache' = BackToBudget(cache)
      BY <2>6 DEF ReadEnd, ReadFetch
    <3> QED BY <2>0, <2>1, <3>1, BudgetFloor
  <2>7. CASE PutGap
    <3>1. PICK k \in gaps : CacheBlock(k, FALSE)
      BY <2>7 DEF PutGap
    <3>2. pc = "put" /\ (pinning => want # {})
      BY <2>7, <3>1 DEF PutGap, BatchInv, BatchOnItsWay
    <3> QED BY <2>0, <2>2, <3>1, <3>2, FALSE \in BOOLEAN
  <2>8. CASE PutWanted
    <3>1. PICK k \in want : CacheBlock(k, pinning)
      BY <2>8 DEF PutWanted
    <3>2. pc = "put"
      BY <2>8 DEF PutWanted
    <3> QED BY <2>0, <2>2, <3>1, <3>2
  <2>9. CASE ReadSpeculate \/ ReadMiss \/ ScanEnd \/ RoundOk \/ RoundFail \/ PutEnd
    BY <2>1, <2>9 DEF ReadSpeculate, ReadMiss, ScanEnd, RoundOk, RoundFail, PutEnd
  <2> QED BY <2>3, <2>4, <2>5, <2>6, <2>7, <2>8, <2>9 DEF FileNext, Steps
<1> QED BY <1>1, FileInvariance, BatchInvariance, PTL DEF FileSpec, PinnedUntilRead

-----------------------------------------------------------------------------
(***************************************************************************)
(* The loop.                                                               *)
(***************************************************************************)
loop == << vars, loopVars >>

LoopTypeOK ==
  /\ lookups \in Workloads
  /\ phase \in {"begin", "pass", "reading", "ending", "done"}
  /\ at \in [lookup : 1 .. Len(lookups) + 1, pos : Nat \ {0}]
  /\ at.lookup <= Len(lookups) => at.pos <= Len(lookups[at.lookup])
  /\ phase = "reading" => at.lookup <= Len(lookups)
  /\ found \in BOOLEAN /\ failed \in BOOLEAN /\ passes \in Nat

LEMMA WorkloadType ==
  ASSUME NEW L \in Workloads
  PROVE  /\ L \in Seq(Seq(Blocks)) /\ Len(L) \in Nat /\ DOMAIN L = 1 .. Len(L)
         /\ \A i \in 1 .. Len(L) : /\ L[i] \in Seq(Blocks) /\ Len(L[i]) \in Nat /\ Len(L[i]) >= 1
                                   /\ DOMAIN L[i] = 1 .. Len(L[i])
                                   /\ \A j \in 1 .. Len(L[i]) : L[i][j] \in Blocks
<1>1. L \in Seq(Seq(Blocks) \ {<< >>})
  BY LoopAssumption
<1>2. Len(L) \in Nat /\ DOMAIN L = 1 .. Len(L)
  BY <1>1
<1>3. \A i \in 1 .. Len(L) : L[i] \in Seq(Blocks) /\ L[i] # << >>
  BY <1>1, <1>2
<1>4. L \in Seq(Seq(Blocks))
  BY <1>1
<1>5. ASSUME NEW s \in Seq(Blocks), s # << >>
      PROVE  /\ Len(s) \in Nat /\ Len(s) >= 1 /\ DOMAIN s = 1 .. Len(s)
             /\ \A j \in 1 .. Len(s) : s[j] \in Blocks
  <2>1. Len(s) \in Nat /\ DOMAIN s = 1 .. Len(s) /\ \A j \in 1 .. Len(s) : s[j] \in Blocks
    OBVIOUS
  <2>2. Len(s) # 0
    BY <1>5, EmptySeq
  <2> QED BY <2>1, <2>2
<1> QED BY <1>2, <1>3, <1>4, <1>5

LEMMA InTurnIsBlock ==
  ASSUME LoopTypeOK, at.lookup <= Len(lookups)
  PROVE  InTurn \in Blocks
<1>1. at.lookup \in 1 .. Len(lookups) /\ at.pos \in 1 .. Len(lookups[at.lookup])
  BY WorkloadType DEF LoopTypeOK
<1> QED BY <1>1, WorkloadType DEF LoopTypeOK, InTurn

(* Where the next read or the next lookup is. *)
LEMMA NextPlace ==
  ASSUME LoopTypeOK, at.lookup <= Len(lookups), NEW a, a \in {Advance, GiveUp}
  PROVE  /\ a \in [lookup : 1 .. Len(lookups) + 1, pos : Nat \ {0}]
         /\ a.lookup <= Len(lookups) => a.pos <= Len(lookups[a.lookup])
<1> DEFINE i == at.lookup
           j == at.pos
<1>1. /\ at = [lookup |-> i, pos |-> j] /\ i \in 1 .. Len(lookups) /\ Len(lookups) \in Nat
      /\ j \in 1 .. Len(lookups[i]) /\ Len(lookups[i]) \in Nat
  BY WorkloadType DEF LoopTypeOK
<1>2. i + 1 <= Len(lookups) => 1 <= Len(lookups[i + 1])
  BY <1>1, WorkloadType DEF LoopTypeOK
<1>3. CASE a = [lookup |-> i + 1, pos |-> 1]
  BY <1>1, <1>2, <1>3
<1>4. CASE a = [at EXCEPT !.pos = @ + 1] /\ j < Len(lookups[i])
  <2>1. a = [lookup |-> i, pos |-> j + 1]
    BY <1>1, <1>4
  <2> QED BY <1>1, <1>4, <2>1
<1> QED BY <1>3, <1>4 DEF Advance, GiveUp

LEMMA FirstPlace ==
  ASSUME NEW L \in Workloads
  PROVE  /\ [lookup |-> 1, pos |-> 1] \in [lookup : 1 .. Len(L) + 1, pos : Nat \ {0}]
         /\ 1 <= Len(L) => 1 <= Len(L[1])
BY WorkloadType

LEMMA LoopInitTypes == LoopInit => LoopTypeOK
<1> SUFFICES ASSUME LoopInit PROVE LoopTypeOK
  OBVIOUS
<1>1. /\ lookups \in Workloads /\ at = [lookup |-> 1, pos |-> 1] /\ phase = "begin"
      /\ found = FALSE /\ failed = FALSE /\ passes = 0
  BY DEF LoopInit
<1>2. /\ at \in [lookup : 1 .. Len(lookups) + 1, pos : Nat \ {0}]
      /\ at.lookup <= Len(lookups) => at.pos <= Len(lookups[at.lookup])
  BY <1>1, FirstPlace
<1> QED BY <1>1, <1>2 DEF LoopTypeOK

LEMMA LoopStepTypes == LoopTypeOK /\ [LoopNext]_loop => LoopTypeOK'
<1> SUFFICES ASSUME LoopTypeOK, [LoopNext]_loop PROVE LoopTypeOK'
  OBVIOUS
<1> USE DEF LoopTypeOK
<1>1. CASE Begin
  BY <1>1, FirstPlace DEF Begin
<1>2. CASE LookupRead
  BY <1>2 DEF LookupRead
<1>3. CASE LookupStep
  BY <1>3, NextPlace DEF LookupStep
<1>4. CASE End
  BY <1>4 DEF End
<1>5. CASE LoopTest
  BY <1>5 DEF LoopTest
<1>6. CASE FileStep
  <2>1. passes' \in Nat
    BY <1>6, BlocksAreNat DEF FileStep, Smaller
  <2>2. found' \in BOOLEAN /\ failed' \in BOOLEAN
    BY <1>6 DEF FileStep
  <2> QED BY <1>6, <2>1, <2>2 DEF FileStep
<1>7. CASE LoopDone \/ UNCHANGED loop
  BY <1>7 DEF LoopDone, loop, loopVars
<1> QED BY <1>1, <1>2, <1>3, <1>4, <1>5, <1>6, <1>7 DEF LoopNext

(* Every step of the loop is a call of the file, a step of it, or leaves   *)
(* it alone.                                                               *)
LEMMA LoopStepOfFile == LoopTypeOK /\ [LoopNext]_loop => [FileNext]_vars
<1> SUFFICES ASSUME LoopTypeOK, [LoopNext]_loop PROVE [FileNext]_vars
  OBVIOUS
<1>1. CASE Begin
  BY <1>1 DEF Begin, FileNext, Calls
<1>2. CASE LookupRead
  <2>1. InTurn \in Blocks /\ ReadStart(InTurn, InTurn)
    BY <1>2, InTurnIsBlock DEF LookupRead
  <2> QED BY <2>1 DEF FileNext, Calls
<1>3. CASE End
  BY <1>3 DEF End, FileNext, Calls
<1>4. CASE FileStep
  BY <1>4 DEF FileStep, FileNext
<1>5. CASE LookupStep \/ LoopTest \/ LoopDone \/ UNCHANGED loop
  BY <1>5 DEF LookupStep, LoopTest, LoopDone, loop
<1> QED BY <1>1, <1>2, <1>3, <1>4, <1>5 DEF LoopNext

LEMMA LoopTypes == LoopSpec => []LoopTypeOK
BY LoopInitTypes, LoopStepTypes, PTL DEF LoopSpec, loop

(* The extension uses the file as FileSpec allows: what holds of every     *)
(* file holds of the file under the loop.                                  *)
THEOREM LoopUsesFile == LoopSpec => FileSpec
<1>1. LoopInit => FileInit
  BY DEF LoopInit
<1> QED BY <1>1, LoopTypes, LoopStepOfFile, PTL DEF LoopSpec, FileSpec, loop

-----------------------------------------------------------------------------
(***************************************************************************)
(* The cache keeps whatever comes, as long as it all fits.                 *)
(***************************************************************************)
Held == Members(cache)

LEMMA ReachIsBlocks ==
  ASSUME NEW w \in Workloads
  PROVE  /\ Reach(w) \subseteq Brought(w) /\ Brought(w) \subseteq Blocks
         /\ 0 \in Reach(w)
         /\ \A i \in 1 .. Len(w) : \A j \in 1 .. Len(w[i]) : w[i][j] \in Reach(w)
         /\ \A b \in Reach(w) : b = 0 \/ \E i \in 1 .. Len(w) : \E j \in 1 .. Len(w[i]) : w[i][j] = b
         /\ \A S \in SUBSET Reach(w) : \A G \in Planned(S) : G \subseteq Brought(w)
<1>1. /\ DOMAIN w = 1 .. Len(w)
      /\ \A i \in 1 .. Len(w) : /\ DOMAIN w[i] = 1 .. Len(w[i])
                                /\ \A j \in 1 .. Len(w[i]) : w[i][j] \in Blocks
  BY WorkloadType
<1>2. \A i \in 1 .. Len(w) : ToSet(w[i]) = {w[i][j] : j \in 1 .. Len(w[i])}
  BY <1>1 DEF ToSet
<1>3. Reach(w) \subseteq Blocks
  BY <1>1, <1>2, BlocksAreNat DEF Reach
<1>4. \A S : \A G \in Planned(S) : G \subseteq Blocks
  BY PlannedAreBlocks
<1>5. Brought(w) \subseteq Blocks
  BY <1>3, <1>4 DEF Brought
<1>6. \A i \in 1 .. Len(w) : \A j \in 1 .. Len(w[i]) : w[i][j] \in Reach(w)
  BY <1>1, <1>2 DEF Reach
<1>7. \A b \in Reach(w) : b = 0 \/ \E i \in 1 .. Len(w) : \E j \in 1 .. Len(w[i]) : w[i][j] = b
  BY <1>1, <1>2 DEF Reach
<1>8. Reach(w) \subseteq Brought(w) /\ 0 \in Reach(w)
  BY DEF Reach, Brought
<1>9. \A S \in SUBSET Reach(w) : \A G \in Planned(S) : G \subseteq Brought(w)
  BY DEF Brought
<1> QED BY <1>5, <1>6, <1>7, <1>8, <1>9

(* A list without duplicates has as many blocks as places. *)
LEMMA ListCount ==
  ASSUME NEW S, NEW s \in Seq(S), NoDup(s)
  PROVE  IsFiniteSet(ToSet(s)) /\ Cardinality(ToSet(s)) = Len(s)
<1> DEFINE n == Len(s)
<1>1. n \in Nat /\ DOMAIN s = 1 .. n /\ s \in [1 .. n -> S]
  OBVIOUS
<1>2. ToSet(s) = {s[i] : i \in 1 .. n}
  BY <1>1 DEF ToSet
<1>3. s \in Bijection(1 .. n, ToSet(s))
  BY <1>1, <1>2 DEF Bijection, Injection, IsInjective, Surjection, NoDup
<1>4. ExistsBijection(1 .. n, ToSet(s))
  BY <1>3 DEF ExistsBijection
<1>5. Cardinality(1 .. n) = n /\ IsFiniteSet(1 .. n)
  BY <1>1, FS_Interval
<1> QED BY <1>4, <1>5, FS_Bijection

LEMMA SizeIsCount ==
  ASSUME NEW c, InOrder(c)
  PROVE  IsFiniteSet(Members(c)) /\ Cardinality(Members(c)) = Size(c)
<1>1. /\ IsFiniteSet(ToSet(c.lru)) /\ Cardinality(ToSet(c.lru)) = Len(c.lru)
      /\ IsFiniteSet(ToSet(c.pin)) /\ Cardinality(ToSet(c.pin)) = Len(c.pin)
  BY ListCount, SizeType DEF InOrder
<1>2. ToSet(c.lru) \cap ToSet(c.pin) = {}
  BY DEF InOrder
<1>3. Cardinality({}) = 0
  BY FS_EmptySet
<1>4. /\ IsFiniteSet(Members(c))
      /\ Cardinality(Members(c)) = Len(c.lru) + Len(c.pin) - Cardinality({})
  BY <1>1, <1>2, FS_Union DEF Members
<1> DEFINE n == Len(c.lru)
           m == Len(c.pin)
<1>5. n \in Nat /\ m \in Nat
  BY SizeType
<1>6. n + m - 0 = n + m
  <2> HIDE DEF n, m
  <2> QED BY <1>5
<1> QED BY <1>3, <1>4, <1>6 DEF Size

(* A cache within its budget, with room for one more block, keeps all.     *)
LEMMA NothingEvicted ==
  ASSUME NEW c, InOrder(c), NEW e \in {0, 1}, NEW p \in BOOLEAN, Size(c) + e <= Cap
  PROVE  Trim(c, e, p) = c
<1>1. Size(c) \in Nat /\ Cap \in Nat /\ Hard \in Nat /\ Cap <= Hard
  BY SizeType, CacheAssumption
<1> DEFINE n == Size(c)
           l == Len(c.lru)
           f == Floor(c, p)
<1>2. l \in Nat /\ f \in Nat
  BY SizeType, FloorBounds
<1>3. Monus(n + e, Cap) = 0 /\ Monus(n + e, Hard) = 0
  <2> HIDE DEF n
  <2>1. n \in Nat /\ n + e <= Cap
    BY <1>1 DEF n
  <2> QED BY <1>1, <2>1 DEF Monus
<1>4. Smaller(0, Monus(l, f)) = 0 /\ Smaller(0, n) = 0
  <2> HIDE DEF n, l, f
  <2>1. n \in Nat
    BY <1>1 DEF n
  <2> QED BY <1>2, <2>1 DEF Monus, Smaller
<1>5. ToBudget(c, e, p) = c
  BY <1>3, <1>4, EvictNone DEF ToBudget
<1> QED BY <1>3, <1>4, <1>5, EvictNone DEF Trim, ToHardLimit

(* While all blocks fit, a block that enters the cache drives out none.    *)
LEMMA BlockFits ==
  ASSUME AllFit, InOrder(cache), lookups \in Workloads, Held \subseteq Brought(lookups),
         NEW b \in Brought(lookups), NEW p \in BOOLEAN, CacheBlock(b, p)
  PROVE  Held' = Held \cup {b}
<1>1. cache' = IF Cached(cache, b) THEN cache ELSE Put(cache, b, p, FALSE)
  BY DEF AllFit, CacheBlock
<1>2. CASE Cached(cache, b)
  BY <1>1, <1>2 DEF Held, Members, Cached
<1>3. CASE ~Cached(cache, b)
  <2>1. b \notin Held /\ b \in Blocks
    BY <1>3, ReachIsBlocks DEF Held, Members, Cached
  <2>2. IsFiniteSet(Brought(lookups)) /\ Cardinality(Brought(lookups)) <= Cap
    BY ReachIsBlocks, SetsOfBlocks DEF AllFit
  <2>3. Held \cup {b} \subseteq Brought(lookups)
    OBVIOUS
  <2>4. IsFiniteSet(Held) /\ Cardinality(Held) = Size(cache)
    BY SizeIsCount DEF Held
  <2>5. Cardinality(Held \cup {b}) = Size(cache) + 1
    BY <2>1, <2>4, FS_AddElement
  <2>6. Cardinality(Held \cup {b}) <= Cardinality(Brought(lookups))
    BY <2>2, <2>3, FS_Subset
  <2>7. Size(cache) + 1 <= Cap
    <3> DEFINE n == Size(cache)
               m == Cardinality(Brought(lookups))
    <3>1. n \in Nat /\ m \in Nat /\ Cap \in Nat
      BY SizeType, CacheAssumption, <2>2, FS_CardinalityType
    <3>2. n + 1 <= m /\ m <= Cap
      BY <2>2, <2>5, <2>6
    <3> HIDE DEF n, m
    <3>3. n + 1 <= Cap
      BY <3>1, <3>2
    <3> QED BY <3>3 DEF n
  <2>8. Trim(cache, 1, p) = cache
    BY <2>7, NothingEvicted
  <2>9. cache' = Push(cache, b, p)
    BY <1>1, <1>3, <2>8 DEF Put
  <2> QED BY <1>3, <2>1, <2>9, PushLengths DEF Held
<1> QED BY <1>2, <1>3

(* Nor does the trim at the end of a read. *)
LEMMA TrimFits ==
  ASSUME AllFit, InOrder(cache), lookups \in Workloads, Held \subseteq Brought(lookups)
  PROVE  BackToBudget(cache) = cache
<1>1. IsFiniteSet(Brought(lookups)) /\ Cardinality(Brought(lookups)) <= Cap
  BY ReachIsBlocks, SetsOfBlocks DEF AllFit
<1>2. Cardinality(Held) = Size(cache) /\ Cardinality(Held) <= Cardinality(Brought(lookups))
  BY <1>1, SizeIsCount, FS_Subset DEF Held
<1> DEFINE n == Size(cache)
           m == Cardinality(Brought(lookups))
<1>3. n \in Nat /\ m \in Nat /\ Cap \in Nat /\ n <= m /\ m <= Cap
  BY SizeType, CacheAssumption, <1>1, <1>2, FS_CardinalityType
<1>4. ~(n > Cap)
  <2> HIDE DEF n, m
  <2> QED BY <1>3
<1> QED BY <1>4 DEF BackToBudget

-----------------------------------------------------------------------------
(***************************************************************************)
(* The invariant.  Only what the lookups may bring is ever cached, and a   *)
(* call that is over leaves nothing behind.                                *)
(***************************************************************************)
Kept ==
  /\ Held \subseteq Brought(lookups) /\ gaps \subseteq Brought(lookups)
  /\ want \subseteq Reach(lookups) /\ scan \subseteq Reach(lookups) /\ spec \subseteq Reach(lookups)
  /\ next_seq # 0 /\ 0 \notin spec

Locals ==
  /\ pc \in {"idle", "read"} => scan = {} /\ gaps = {} /\ ~pinning
  /\ pc = "idle" => want = {}

(* A lookup is excused when its read of block 0 has failed. *)
Excused == failed /\ 0 \in PathBlocks

(* A read in turn finds its block, records it, or fetches block 0.         *)
Met == InTurn \in Held \/ InTurn \in spec \/ Excused

Reading ==
  /\ speculating /\ ~pinning
  /\ pc \in {"idle", "read", "net", "put"}
  /\ pc = "idle" => Met
  /\ pc = "read" => /\ rd.b0 = InTurn /\ rd.b1 = InTurn
                    /\ \/ rd.b = InTurn /\ want = {}
                       \/ rd.b = InTurn + 1 /\ want = {} /\ Met
                       \/ rd.b = InTurn + 1 /\ want = {0} /\ InTurn = 0
  /\ pc \in {"net", "put"} => /\ InTurn = 0 /\ rd.b1 = 0 /\ gaps = {} /\ want \subseteq {0}
                              /\ want = {} => 0 \in Held

(* The round of a pass has something to bring, unless all is there.        *)
AllHeld == PathBlocks \subseteq Held

Ending ==
  /\ ~speculating /\ spec = {}
  /\ pc \in {"idle", "scan", "net", "put"}
  /\ pc = "scan" => /\ cache.pin = << >> /\ ~pinning
                    /\ (scan \cup want) \cap Held = {}
                    /\ scan \cup want = {} => failed \/ AllHeld
  /\ pc \in {"net", "put"} => pinning /\ scan = {}
  /\ pc = "idle" => found \/ failed \/ AllHeld

InPhase ==
  /\ phase \in {"begin", "pass", "done"} => pc = "idle"
  /\ phase = "pass" => speculating
  /\ phase = "reading" => Reading
  /\ phase = "ending" => Ending
  /\ phase = "done" => failed \/ AllHeld

(* A lookup that is over went on to its end or to a recorded block.        *)
Stopped(i) ==
  \/ Excused
  \/ \E n \in 1 .. Len(lookups[i]) + 1 :
       /\ \A j \in 1 .. n - 1 : lookups[i][j] \in Held
       /\ n = Len(lookups[i]) + 1 \/ lookups[i][n] \in spec

Followed ==
  phase \in {"pass", "reading"} =>
    /\ spec \cap Held = {}
    /\ \A i \in 1 .. at.lookup - 1 : Stopped(i)
    /\ at.lookup <= Len(lookups) =>
         \A j \in 1 .. at.pos - 1 : lookups[at.lookup][j] \in Held

(* Each pass makes every path one block longer. *)
Upto(n, S) ==
  \A i \in 1 .. Len(lookups) : \A j \in 1 .. Len(lookups[i]) : j <= n => lookups[i][j] \in S

Levels ==
  ~Excused =>
    /\ Upto(passes, Held) /\ passes <= Longest
    /\ phase = "ending" /\ pc # "idle" =>
         /\ Upto(passes + 1, Held \cup scan \cup want)
         /\ pc # "scan" \/ scan \cup want # {} => passes + 1 <= Longest

LoopInv == Kept /\ Locals /\ InPhase /\ Followed /\ Levels

LEMMA LongestIsUpper ==
  ASSUME lookups \in Workloads
  PROVE  /\ Longest \in Nat
         /\ \A i \in 1 .. Len(lookups) : Len(lookups[i]) <= Longest
         /\ Longest = 0 \/ \E i \in DOMAIN lookups : Longest = Len(lookups[i])
<1> DEFINE n == Len(lookups)
           T == {0} \cup {Len(lookups[i]) : i \in DOMAIN lookups}
           S == {k \in 0 .. n : \E m \in T : \A i \in 1 .. k : Len(lookups[i]) <= m}
<1>1. /\ n \in Nat /\ DOMAIN lookups = 1 .. n
      /\ \A i \in 1 .. n : Len(lookups[i]) \in Nat /\ Len(lookups[i]) \in T
      /\ T \subseteq Nat /\ 0 \in T
  BY WorkloadType
<1> HIDE DEF n, T
<1>2. 0 \in S
  BY <1>1
<1>3. ASSUME NEW k \in 1 .. n, k - 1 \in S PROVE k \in S
  <2>1. PICK m \in T : \A i \in 1 .. k - 1 : Len(lookups[i]) <= m
    BY <1>3
  <2> DEFINE l == Len(lookups[k])
  <2>2. l \in T /\ l \in Nat /\ m \in Nat
    BY <1>1
  <2>3. \A i \in 1 .. k : i = k \/ i \in 1 .. k - 1
    BY <1>1
  <2>4. CASE l <= m
    BY <2>1, <2>3, <2>4
  <2>5. CASE m <= l
    <3>1. ASSUME NEW i \in 1 .. k - 1 PROVE Len(lookups[i]) <= l
      <4>1. Len(lookups[i]) \in Nat /\ Len(lookups[i]) <= m
        BY <1>1, <2>1
      <4> HIDE DEF l
      <4> QED BY <2>2, <2>5, <4>1
    <3> QED BY <2>2, <2>3, <3>1
  <2> QED BY <2>2, <2>4, <2>5
<1> HIDE DEF S
<1>4. n \in S
  <2>1. n \in Nat /\ n \in 0 .. n
    BY <1>1
  <2> QED BY <1>2, <1>3, <2>1, UpTo
<1>5. \E m \in T : \A i \in DOMAIN lookups : Len(lookups[i]) <= m
  BY <1>1, <1>4 DEF S
<1>6. Longest \in T /\ \A i \in DOMAIN lookups : Len(lookups[i]) <= Longest
  BY <1>5 DEF Longest, T
<1>7. Longest = 0 \/ \E i \in DOMAIN lookups : Longest = Len(lookups[i])
  BY <1>6 DEF T
<1> QED BY <1>1, <1>6, <1>7 DEF n

(* What the lookups read, by their places. *)
LEMMA PathsByPlace ==
  ASSUME lookups \in Workloads
  PROVE  /\ \A i \in 1 .. Len(lookups) : \A j \in 1 .. Len(lookups[i]) : lookups[i][j] \in PathBlocks
         /\ \A b \in PathBlocks : \E i \in 1 .. Len(lookups) : \E j \in 1 .. Len(lookups[i]) : lookups[i][j] = b
         /\ Reach(lookups) = {0} \cup PathBlocks
<1>1. /\ DOMAIN lookups = 1 .. Len(lookups)
      /\ \A i \in 1 .. Len(lookups) : DOMAIN lookups[i] = 1 .. Len(lookups[i])
  BY WorkloadType
<1>2. \A i \in 1 .. Len(lookups) : ToSet(lookups[i]) = {lookups[i][j] : j \in 1 .. Len(lookups[i])}
  BY <1>1 DEF ToSet
<1> QED BY <1>1, <1>2 DEF PathBlocks, Reach

LEMMA LoopInitSatisfies == LoopInit => LoopInv
<1> SUFFICES ASSUME LoopInit PROVE LoopInv
  OBVIOUS
<1>1. /\ lookups \in Workloads /\ phase = "begin" /\ failed = FALSE /\ passes = 0
      /\ pc = "idle" /\ spec = {} /\ scan = {} /\ want = {} /\ gaps = {} /\ pinning = FALSE
      /\ next_seq = -1 /\ CacheInit
  BY DEF LoopInit, FileInit
<1>2. Held \subseteq {0}
  <2>1. ToSet(<< 0 >>) = {0} /\ ToSet(<< >>) = {}
    BY DEF ToSet
  <2> QED BY <1>1, <2>1 DEF CacheInit, EmptyCache, Held, Members
<1>3. Held \subseteq Brought(lookups)
  BY <1>1, <1>2, ReachIsBlocks
<1>4. 0 <= Longest
  BY <1>1, LongestIsUpper
<1>5. Upto(0, Held)
  BY DEF Upto
<1>6. Kept /\ Locals /\ InPhase /\ Followed
  BY <1>1, <1>3 DEF Kept, Locals, InPhase, Followed
<1> QED BY <1>1, <1>4, <1>5, <1>6 DEF LoopInv, Levels

(* Reads of a pass only add to what is held and recorded. *)
LEMMA ReadingKeeps ==
  ASSUME LoopTypeOK, LoopInv, phase = "reading", UNCHANGED << lookups, phase, at, passes >>,
         Held \subseteq Held', spec \subseteq spec', failed => failed',
         spec' \cap Held' = {}, Kept', Locals', Reading'
  PROVE  LoopInv'
<1>1. Excused => Excused'
  BY DEF Excused, PathBlocks
<1>2. \A i : Stopped(i) => Stopped(i)'
  BY <1>1 DEF Stopped
<1>3. Followed'
  BY <1>2 DEF LoopInv, Followed
<1>4. Longest' = Longest
  BY DEF Longest
<1>5. Levels'
  BY <1>1, <1>4 DEF LoopInv, Levels, Upto
<1>6. InPhase'
  BY DEF InPhase
<1> QED BY <1>3, <1>5, <1>6 DEF LoopInv

(* The round of a pass only adds to what is held. *)
LEMMA EndingKeeps ==
  ASSUME LoopTypeOK, LoopInv, phase = "ending", UNCHANGED << lookups, phase, passes >>,
         Held \subseteq Held', failed => failed', pc # "idle",
         Held \cup scan \cup want \subseteq Held' \cup scan' \cup want' \/ pc' = "idle",
         pc' = "scan" => pc = "scan" /\ scan' \cup want' = scan \cup want,
         pc' \in {"net", "put"} => pc # "scan" \/ scan \cup want # {},
         Kept', Locals', Ending'
  PROVE  LoopInv'
<1>1. Excused => Excused'
  BY DEF Excused, PathBlocks
<1>2. Longest' = Longest
  BY DEF Longest
<1>3. ASSUME ~Excused' PROVE Upto(passes, Held)' /\ (passes <= Longest)'
  BY <1>1, <1>2, <1>3 DEF LoopInv, Levels, Upto
<1>4. ASSUME ~Excused', pc' # "idle"
      PROVE  /\ Upto(passes + 1, Held \cup scan \cup want)'
             /\ (pc # "scan" \/ scan \cup want # {} => passes + 1 <= Longest)'
  <2>1. pc' \in {"scan", "net", "put"}
    BY <1>4 DEF Ending
  <2>2. /\ Upto(passes + 1, Held \cup scan \cup want)
        /\ pc # "scan" \/ scan \cup want # {} => passes + 1 <= Longest
    BY <1>1, <1>4 DEF LoopInv, Levels
  <2>3. Upto(passes + 1, Held \cup scan \cup want)'
    BY <1>4, <2>2 DEF Upto
  <2> QED BY <1>2, <2>1, <2>2, <2>3
<1>5. Levels'
  BY <1>3, <1>4 DEF Levels
<1>6. InPhase' /\ Followed'
  BY DEF InPhase, Followed
<1> QED BY <1>5, <1>6 DEF LoopInv

-----------------------------------------------------------------------------
(***************************************************************************)
(* The steps of the file under a read of a pass.                           *)
(***************************************************************************)
LEMMA ReadPosition ==
  ASSUME LoopTypeOK, at.lookup <= Len(lookups)
  PROVE  /\ InTurn \in Nat /\ InTurn \in Reach(lookups) /\ InTurn \in PathBlocks
         /\ ~(InTurn + 1 <= InTurn) /\ InTurn <= InTurn /\ InTurn + 1 > InTurn
<1>1. at.lookup \in 1 .. Len(lookups) /\ at.pos \in 1 .. Len(lookups[at.lookup])
  BY WorkloadType DEF LoopTypeOK
<1>2. InTurn \in Nat
  BY InTurnIsBlock, BlocksAreNat
<1>3. InTurn \in PathBlocks
  BY <1>1, PathsByPlace DEF InTurn, LoopTypeOK
<1>4. InTurn \in Reach(lookups)
  BY <1>3, PathsByPlace DEF LoopTypeOK
<1>5. \A k \in Nat : ~(k + 1 <= k) /\ k <= k /\ k + 1 > k
  OBVIOUS
<1> QED BY <1>2, <1>3, <1>4, <1>5

(* Only block 0 is fetched on its own: nothing lies between, and no read   *)
(* before it ends there, so there is no readahead.                         *)
LEMMA FirstBlockAlone ==
  ASSUME next_seq # 0, rd.b0 = 0, rd.b1 = 0, NEW c
  PROVE  /\ \A G \in Planned({0}) : G = {}
         /\ RaMax # 0 => Readahead(c, rd.b1, NextRa) = {}
<1>1. Inside({0}) = {}
  BY BlocksAreNat DEF Inside, Blocks
<1>2. \A G \in Planned({0}) : G \subseteq Inside({0})
  BY DEF Planned, Coalesced
<1>3. RaMax # 0 => NextRa = 0
  BY DEF NextRa
<1>4. Readahead(c, 0, 0) = {}
  <2>1. ASSUME NEW b \in Blocks PROVE ~(0 < b /\ b <= 0 + 0)
    BY BlocksAreNat
  <2> QED BY <2>1 DEF Readahead
<1> QED BY <1>1, <1>2, <1>3, <1>4

LEMMA ReadingStep ==
  ASSUME AllFit, FileInv, LoopTypeOK, LoopInv, phase = "reading", FileStep
  PROVE  LoopInv'
<1>0. /\ InOrder(cache) /\ CacheTypeOK /\ rd.b \in Int
      /\ at.lookup <= Len(lookups) /\ lookups \in Workloads
      /\ Kept /\ Locals /\ Reading /\ Followed /\ Levels
  BY DEF FileInv, FileTypeOK, CacheTypeOK, LoopTypeOK, LoopInv, InPhase
<1>1. /\ InTurn \in Nat /\ InTurn \in Reach(lookups) /\ InTurn \in PathBlocks
      /\ ~(InTurn + 1 <= InTurn) /\ InTurn <= InTurn /\ InTurn + 1 > InTurn
  BY <1>0, ReadPosition
<1>2. /\ UNCHANGED << lookups, phase, at >> /\ InTurn' = InTurn /\ PathBlocks' = PathBlocks
      /\ UNCHANGED passes
      /\ failed => failed'
      /\ Reach(lookups)' = Reach(lookups)
  BY <1>0 DEF FileStep, InTurn, PathBlocks, Reading
<1>3. Brought(lookups)' = Brought(lookups)
  BY <1>2 DEF Brought, Reach, Planned, Coalesced, Hole, Inside, RangesOf
<1>4. spec \cap Held = {}
  BY <1>0 DEF Followed
<1>5. Excused => Excused'
  BY <1>2 DEF Excused
<1>6. TRUE \notin MemFails
  BY DEF AllFit
<1>7. Held \subseteq Brought(lookups) /\ 0 \in Brought(lookups)
  BY <1>0, ReachIsBlocks DEF Kept
<1>8. \A k : Follow(k + 1) # 0 \/ k \notin Nat
  BY DEF Follow
<1> USE DEF Kept, Locals, Reading
<1>a. CASE ReadHit
  <2>1. cache' = Touch(cache, rd.b) /\ rd.b = InTurn /\ rd.b \in Held /\ want = {}
    BY <1>a, <1>0, <1>1 DEF ReadHit, Held, Members, Cached
  <2>2. Held' = Held
    BY <2>1, <1>0, InTurnIsBlock, TouchProperties DEF Held
  <2>3. rd' = [rd EXCEPT !.b = @ + 1] /\ UNCHANGED << pc, scan, batch, want, gaps, pinning, fileVars >>
    BY <1>a DEF ReadHit
  <2>4. rd'.b0 = InTurn /\ rd'.b1 = InTurn /\ rd'.b = InTurn + 1 /\ pc = "read"
    BY <1>a, <1>0, <2>1, <2>3 DEF ReadHit, FileInv, FileTypeOK
  <2>5. Met'
    BY <1>2, <2>1, <2>2 DEF Met
  <2>6. Kept' /\ Locals' /\ Reading'
    BY <1>0, <1>2, <1>3, <2>1, <2>2, <2>3, <2>4, <2>5 DEF fileVars
  <2> QED BY <1>2, <1>4, <2>2, <2>3, <2>6, ReadingKeeps DEF fileVars
<1>b. CASE ReadSpeculate
  <2>1. /\ rd.b = InTurn /\ rd.b \notin Held /\ want = {} /\ rd.b > 0 /\ pc = "read"
        /\ spec' = spec \cup {rd.b} /\ rd' = [rd EXCEPT !.b = @ + 1]
        /\ UNCHANGED << cache, pc, scan, batch, want, gaps, pinning, speculating, next_seq >>
    BY <1>b, <1>0, <1>1, <1>6 DEF ReadSpeculate, Held, Members, Cached
  <2>2. Held' = Held
    BY <2>1 DEF Held
  <2>4. rd'.b0 = InTurn /\ rd'.b1 = InTurn /\ rd'.b = InTurn + 1
    BY <1>0, <2>1 DEF FileInv, FileTypeOK
  <2>5. Met'
    BY <1>2, <2>1 DEF Met
  <2>6. Kept' /\ Locals' /\ Reading'
    BY <1>0, <1>1, <1>2, <1>3, <2>1, <2>2, <2>4, <2>5
  <2> QED BY <1>2, <1>4, <2>1, <2>2, <2>6, ReadingKeeps
<1>c. CASE ReadMiss
  <2>0. rd.b = InTurn /\ want = {} /\ rd.b = 0 /\ pc = "read"
    <3>1. pc = "read" /\ rd.b <= rd.b1 /\ ~(speculating /\ rd.b > 0)
      BY <1>c DEF ReadMiss
    <3>2. rd.b = InTurn /\ want = {}
      BY <3>1, <1>0, <1>1
    <3>3. ~(InTurn > 0)
      BY <3>1, <3>2, <1>0
    <3> QED BY <3>1, <3>2, <3>3, <1>1
  <2>1. /\ want' = want \cup {rd.b} /\ rd' = [rd EXCEPT !.b = @ + 1]
        /\ UNCHANGED << cache, pc, scan, batch, gaps, pinning, fileVars >>
    BY <1>c, <1>6 DEF ReadMiss
  <2>2. Held' = Held
    BY <2>1 DEF Held
  <2>4. rd'.b0 = InTurn /\ rd'.b1 = InTurn /\ rd'.b = InTurn + 1
    BY <1>0, <2>0, <2>1 DEF FileInv, FileTypeOK
  <2>6. Kept' /\ Locals' /\ Reading'
    BY <1>0, <1>1, <1>2, <1>3, <2>0, <2>1, <2>2, <2>4 DEF fileVars
  <2> QED BY <1>2, <1>4, <2>1, <2>2, <2>6, ReadingKeeps DEF fileVars
<1>d. CASE ReadEnd
  <2>1. /\ pc = "read" /\ want = {} /\ rd.b = InTurn + 1 /\ Met /\ rd.b1 = InTurn
        /\ cache' = cache /\ next_seq' = Follow(InTurn + 1) /\ Return
        /\ UNCHANGED << speculating, spec >>
    BY <1>d, <1>0, <1>1, <1>7, TrimFits DEF ReadEnd
  <2>2. Held' = Held
    BY <2>1 DEF Held
  <2>3. next_seq' # 0
    BY <2>1, <1>1, <1>8
  <2>5. Met'
    BY <1>2, <1>5, <2>1, <2>2 DEF Met
  <2>6. Kept' /\ Locals' /\ Reading'
    BY <1>0, <1>1, <1>2, <1>3, <2>1, <2>2, <2>3, <2>5 DEF Return, NoCall
  <2> QED BY <1>2, <1>4, <2>1, <2>2, <2>6, ReadingKeeps
<1>e. CASE ReadFetch
  <2>1. /\ pc = "read" /\ want = {0} /\ InTurn = 0 /\ rd.b0 = 0 /\ rd.b1 = 0
        /\ cache' = cache /\ ra' = NextRa
        /\ Fetch(want \cup IF RaMax = 0 THEN {} ELSE Readahead(cache', rd.b1, ra'), FALSE)
        /\ UNCHANGED << rd, scan, batch, speculating, spec, next_seq >>
    BY <1>e, <1>0, <1>1, <1>7, TrimFits DEF ReadFetch
  <2>2. RaMax # 0 => Readahead(cache', rd.b1, ra') = {}
    BY <2>1, <1>0, FirstBlockAlone
  <2>3. Fetch({0}, FALSE)
    <3>1. {0} \cup (IF RaMax = 0 THEN {} ELSE Readahead(cache', rd.b1, ra')) = {0}
      BY <2>2
    <3> QED BY <2>1, <3>1
  <2>4. pc' = "net" /\ want' = {0} /\ gaps' = {} /\ ~pinning'
    BY <2>1, <2>3, <1>0, FirstBlockAlone DEF Fetch
  <2>5. Held' = Held
    BY <2>1 DEF Held
  <2>6. Kept' /\ Locals' /\ Reading'
    BY <1>0, <1>2, <1>3, <2>1, <2>4, <2>5
  <2> QED BY <1>2, <1>4, <2>1, <2>5, <2>6, ReadingKeeps
<1>f. CASE RoundOk
  <2>1. pc = "net" /\ pc' = "put" /\ UNCHANGED << cache, callVars, fileVars >>
    BY <1>f DEF RoundOk
  <2>5. Held' = Held
    BY <2>1 DEF Held
  <2>6. Kept' /\ Locals' /\ Reading'
    BY <1>0, <1>2, <1>3, <2>1, <2>5 DEF callVars, fileVars
  <2> QED BY <1>2, <1>4, <2>1, <2>5, <2>6, ReadingKeeps DEF callVars, fileVars
<1>g. CASE RoundFail
  <2>1. pc = "net" /\ Return /\ UNCHANGED << cache, fileVars >> /\ InTurn = 0
    BY <1>g, <1>0 DEF RoundFail
  <2>2. failed' /\ Excused'
    BY <2>1, <1>1, <1>2 DEF FileStep, Return, Excused
  <2>5. Held' = Held
    BY <2>1 DEF Held
  <2>6. Kept' /\ Locals' /\ Reading'
    BY <1>0, <1>2, <1>3, <2>1, <2>2, <2>5 DEF Return, NoCall, Met, fileVars
  <2> QED BY <1>2, <1>4, <2>1, <2>5, <2>6, ReadingKeeps DEF fileVars
<1>h. CASE PutGap
  BY <1>h, <1>0 DEF PutGap
<1>i. CASE PutWanted
  <2>1. /\ pc = "put" /\ want = {0} /\ want' = {} /\ CacheBlock(0, pinning)
        /\ UNCHANGED << pc, rd, scan, batch, gaps, pinning, fileVars >>
    BY <1>i, <1>0 DEF PutWanted
  <2>2. Held' = Held \cup {0}
    BY <1>0, <1>7, <2>1, BlockFits DEF FileInv, FileTypeOK
  <2>6. Kept' /\ Locals' /\ Reading'
    BY <1>0, <1>2, <1>3, <1>7, <2>1, <2>2 DEF fileVars
  <2>7. spec' \cap Held' = {}
    BY <1>0, <1>4, <2>1, <2>2 DEF fileVars
  <2> QED BY <1>2, <2>1, <2>2, <2>6, <2>7, ReadingKeeps DEF fileVars
<1>j. CASE PutEnd
  <2>1. /\ pc = "put" /\ want = {} /\ next_seq' = Follow(rd.b1 + 1) /\ Return
        /\ UNCHANGED << cache, speculating, spec >>
    BY <1>j, <1>0 DEF PutEnd
  <2>2. next_seq' # 0
    BY <2>1, <1>0, <1>8
  <2>5. Held' = Held
    BY <2>1 DEF Held
  <2>6. Met'
    BY <1>0, <1>2, <2>1, <2>5 DEF Met
  <2>7. Kept' /\ Locals' /\ Reading'
    BY <1>0, <1>2, <1>3, <2>1, <2>2, <2>5, <2>6 DEF Return, NoCall
  <2> QED BY <1>2, <1>4, <2>1, <2>5, <2>7, ReadingKeeps
<1>k. CASE ScanBlock \/ ScanEnd
  BY <1>k, <1>0 DEF ScanBlock, ScanEnd
<1> QED BY <1>a, <1>b, <1>c, <1>d, <1>e, <1>f, <1>g, <1>h, <1>i, <1>j, <1>k DEF FileStep, Steps

-----------------------------------------------------------------------------
(***************************************************************************)
(* The steps of the file under the round of a pass.                        *)
(***************************************************************************)
(* There is room for the whole batch: nothing is pinned beside it.         *)
LEMMA BatchWhole ==
  ASSUME AllFit, lookups \in Workloads, want \subseteq Reach(lookups), cache.pin = << >>,
         NEW T, FirstOf(T, want, Room)
  PROVE  T = want
<1>1. /\ IsFiniteSet(Brought(lookups)) /\ Cardinality(Brought(lookups)) <= Cap
      /\ want \subseteq Brought(lookups)
  BY ReachIsBlocks, SetsOfBlocks DEF AllFit
<1>2. IsFiniteSet(want) /\ Cardinality(want) <= Cardinality(Brought(lookups))
  BY <1>1, FS_Subset
<1>3. Room = Hard - 0
  BY EmptyList DEF Room
<1> DEFINE k == Cardinality(want)
           m == Cardinality(Brought(lookups))
<1>4. /\ k \in Nat /\ m \in Nat /\ k <= m /\ m <= Cap
      /\ Cap \in Nat /\ Hard \in Nat /\ Cap <= Hard
  BY <1>1, <1>2, FS_CardinalityType, CacheAssumption
<1>5. Smaller(Hard - 0, k) = k
  <2> HIDE DEF k, m
  <2>1. k <= Hard /\ Hard - 0 = Hard
    BY <1>4
  <2>2. Hard <= k => Hard = k
    BY <1>4, <2>1
  <2> QED BY <2>1, <2>2 DEF Smaller
<1>6. T \subseteq want /\ Cardinality(T) = k
  BY <1>3, <1>5 DEF FirstOf
<1> QED BY <1>2, <1>6, FS_Subset

LEMMA EndingStep ==
  ASSUME AllFit, FileInv, LoopTypeOK, LoopInv, phase = "ending", FileStep
  PROVE  LoopInv'
<1>0. /\ InOrder(cache) /\ CacheTypeOK /\ pinning \in BOOLEAN /\ lookups \in Workloads
      /\ Kept /\ Locals /\ Ending /\ Levels
  BY DEF FileInv, FileTypeOK, CacheTypeOK, LoopTypeOK, LoopInv, InPhase
<1>1. /\ UNCHANGED << lookups, phase, at >> /\ PathBlocks' = PathBlocks
      /\ failed => failed'
      /\ found => found'
      /\ Reach(lookups)' = Reach(lookups)
  BY <1>0 DEF FileStep, PathBlocks
<1>2. Brought(lookups)' = Brought(lookups)
  BY <1>1 DEF Brought, Reach, Planned, Coalesced, Hole, Inside, RangesOf
<1>3. AllHeld /\ Held \subseteq Held' => AllHeld'
  BY <1>1 DEF AllHeld
<1>4. TRUE \notin MemFails
  BY DEF AllFit
<1>5. pc # "put" \/ pc' # "idle" => UNCHANGED passes
  BY DEF FileStep
<1> USE DEF Kept, Locals, Ending
<1>a. CASE ScanBlock
  <2>1. PICK b \in scan :
          /\ scan' = scan \ {b}
          /\ \/ b \notin Blocks /\ UNCHANGED << cache, batch, want >>
             \/ /\ Cached(cache, b)
                /\ cache' = Pin(cache, b)
                /\ batch' = batch \cup {b}
                /\ UNCHANGED want
             \/ /\ b \in Blocks /\ ~Cached(cache, b)
                /\ want' = want \cup {b}
                /\ UNCHANGED << cache, batch >>
    BY <1>a DEF ScanBlock
  <2>2. pc = "scan" /\ UNCHANGED << pc, rd, gaps, pinning, fileVars >>
    BY <1>a DEF ScanBlock
  <2>3. b \in Blocks /\ b \notin Held
    BY <1>0, <2>2, ReachIsBlocks
  <2>4. want' = want \cup {b} /\ UNCHANGED cache
    BY <2>1, <2>3 DEF Held, Members, Cached
  <2>5. Held' = Held
    BY <2>4 DEF Held
  <2>6. scan' \cup want' = scan \cup want
    BY <2>1, <2>4
  <2>7. Kept' /\ Locals' /\ Ending'
    BY <1>0, <1>1, <1>2, <1>3, <2>1, <2>2, <2>4, <2>5, <2>6 DEF fileVars
  <2> QED BY <1>1, <1>5, <2>2, <2>5, <2>6, <2>7, EndingKeeps
<1>b. CASE ScanEnd
  <2>1. PICK T \in SUBSET want :
          /\ FirstOf(T, want, Room)
          /\ IF T = {} THEN Return
             ELSE /\ Fetch(T, TRUE)
                  /\ batch' = batch \cup T
                  /\ UNCHANGED << rd, scan >>
    BY <1>b DEF ScanEnd
  <2>2. pc = "scan" /\ scan = {} /\ UNCHANGED << cache, fileVars >>
    BY <1>b DEF ScanEnd
  <2>3. T = want
    BY <1>0, <2>1, <2>2, BatchWhole
  <2>4. Held' = Held
    BY <2>2 DEF Held
  <2>5. CASE want = {}
    <3>1. Return /\ (failed \/ AllHeld)
      BY <1>0, <2>1, <2>2, <2>3, <2>5
    <3>2. Kept' /\ Locals' /\ Ending' /\ pc' = "idle"
      BY <1>0, <1>1, <1>2, <1>3, <2>2, <2>4, <3>1 DEF Return, NoCall, fileVars
    <3> QED BY <1>1, <1>5, <2>2, <2>4, <3>2, EndingKeeps
  <2>6. CASE want # {}
    <3>1. /\ pc' = "net" /\ want' = want /\ gaps' \in Planned(want) /\ pinning' = TRUE
          /\ scan' = scan
      BY <2>1, <2>3, <2>6 DEF Fetch
    <3>2. gaps' \subseteq Brought(lookups)
      BY <1>0, <3>1, ReachIsBlocks
    <3>3. Kept' /\ Locals' /\ Ending'
      BY <1>0, <1>1, <1>2, <2>2, <2>4, <3>1, <3>2 DEF fileVars
    <3> QED BY <1>1, <1>5, <2>2, <2>4, <2>6, <3>1, <3>3, EndingKeeps
  <2> QED BY <2>5, <2>6
<1>c. CASE RoundOk
  <2>1. pc = "net" /\ pc' = "put" /\ UNCHANGED << cache, callVars, fileVars >>
    BY <1>c DEF RoundOk
  <2>2. Held' = Held
    BY <2>1 DEF Held
  <2>3. Kept' /\ Locals' /\ Ending'
    BY <1>0, <1>1, <1>2, <2>1, <2>2 DEF callVars, fileVars
  <2> QED BY <1>1, <1>5, <2>1, <2>2, <2>3, EndingKeeps DEF callVars
<1>d. CASE RoundFail
  <2>1. pc = "net" /\ pc' = "idle" /\ Return /\ UNCHANGED << cache, fileVars >>
    BY <1>d DEF RoundFail, Return
  <2>2. failed'
    BY <2>1 DEF FileStep
  <2>3. Held' = Held
    BY <2>1 DEF Held
  <2>4. Kept' /\ Locals' /\ Ending'
    BY <1>0, <1>1, <1>2, <2>1, <2>2, <2>3 DEF Return, NoCall, fileVars
  <2> QED BY <1>1, <1>5, <2>1, <2>3, <2>4, EndingKeeps
<1>e. CASE PutGap
  <2>1. PICK b \in gaps : gaps' = gaps \ {b} /\ CacheBlock(b, FALSE)
    BY <1>e DEF PutGap
  <2>2. pc = "put" /\ UNCHANGED << pc, rd, scan, batch, want, pinning, fileVars >>
    BY <1>e DEF PutGap
  <2>3. Held' = Held \cup {b}
    BY <1>0, <2>1, BlockFits
  <2>4. Kept' /\ Locals' /\ Ending'
    BY <1>0, <1>1, <1>2, <2>1, <2>2, <2>3 DEF fileVars
  <2> QED BY <1>1, <1>5, <2>2, <2>3, <2>4, EndingKeeps
<1>f. CASE PutWanted
  <2>1. PICK b \in want : want' = want \ {b} /\ CacheBlock(b, pinning)
    BY <1>f DEF PutWanted
  <2>2. pc = "put" /\ UNCHANGED << pc, rd, scan, batch, gaps, pinning, fileVars >>
    BY <1>f DEF PutWanted
  <2>3. b \in Brought(lookups)
    BY <1>0, ReachIsBlocks
  <2>4. Held' = Held \cup {b}
    BY <1>0, <2>1, <2>3, BlockFits
  <2>5. Kept' /\ Locals' /\ Ending'
    BY <1>0, <1>1, <1>2, <2>1, <2>2, <2>3, <2>4 DEF fileVars
  <2> QED BY <1>1, <1>5, <2>1, <2>2, <2>4, <2>5, EndingKeeps
<1>g. CASE PutEnd
  <2>1. /\ pc = "put" /\ want = {} /\ scan = {} /\ pinning /\ pc' = "idle" /\ Return
        /\ next_seq' = next_seq /\ UNCHANGED << cache, speculating, spec >>
    BY <1>g, <1>0 DEF PutEnd, Return
  <2>2. Held' = Held
    BY <2>1 DEF Held
  <2>3. found' /\ passes' = Smaller(passes + 1, NumBlocks * NumBlocks)
    BY <2>1 DEF FileStep
  <2>4. passes \in Nat /\ passes' \in Nat /\ passes' <= passes + 1
    BY <2>3, BlocksAreNat DEF LoopTypeOK, Smaller
  <2>5. Kept' /\ Locals' /\ Ending'
    BY <1>0, <1>1, <1>2, <2>1, <2>2, <2>3 DEF Return, NoCall
  <2>6. Excused => Excused'
    BY <1>1 DEF Excused
  <2>7. ASSUME ~Excused' PROVE Upto(passes, Held)' /\ (passes <= Longest)'
    <3>1. Upto(passes + 1, Held \cup scan \cup want) /\ passes + 1 <= Longest
      BY <1>0, <2>1, <2>6, <2>7 DEF Levels
    <3>2. Held \cup scan \cup want = Held'
      BY <2>1, <2>2
    <3>3. ASSUME NEW i \in 1 .. Len(lookups), NEW j \in 1 .. Len(lookups[i]), j <= passes'
          PROVE  lookups[i][j] \in Held'
      <4>1. j \in Nat
        BY <1>0, WorkloadType
      <4>2. j <= passes + 1
        BY <2>4, <3>3, <4>1
      <4> QED BY <3>1, <3>2, <4>2 DEF Upto
    <3>4. Longest' = Longest /\ Longest \in Nat
      BY <1>0, <1>1, LongestIsUpper DEF Longest
    <3>5. passes' <= Longest'
      BY <2>4, <3>1, <3>4
    <3> QED BY <1>1, <3>3, <3>5 DEF Upto
  <2>8. Levels'
    BY <2>1, <2>7 DEF Levels
  <2>9. InPhase' /\ Followed'
    BY <1>1, <2>5 DEF InPhase, Followed
  <2> QED BY <2>5, <2>8, <2>9 DEF LoopInv
<1>h. CASE ReadHit \/ ReadSpeculate \/ ReadMiss \/ ReadEnd \/ ReadFetch
  BY <1>h, <1>0 DEF ReadHit, ReadSpeculate, ReadMiss, ReadEnd, ReadFetch
<1> QED BY <1>a, <1>b, <1>c, <1>d, <1>e, <1>f, <1>g, <1>h DEF FileStep, Steps

-----------------------------------------------------------------------------
(***************************************************************************)
(* The steps of the extension.                                             *)
(***************************************************************************)
LEMMA BeginKeeps == ASSUME LoopTypeOK, LoopInv, Begin PROVE LoopInv'
<1>1. /\ phase = "begin" /\ phase' = "pass" /\ at' = [lookup |-> 1, pos |-> 1]
      /\ spec' = {} /\ speculating' = TRUE
      /\ UNCHANGED << cache, pc, callVars, next_seq, lookups, found, failed, passes >>
  BY DEF Begin, SpecBegin
<1>2. Held' = Held /\ PathBlocks' = PathBlocks /\ Longest' = Longest /\ pc = "idle"
  BY <1>1 DEF Held, PathBlocks, Longest, LoopInv, InPhase
<1>3. Reach(lookups)' = Reach(lookups)
  BY <1>1 DEF Reach
<1>4. Brought(lookups)' = Brought(lookups)
  BY <1>1 DEF Brought, Reach, Planned, Coalesced, Hole, Inside, RangesOf
<1>5. Kept' /\ Locals' /\ InPhase'
  BY <1>1, <1>2, <1>3, <1>4 DEF LoopInv, Kept, Locals, InPhase, callVars
<1>6. Followed'
  BY <1>1 DEF Followed
<1>7. Levels'
  BY <1>1, <1>2 DEF LoopInv, Levels, Excused, Upto
<1> QED BY <1>5, <1>6, <1>7 DEF LoopInv

LEMMA LookupReadKeeps == ASSUME LoopTypeOK, LoopInv, LookupRead PROVE LoopInv'
<1>1. /\ phase = "pass" /\ phase' = "reading" /\ at.lookup <= Len(lookups)
      /\ pc' = "read" /\ rd' = [b0 |-> InTurn, b1 |-> InTurn, b |-> InTurn]
      /\ UNCHANGED << cache, scan, batch, want, gaps, pinning, fileVars >>
      /\ UNCHANGED << lookups, at, found, failed, passes >>
  BY DEF LookupRead, ReadStart
<1>2. /\ Held' = Held /\ PathBlocks' = PathBlocks /\ Longest' = Longest /\ InTurn' = InTurn
      /\ pc = "idle" /\ speculating
  BY <1>1 DEF Held, PathBlocks, Longest, InTurn, LoopInv, InPhase
<1>3. Reach(lookups)' = Reach(lookups)
  BY <1>1 DEF Reach
<1>4. Brought(lookups)' = Brought(lookups)
  BY <1>1 DEF Brought, Reach, Planned, Coalesced, Hole, Inside, RangesOf
<1>5. Kept' /\ Locals'
  BY <1>1, <1>2, <1>3, <1>4 DEF LoopInv, Kept, Locals, fileVars
<1>6. Reading'
  BY <1>1, <1>2 DEF LoopInv, Locals, Reading, fileVars
<1>7. InPhase'
  BY <1>1, <1>6 DEF InPhase
<1>8. Excused' = Excused
  BY <1>1, <1>2 DEF Excused
<1>9. Followed'
  BY <1>1, <1>2, <1>8 DEF LoopInv, Followed, Stopped, fileVars
<1>10. Levels'
  BY <1>1, <1>2, <1>8 DEF LoopInv, Levels, Upto
<1> QED BY <1>5, <1>7, <1>9, <1>10 DEF LoopInv

(* A lookup goes on, or is over: at its end, or at a recorded block.       *)
LEMMA LookupStepKeeps == ASSUME LoopTypeOK, LoopInv, LookupStep PROVE LoopInv'
<1>1. /\ phase = "reading" /\ phase' = "pass" /\ pc = "idle"
      /\ at' = IF InTurn \in Held THEN Advance ELSE GiveUp
      /\ UNCHANGED << vars, lookups, found, failed, passes >>
  BY DEF LookupStep, Held, Members, Cached
<1>2. /\ Held' = Held /\ PathBlocks' = PathBlocks /\ Longest' = Longest
      /\ UNCHANGED << pc, callVars, fileVars >> /\ speculating /\ Met
      /\ at.lookup <= Len(lookups) /\ lookups \in Workloads
  BY <1>1 DEF Held, PathBlocks, Longest, vars, LoopInv, InPhase, Reading, LoopTypeOK
<1>3. Reach(lookups)' = Reach(lookups)
  BY <1>1 DEF Reach
<1>4. Brought(lookups)' = Brought(lookups)
  BY <1>1 DEF Brought, Reach, Planned, Coalesced, Hole, Inside, RangesOf
<1>5. Kept' /\ Locals' /\ InPhase'
  BY <1>1, <1>2, <1>3, <1>4 DEF LoopInv, Kept, Locals, InPhase, callVars, fileVars
<1>6. Excused' = Excused
  BY <1>1, <1>2 DEF Excused
<1>7. Levels'
  BY <1>1, <1>2, <1>6 DEF LoopInv, Levels, Upto
<1> DEFINE i == at.lookup
           j == at.pos
<1>8. /\ at = [lookup |-> i, pos |-> j] /\ i \in 1 .. Len(lookups) /\ Len(lookups) \in Nat
      /\ j \in 1 .. Len(lookups[i]) /\ Len(lookups[i]) \in Nat
  BY <1>2, WorkloadType DEF LoopTypeOK
<1>9. /\ spec \cap Held = {} /\ spec' = spec
      /\ \A k \in 1 .. i - 1 : Stopped(k)
      /\ \A k \in 1 .. j - 1 : lookups[i][k] \in Held
  BY <1>1, <1>2 DEF LoopInv, Followed, fileVars
<1>10. \A k : Stopped(k) => Stopped(k)'
  BY <1>1, <1>2, <1>6, <1>9 DEF Stopped
<1>11. CASE InTurn \in Held /\ j < Len(lookups[i])
  <2>1. at' = [lookup |-> i, pos |-> j + 1]
    BY <1>1, <1>8, <1>11 DEF Advance
  <2>2. ASSUME NEW k \in 1 .. j PROVE lookups[i][k] \in Held
    <3>1. k = j \/ k \in 1 .. j - 1
      BY <1>8
    <3> QED BY <1>9, <1>11, <3>1 DEF InTurn
  <2>3. (j + 1) - 1 = j
    BY <1>8
  <2> QED BY <1>1, <1>2, <1>5, <1>7, <1>9, <1>10, <2>1, <2>2, <2>3 DEF LoopInv, Followed
<1>12. CASE ~(InTurn \in Held /\ j < Len(lookups[i]))
  <2>1. at' = [lookup |-> i + 1, pos |-> 1]
    BY <1>1, <1>8, <1>12 DEF Advance, GiveUp
  <2>2. Stopped(i)
    <3>1. CASE InTurn \in Held
      <4>1. j = Len(lookups[i])
        BY <1>8, <1>12, <3>1
      <4>2. \A k \in 1 .. (j + 1) - 1 : k = j \/ k \in 1 .. j - 1
        BY <1>8
      <4>3. \A k \in 1 .. (j + 1) - 1 : lookups[i][k] \in Held
        BY <1>9, <3>1, <4>2 DEF InTurn
      <4>4. j + 1 \in 1 .. Len(lookups[i]) + 1
        BY <1>8
      <4> QED BY <4>1, <4>3, <4>4 DEF Stopped
    <3>2. CASE InTurn \in spec
      <4>1. j \in 1 .. Len(lookups[i]) + 1
        BY <1>8
      <4> QED BY <1>9, <3>2, <4>1 DEF Stopped, InTurn
    <3>3. CASE Excused
      BY <3>3 DEF Stopped
    <3> QED BY <1>2, <3>1, <3>2, <3>3 DEF Met
  <2>3. \A k \in 1 .. (i + 1) - 1 : k = i \/ k \in 1 .. i - 1
    BY <1>8
  <2>4. \A k \in 1 .. (i + 1) - 1 : Stopped(k)'
    BY <1>9, <1>10, <2>2, <2>3
  <2> QED BY <1>1, <1>2, <1>5, <1>7, <1>9, <2>1, <2>4 DEF LoopInv, Followed
<1> QED BY <1>11, <1>12

(* What a pass has recorded is the next block of each path that is not     *)
(* held as a whole.                                                        *)
LEMMA EndKeeps == ASSUME FileInv, LoopTypeOK, LoopInv, End PROVE LoopInv'
<1>1. /\ phase = "pass" /\ phase' = "ending" /\ at.lookup > Len(lookups) /\ found' = FALSE
      /\ cache' = UnpinAll(cache) /\ pc' = "scan" /\ scan' = spec /\ spec' = {}
      /\ speculating' = FALSE
      /\ UNCHANGED << rd, batch, want, gaps, pinning, next_seq, lookups, at, failed, passes >>
  BY DEF End, SpecEnd, Announce
<1>2. Held' = Held /\ cache'.pin = << >>
  BY <1>1, UnpinAllProperties DEF Held, UnpinAll, FileInv, FileTypeOK, CacheTypeOK
<1>3. /\ PathBlocks' = PathBlocks /\ Longest' = Longest /\ pc = "idle" /\ want = {} /\ ~pinning
      /\ lookups \in Workloads /\ passes \in Nat
  BY <1>1 DEF PathBlocks, Longest, LoopInv, InPhase, Locals, LoopTypeOK
<1>4. Reach(lookups)' = Reach(lookups)
  BY <1>1 DEF Reach
<1>5. Brought(lookups)' = Brought(lookups)
  BY <1>1 DEF Brought, Reach, Planned, Coalesced, Hole, Inside, RangesOf
<1>6. Kept' /\ Locals'
  BY <1>1, <1>2, <1>3, <1>4, <1>5 DEF LoopInv, Kept, Locals
<1>7. Excused' = Excused
  BY <1>1, <1>3 DEF Excused
<1>8. /\ spec \cap Held = {}
      /\ \A i \in 1 .. Len(lookups) : Stopped(i)
  <2>1. Len(lookups) \in Nat /\ at.lookup - 1 = Len(lookups)
    BY <1>1, <1>3, WorkloadType DEF LoopTypeOK
  <2> QED BY <1>1, <2>1 DEF LoopInv, Followed
<1>9. ASSUME ~Excused, NEW i \in 1 .. Len(lookups), NEW j \in 1 .. Len(lookups[i]),
             j <= passes + 1
      PROVE  lookups[i][j] \in Held \cup spec
  <2>1. PICK n \in 1 .. Len(lookups[i]) + 1 :
          /\ \A k \in 1 .. n - 1 : lookups[i][k] \in Held
          /\ n = Len(lookups[i]) + 1 \/ lookups[i][n] \in spec
    BY <1>8, <1>9 DEF Stopped
  <2>2. n \in Nat /\ j \in Nat /\ Len(lookups[i]) \in Nat
    BY <1>3, WorkloadType
  <2>3. CASE j < n
    <3>1. j \in 1 .. n - 1
      BY <2>2, <2>3
    <3> QED BY <2>1, <3>1
  <2>4. CASE j >= n
    <3>1. n # Len(lookups[i]) + 1 /\ n \in 1 .. Len(lookups[i])
      BY <2>2, <2>4
    <3>2. lookups[i][n] \notin Held
      BY <1>8, <2>1, <3>1
    <3>3. ~(n <= passes)
      BY <1>9, <3>1, <3>2 DEF LoopInv, Levels, Upto
    <3>4. j = n
      BY <1>3, <1>9, <2>2, <2>4, <3>3
    <3> QED BY <2>1, <3>1, <3>4
  <2> QED BY <2>2, <2>3, <2>4
<1>10. spec = {} => failed \/ AllHeld
  <2> SUFFICES ASSUME spec = {}, ~failed, NEW b \in PathBlocks PROVE b \in Held
    BY DEF AllHeld
  <2>1. PICK i \in 1 .. Len(lookups) : \E j \in 1 .. Len(lookups[i]) : lookups[i][j] = b
    BY <1>3, PathsByPlace
  <2>1a. PICK j \in 1 .. Len(lookups[i]) : lookups[i][j] = b
    BY <2>1
  <2>2. PICK n \in 1 .. Len(lookups[i]) + 1 :
          /\ \A k \in 1 .. n - 1 : lookups[i][k] \in Held
          /\ n = Len(lookups[i]) + 1
    BY <1>8 DEF Stopped, Excused
  <2>3. Len(lookups[i]) \in Nat
    BY <1>3, WorkloadType
  <2>4. j \in 1 .. n - 1
    BY <2>2, <2>3
  <2> QED BY <2>1a, <2>2, <2>4
<1>11. Ending'
  <2>1. AllHeld' = AllHeld
    BY <1>2, <1>3 DEF AllHeld
  <2> QED BY <1>1, <1>2, <1>3, <1>8, <1>10, <2>1 DEF Ending
<1>12. InPhase' /\ Followed'
  BY <1>1, <1>11 DEF InPhase, Followed
<1>13. ASSUME ~Excused, spec # {} PROVE passes + 1 <= Longest
  <2>1. PICK b \in spec : b \in PathBlocks /\ b \notin Held
    BY <1>3, <1>8, <1>13, PathsByPlace DEF LoopInv, Kept
  <2>2. PICK i \in 1 .. Len(lookups) : \E j \in 1 .. Len(lookups[i]) : lookups[i][j] = b
    BY <1>3, <2>1, PathsByPlace
  <2>2a. PICK j \in 1 .. Len(lookups[i]) : lookups[i][j] = b
    BY <2>2
  <2>3. ~(j <= passes)
    BY <1>13, <2>1, <2>2a DEF LoopInv, Levels, Upto
  <2>4. Len(lookups[i]) \in Nat /\ Longest \in Nat /\ Len(lookups[i]) <= Longest
    BY <1>3, WorkloadType, LongestIsUpper
  <2> DEFINE m == Len(lookups[i])
             l == Longest
  <2>5. j \in 1 .. m /\ m \in Nat /\ l \in Nat /\ m <= l
    BY <2>4
  <2> HIDE DEF m, l
  <2>6. passes + 1 <= l
    BY <1>3, <2>3, <2>5
  <2> QED BY <2>6 DEF l
<1>14. Levels'
  <2>1. ASSUME ~Excused PROVE Upto(passes + 1, Held \cup scan \cup want)'
    BY <1>1, <1>2, <1>3, <1>9, <2>1 DEF Upto
  <2>2. ASSUME ~Excused PROVE Upto(passes, Held)' /\ (passes <= Longest)'
    BY <1>1, <1>2, <1>3, <2>2 DEF LoopInv, Levels, Upto
  <2>3. ASSUME ~Excused PROVE (scan \cup want # {} => passes + 1 <= Longest)'
    BY <1>1, <1>3, <1>13, <2>3
  <2> QED BY <1>1, <1>7, <2>1, <2>2, <2>3 DEF Levels
<1> QED BY <1>6, <1>12, <1>14 DEF LoopInv

(* The loop ends when a pass brings nothing: the cap is not reached before *)
(* every path is held, unless a lookup had to come back to block 0.        *)
LEMMA LoopTestKeeps == ASSUME AllFit, LoopTypeOK, LoopInv, LoopTest PROVE LoopInv'
<1>1. /\ phase = "ending" /\ pc = "idle"
      /\ phase' = IF Again(found) THEN "begin" ELSE "done"
      /\ UNCHANGED << vars, lookups, at, found, failed, passes >>
  BY DEF LoopTest
<1>2. /\ Held' = Held /\ PathBlocks' = PathBlocks /\ Longest' = Longest
      /\ UNCHANGED << pc, callVars, fileVars >>
  BY <1>1 DEF Held, PathBlocks, Longest, vars
<1>3. Brought(lookups)' = Brought(lookups) /\ Reach(lookups)' = Reach(lookups)
  BY <1>1 DEF Brought, Reach, Planned, Coalesced, Hole, Inside, RangesOf
<1>4. Kept' /\ Locals'
  BY <1>1, <1>2, <1>3 DEF LoopInv, Kept, Locals, callVars, fileVars
<1>5. ~found => failed \/ AllHeld
  BY <1>1 DEF LoopInv, InPhase, Ending
<1>6. phase' \in {"begin", "done"} /\ (phase' = "done" => ~found \/ failed)
  <2> SUFFICES ASSUME phase' = "done", found, ~failed PROVE FALSE
    BY <1>1
  <2>1. MaxPasses > 0 /\ ~(passes < MaxPasses)
    BY <1>1 DEF Again
  <2>2. passes <= Longest /\ passes \in Nat /\ lookups \in Workloads /\ MaxPasses \in Nat
    BY LoopAssumption DEF LoopInv, Levels, Excused, LoopTypeOK
  <2>3. Longest \in Nat /\ Longest < MaxPasses
    BY <2>1, <2>2, LongestIsUpper DEF AllFit
  <2> DEFINE l == Longest
  <2>4. l \in Nat /\ passes <= l /\ l < MaxPasses
    BY <2>2, <2>3
  <2> HIDE DEF l
  <2> QED BY <2>1, <2>2, <2>4
<1>7. InPhase' /\ Followed'
  BY <1>1, <1>2, <1>5, <1>6 DEF InPhase, Followed, AllHeld
<1>8. Levels'
  BY <1>1, <1>2, <1>6 DEF LoopInv, Levels, Upto, Excused
<1> QED BY <1>4, <1>7, <1>8 DEF LoopInv

LEMMA StillKeeps == ASSUME LoopInv, UNCHANGED loop PROVE LoopInv'
<1>1. UNCHANGED << cache, pc, callVars, fileVars, lookups, phase, at, found, failed, passes >>
  BY DEF loop, loopVars, vars
<1>2. /\ Held' = Held /\ PathBlocks' = PathBlocks /\ Longest' = Longest /\ InTurn' = InTurn
      /\ Reach(lookups)' = Reach(lookups)
  BY <1>1 DEF Held, PathBlocks, Longest, InTurn, Reach
<1>3. Brought(lookups)' = Brought(lookups)
  BY <1>1 DEF Brought, Reach, Planned, Coalesced, Hole, Inside, RangesOf
<1>4. Excused' = Excused /\ AllHeld' = AllHeld /\ Met' = Met
  BY <1>1, <1>2 DEF Excused, AllHeld, Met, fileVars
<1>5. Kept' /\ Locals'
  BY <1>1, <1>2, <1>3 DEF LoopInv, Kept, Locals, callVars, fileVars
<1>6. InPhase'
  BY <1>1, <1>2, <1>4 DEF LoopInv, InPhase, Reading, Ending, callVars, fileVars
<1>7. Followed' /\ Levels'
  BY <1>1, <1>2, <1>4 DEF LoopInv, Followed, Stopped, Levels, Upto, callVars, fileVars
<1> QED BY <1>5, <1>6, <1>7 DEF LoopInv

LEMMA LoopStepKeeps ==
  ASSUME AllFit, FileInv, LoopTypeOK, LoopInv, [LoopNext]_loop
  PROVE  LoopInv'
<1>1. CASE FileStep
  <2>1. pc # "idle"
    BY <1>1 DEF FileStep, Steps, ReadHit, ReadSpeculate, ReadMiss, ReadEnd, ReadFetch,
                ScanBlock, ScanEnd, RoundOk, RoundFail, PutGap, PutWanted, PutEnd
  <2>2. phase \in {"reading", "ending"}
    BY <2>1 DEF LoopInv, InPhase, LoopTypeOK
  <2> QED BY <1>1, <2>2, ReadingStep, EndingStep
<1>2. CASE LoopDone \/ UNCHANGED loop
  BY <1>2, StillKeeps DEF LoopDone, loop
<1> QED BY <1>1, <1>2, BeginKeeps, LookupReadKeeps, LookupStepKeeps, EndKeeps, LoopTestKeeps
        DEF LoopNext

LEMMA LoopInvariance == ASSUME AllFit PROVE LoopSpec => []LoopInv
<1>1. LoopTypeOK /\ FileInv /\ LoopInv /\ [LoopNext]_loop => LoopInv'
  BY LoopStepKeeps
<1>2. LoopSpec => []FileInv
  BY LoopUsesFile, FileInvariance, PTL
<1> QED BY <1>1, <1>2, LoopTypes, LoopInitSatisfies, PTL DEF LoopSpec, loop

(* When all that the lookups may bring fits in the budget, the loop ends   *)
(* without an error only when the real lookups hit the cache, all of them. *)
THEOREM FittingLookupsHit == ASSUME AllFit PROVE LoopSpec => []LookupsHit
<1>1. LoopInv => LookupsHit
  BY DEF LoopInv, InPhase, LookupsHit, AllHeld, Held, Members, Cached
<1> QED BY <1>1, LoopInvariance, PTL

(* And it makes no more rounds than the longest path has blocks. *)
THEOREM FittingRoundPerLevel == ASSUME AllFit PROVE LoopSpec => []RoundPerLevel
<1>1. LoopInv => RoundPerLevel
  BY DEF LoopInv, Levels, Excused, RoundPerLevel
<1> QED BY <1>1, LoopInvariance, PTL
=============================================================================
