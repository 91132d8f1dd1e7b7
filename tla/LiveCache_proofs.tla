-------------------------- MODULE LiveCache_proofs --------------------------
(***************************************************************************)
(* Proofs about LiveCache, for any callers, layers, boxes, limits and      *)
(* sizes of answers.                                                       *)
(***************************************************************************)
EXTENDS LiveCache, SequenceTheorems, WellFoundedInduction, TLAPS

-----------------------------------------------------------------------------
(***************************************************************************)
(* The counter.  Held is a recursive function: that it exists, and that it *)
(* sums segments, are inductions over the numbers.                         *)
(***************************************************************************)

\* Induction, about a set of numbers.
LEMMA Induction ==
    ASSUME NEW T \in SUBSET Nat, 0 \in T, \A n \in T : n + 1 \in T
    PROVE  T = Nat
<1> DEFINE U == Nat \ T
<1> SUFFICES ASSUME U # {} PROVE FALSE
    OBVIOUS
<1>1. PICK x \in U : \A y \in U : ~ (<<y, x>> \in OpToRel(<, Nat))
    BY WFMin, NatLessThanWellFounded
<1>2. x # 0 /\ x - 1 \in Nat /\ x - 1 < x
    OBVIOUS
<1>3. x - 1 \in T
    BY <1>1, <1>2 DEF OpToRel
<1> QED
    BY <1>2, <1>3

\* What the counter of the code adds up, one entry after another.
LEMMA HeldIs ==
    ASSUME NEW c, Len(c) \in Nat
    PROVE  Held(c) = [n \in 0..Len(c) |-> IF n = 0 THEN 0 ELSE Held(c)[n - 1] + c[n].size]
<1> DEFINE Sum(m, g) == g = [n \in 0..m |-> IF n = 0 THEN 0 ELSE g[n - 1] + c[n].size]
           T == {m \in Nat : \E g : Sum(m, g)}
<1>1. 0 \in T
  <2>1. Sum(0, [n \in 0..0 |-> 0])
    OBVIOUS
  <2> QED
    BY <2>1
<1>2. ASSUME NEW m \in T PROVE m + 1 \in T
  <2>1. PICK g : Sum(m, g)
    OBVIOUS
  <2> DEFINE h == [n \in 0..(m + 1) |-> IF n <= m THEN g[n] ELSE g[m] + c[m + 1].size]
  <2>2. ASSUME NEW n \in 0..(m + 1)
        PROVE  h[n] = IF n = 0 THEN 0 ELSE h[n - 1] + c[n].size
    <3>1. CASE n <= m
      <4>1. g[n] = IF n = 0 THEN 0 ELSE g[n - 1] + c[n].size
        BY <2>1, <3>1
      <4> QED
        BY <3>1, <4>1
    <3>2. CASE n = m + 1
      BY <3>2
    <3> QED
      BY <3>1, <3>2
  <2>3. Sum(m + 1, h)
    BY <2>2
  <2> QED
    BY <2>3
<1>3. Len(c) \in T
    BY <1>1, <1>2, Induction
<1>4. PICK g : Sum(Len(c), g)
    BY <1>3
<1>5. Held(c) = CHOOSE f : Sum(Len(c), f)
    BY DEF Held
<1> QED
    BY <1>4, <1>5

Sized(c) == Len(c) \in Nat /\ \A i \in 1..Len(c) : c[i].size \in Nat

\* Nothing is held by no entry, and each adds its own.
LEMMA HeldStep ==
    ASSUME NEW c, Sized(c)
    PROVE  /\ Held(c)[0] = 0
           /\ \A n \in 1..Len(c) : Held(c)[n] = Held(c)[n - 1] + c[n].size
<1> QED
    BY HeldIs DEF Sized

LEMMA HeldNat ==
    ASSUME NEW c, Sized(c)
    PROVE  \A n \in 0..Len(c) : Held(c)[n] \in Nat
<1> DEFINE T == {n \in Nat : n <= Len(c) => Held(c)[n] \in Nat}
<1>1. 0 \in T
    BY HeldStep
<1>2. ASSUME NEW n \in T PROVE n + 1 \in T
  <2> SUFFICES ASSUME n + 1 <= Len(c) PROVE Held(c)[n + 1] \in Nat
    OBVIOUS
  <2>1. Held(c)[n] \in Nat /\ n + 1 \in 1..Len(c) /\ c[n + 1].size \in Nat
    BY DEF Sized
  <2> QED
    BY <2>1, HeldStep
<1>3. T = Nat
  <2> HIDE DEF T
  <2> QED
    BY <1>1, <1>2, Induction DEF T
<1> QED
    BY <1>3 DEF Sized

\* The entries of d after the first a up to b have the sizes of those of c
\* after the first x up to y.
Alike(d, a, b, c, x, y) ==
    /\ Sized(c) /\ Sized(d)
    /\ a \in Nat /\ b \in Nat /\ x \in Nat /\ y \in Nat
    /\ a <= b /\ b <= Len(d) /\ y <= Len(c) /\ y - x = b - a
    /\ \A i \in (a + 1)..b, j \in (x + 1)..y : j - x = i - a => d[i].size = c[j].size

\* Then they hold as many features.
LEMMA SegmentsAgree ==
    ASSUME NEW d, NEW a, NEW b, NEW c, NEW x, NEW y, Alike(d, a, b, c, x, y)
    PROVE  Held(d)[b] - Held(d)[a] = Held(c)[y] - Held(c)[x]
<1> DEFINE T == {m \in Nat : a + m <= b => Held(d)[a + m] - Held(d)[a] = Held(c)[x + m] - Held(c)[x]}
<1>0. /\ Sized(c) /\ Sized(d)
      /\ a \in Nat /\ b \in Nat /\ x \in Nat /\ y \in Nat
      /\ a <= b /\ b <= Len(d) /\ y <= Len(c) /\ y - x = b - a
      /\ x <= Len(c) /\ a \in 0..Len(d) /\ x \in 0..Len(c) /\ Len(c) \in Nat /\ Len(d) \in Nat
    BY DEF Alike, Sized
<1>1. 0 \in T
  <2>1. Held(d)[a] \in Nat /\ Held(c)[x] \in Nat
    BY <1>0, HeldNat
  <2>2. a + 0 = a /\ x + 0 = x
    BY <1>0
  <2> QED
    BY <2>1, <2>2
<1>2. ASSUME NEW m \in T PROVE m + 1 \in T
  <2> SUFFICES ASSUME a + m + 1 <= b
               PROVE  Held(d)[a + m + 1] - Held(d)[a] = Held(c)[x + m + 1] - Held(c)[x]
    BY <1>0
  <2> DEFINE i == a + m
             j == x + m
  <2>1. /\ i + 1 = a + m + 1 /\ j + 1 = x + m + 1
        /\ i \in 0..Len(d) /\ i + 1 \in 1..Len(d) /\ (i + 1) - 1 = i /\ i + 1 \in (a + 1)..b
        /\ j \in 0..Len(c) /\ j + 1 \in 1..Len(c) /\ (j + 1) - 1 = j /\ j + 1 \in (x + 1)..y
        /\ (j + 1) - x = (i + 1) - a
    BY <1>0
  <2>2. Held(d)[i] - Held(d)[a] = Held(c)[j] - Held(c)[x]
    BY <1>0
  <2> HIDE DEF i, j, T
  <2>3. Held(d)[i + 1] = Held(d)[i] + d[i + 1].size /\ Held(c)[j + 1] = Held(c)[j] + c[j + 1].size
    BY <1>0, <2>1, HeldStep
  <2>4. d[i + 1].size = c[j + 1].size /\ c[j + 1].size \in Nat
    BY <1>0, <2>1 DEF Alike, Sized
  <2>5. Held(d)[i] \in Nat /\ Held(d)[a] \in Nat /\ Held(c)[j] \in Nat /\ Held(c)[x] \in Nat
    BY <1>0, <2>1, HeldNat
  <2> DEFINE e == c[j + 1].size
             p == Held(d)[i]
             q == Held(c)[j]
             p0 == Held(d)[a]
             q0 == Held(c)[x]
  <2>6. p - p0 = q - q0 /\ p \in Nat /\ q \in Nat /\ p0 \in Nat /\ q0 \in Nat
    BY ONLY <2>2, <2>5
  <2>7. e \in Nat /\ Held(d)[i + 1] = p + e /\ Held(c)[j + 1] = q + e
    BY ONLY <2>3, <2>4
  <2>8. Held(d)[i + 1] - p0 = Held(c)[j + 1] - q0
    <3> HIDE DEF e, p, q, p0, q0
    <3> QED
      BY ONLY <2>6, <2>7
  <2> QED
    BY ONLY <2>1, <2>8
<1>3. T = Nat
  <2> HIDE DEF T
  <2> QED
    BY <1>1, <1>2, Induction DEF T
<1> DEFINE m == b - a
<1>4. m \in Nat /\ a + m = b /\ x + m = y
    BY <1>0
<1>5. m \in T
    BY <1>3, <1>4
<1> HIDE DEF m
<1> QED
    BY <1>0, <1>4, <1>5

-----------------------------------------------------------------------------
(***************************************************************************)
(* The sequences: removal at a place, and a cache with one entry per key.  *)
(***************************************************************************)
LEMMA RemoveAtIs ==
    ASSUME NEW S, NEW c \in Seq(S), NEW p \in 1..Len(c)
    PROVE  /\ RemoveAt(c, p) \in Seq(S)
           /\ Len(RemoveAt(c, p)) = Len(c) - 1
           /\ \A i \in 1..(Len(c) - 1) : RemoveAt(c, p)[i] = IF i < p THEN c[i] ELSE c[i + 1]
<1> DEFINE a == SubSeq(c, 1, p - 1)
           b == SubSeq(c, p + 1, Len(c))
<1>1. Len(c) \in Nat
    BY LenProperties
<1>2. a \in Seq(S) /\ Len(a) = p - 1 /\ \A i \in 1..(p - 1) : a[i] = c[i]
    BY <1>1, SubSeqProperties
<1>3. b \in Seq(S) /\ Len(b) = Len(c) - p /\ \A i \in 1..(Len(c) - p) : b[i] = c[p + i]
  <2>1. CASE p = Len(c)
    <3>1. b \in Seq(S) /\ Len(b) = 0
      BY <1>1, <2>1, SubSeqProperties
    <3> QED
      BY <1>1, <2>1, <3>1
  <2>2. CASE p < Len(c)
    BY <1>1, <2>2, SubSeqProperties
  <2> QED
    BY <1>1, <2>1, <2>2
<1> HIDE DEF a, b
<1>4. /\ a \o b \in Seq(S) /\ Len(a \o b) = Len(a) + Len(b)
      /\ \A i \in 1..(Len(a) + Len(b)) : (a \o b)[i] = IF i <= Len(a) THEN a[i] ELSE b[i - Len(a)]
    BY <1>2, <1>3, ConcatProperties
<1>5. RemoveAt(c, p) = a \o b
    BY DEF RemoveAt, a, b
<1>6. ASSUME NEW i \in 1..(Len(c) - 1)
      PROVE  (a \o b)[i] = IF i < p THEN c[i] ELSE c[i + 1]
  <2>1. CASE i < p
    BY <1>1, <1>2, <1>3, <1>4, <2>1
  <2>2. CASE ~ (i < p)
    <3>1. i - Len(a) \in 1..(Len(c) - p) /\ p + (i - Len(a)) = i + 1
      BY <1>1, <1>2, <2>2
    <3>2. b[i - Len(a)] = c[i + 1]
      BY <1>3, <3>1
    <3> QED
      BY <1>1, <1>2, <1>3, <1>4, <2>2, <3>2
  <2> QED
    BY <2>1, <2>2
<1> QED
    BY <1>1, <1>2, <1>3, <1>4, <1>5, <1>6

UniqueKeys(c) == \A i, j \in DOMAIN c : c[i].key = c[j].key => i = j
IsCache(c) == c \in Seq(Entries) /\ UniqueKeys(c)
Within(c, d) == \A i \in DOMAIN c : \E j \in DOMAIN d : c[i] = d[j]

LEMMA CacheSized ==
    ASSUME NEW c \in Seq(Entries)
    PROVE  Sized(c) /\ DOMAIN c = 1..Len(c)
<1>1. Len(c) \in Nat /\ DOMAIN c = 1..Len(c)
    BY LenProperties
<1>2. ASSUME NEW i \in 1..Len(c) PROVE c[i].size \in Nat
  <2>1. c[i] \in Entries
    BY ElementOfSeq
  <2>2. c[i].size \in Sizes
    BY <2>1 DEF Entries
  <2>3. Sizes \subseteq Nat
    BY CacheAssumption
  <2> QED
    BY <2>2, <2>3, Zenon
<1> QED
    BY <1>1, <1>2 DEF Sized

\* A key has its place in the cache, and no second one.
LEMMA PlaceIs ==
    ASSUME NEW k, Has(k)
    PROVE  /\ Place(k) \in DOMAIN cache /\ cache[Place(k)].key = k
           /\ UniqueKeys(cache) => \A i \in DOMAIN cache : cache[i].key = k => i = Place(k)
<1>1. Place(k) \in DOMAIN cache /\ cache[Place(k)].key = k
    BY DEF Has, Place
<1> QED
    BY <1>1 DEF UniqueKeys

\* What is left once a key is taken out.
LEMMA WithoutIs ==
    ASSUME IsCache(cache), NEW k
    PROVE  /\ IsCache(Without(k)) /\ Within(Without(k), cache)
           /\ \A i \in DOMAIN Without(k) : Without(k)[i].key # k
           /\ Has(k) => /\ Len(Without(k)) = Len(cache) - 1
                        /\ SizeOf(Without(k)) = SizeOf(cache) - Entry(k).size
           /\ ~Has(k) => Without(k) = cache
<1>1. CASE ~Has(k)
  <2>1. Without(k) = cache
    BY <1>1 DEF Without
  <2> QED
    BY <1>1, <2>1 DEF Has, Within
<1>2. CASE Has(k)
  <2> DEFINE p == Place(k)
             w == RemoveAt(cache, p)
             n == Len(cache)
  <2>1. Without(k) = w
    BY <1>2 DEF Without
  <2>2. cache \in Seq(Entries) /\ Sized(cache) /\ DOMAIN cache = 1..n /\ n \in Nat
    BY CacheSized DEF IsCache, Sized
  <2>3. p \in 1..n /\ cache[p].key = k /\ \A i \in 1..n : cache[i].key = k => i = p
    BY <1>2, <2>2, PlaceIs DEF IsCache
  <2> HIDE DEF p
  <2>4. /\ w \in Seq(Entries) /\ Len(w) = n - 1
        /\ \A i \in 1..(n - 1) : w[i] = IF i < p THEN cache[i] ELSE cache[i + 1]
    BY <2>2, <2>3, RemoveAtIs
  <2>5. Sized(w) /\ DOMAIN w = 1..(n - 1)
    BY <2>4, CacheSized
  <2> HIDE DEF w
  <2> DEFINE from(i) == IF i < p THEN i ELSE i + 1
  <2>6. ASSUME NEW i \in DOMAIN w
        PROVE  from(i) \in 1..n /\ from(i) # p /\ w[i] = cache[from(i)]
    BY <2>2, <2>3, <2>4, <2>5
  <2>7. \A i, j \in DOMAIN w : from(i) = from(j) => i = j
    BY <2>2, <2>3, <2>5
  <2> HIDE DEF from
  <2>8. IsCache(w) /\ Within(w, cache) /\ \A i \in DOMAIN w : w[i].key # k
    <3>1. UniqueKeys(w)
      BY <2>2, <2>6, <2>7 DEF IsCache, UniqueKeys
    <3>2. Within(w, cache)
      BY <2>2, <2>6 DEF Within
    <3>3. \A i \in DOMAIN w : w[i].key # k
      BY <2>3, <2>6
    <3> QED
      BY <2>4, <3>1, <3>2, <3>3 DEF IsCache
  <2>9. SizeOf(w) = SizeOf(cache) - cache[p].size
    <3>1. Held(w)[p - 1] = Held(cache)[p - 1]
      <4>1. p - 1 \in 0..Len(w) /\ p - 1 \in 0..n
        BY <2>2, <2>3, <2>4
      <4>2. \A i \in 1..(p - 1) : w[i] = cache[i]
        BY <2>2, <2>3, <2>4
      <4>3. Alike(w, 0, p - 1, cache, 0, p - 1)
        BY <2>2, <2>5, <4>1, <4>2 DEF Alike
      <4>5. Held(w)[p - 1] - Held(w)[0] = Held(cache)[p - 1] - Held(cache)[0]
        BY <4>3, SegmentsAgree
      <4>4. Held(w)[p - 1] \in Nat /\ Held(cache)[p - 1] \in Nat /\ Held(w)[0] = 0 /\ Held(cache)[0] = 0
        BY <2>2, <2>5, <4>1, HeldNat, HeldStep
      <4> QED
        BY <4>4, <4>5
    <3>2. Held(w)[n - 1] - Held(w)[p - 1] = Held(cache)[n] - Held(cache)[p]
      <4>1. p - 1 \in Nat /\ n - 1 \in Nat /\ p - 1 <= n - 1 /\ n - 1 <= Len(w) /\ n - p = (n - 1) - (p - 1)
        BY <2>2, <2>3, <2>4
      <4>2. \A i \in ((p - 1) + 1)..(n - 1), j \in (p + 1)..n :
               j - p = i - (p - 1) => w[i].size = cache[j].size
        <5> SUFFICES ASSUME NEW i \in ((p - 1) + 1)..(n - 1), NEW j \in (p + 1)..n, j - p = i - (p - 1)
                     PROVE  w[i] = cache[j]
          OBVIOUS
        <5>1. i \in 1..(n - 1) /\ ~ (i < p) /\ j = i + 1
          BY <2>2, <2>3
        <5> QED
          BY <2>4, <5>1
      <4>3. Alike(w, p - 1, n - 1, cache, p, n)
        BY <2>2, <2>3, <2>5, <4>1, <4>2 DEF Alike
      <4> QED
        BY <4>3, SegmentsAgree
    <3>3. Held(cache)[p] = Held(cache)[p - 1] + cache[p].size
      BY <2>2, <2>3, HeldStep
    <3>4. /\ Held(w)[n - 1] \in Nat /\ Held(w)[p - 1] \in Nat
          /\ Held(cache)[n] \in Nat /\ Held(cache)[p - 1] \in Nat /\ cache[p].size \in Nat
      <4>1. n - 1 \in 0..Len(w) /\ p - 1 \in 0..Len(w) /\ n \in 0..n /\ p - 1 \in 0..n
        BY <2>2, <2>3, <2>4
      <4> QED
        BY <2>2, <2>3, <2>5, <4>1, HeldNat DEF Sized
    <3>5. Held(w)[n - 1] = Held(cache)[n] - cache[p].size
      <4> DEFINE e == cache[p].size
                 a == Held(w)[n - 1]
                 b == Held(cache)[n]
                 h == Held(cache)[p - 1]
      <4>1. a - h = b - (h + e)
        BY ONLY <3>1, <3>2, <3>3
      <4>2. a \in Nat /\ b \in Nat /\ h \in Nat /\ e \in Nat
        BY ONLY <3>4
      <4>3. a = b - e
        <5> HIDE DEF a, b, h, e
        <5> QED
          BY ONLY <4>1, <4>2
      <4> QED
        BY ONLY <4>3
    <3> QED
      BY <2>4, <3>5 DEF SizeOf
  <2> QED
    BY <1>2, <2>1, <2>4, <2>8, <2>9 DEF Entry, p
<1> QED
  BY <1>1, <1>2

\* An entry that is added at the end, under a key of its own.
LEMMA AppendIs ==
    ASSUME NEW w, IsCache(w), NEW e \in Entries, \A i \in DOMAIN w : w[i].key # e.key
    PROVE  /\ IsCache(Append(w, e)) /\ Len(Append(w, e)) = Len(w) + 1
           /\ \A i \in DOMAIN Append(w, e) : Append(w, e)[i] = e \/ \E j \in DOMAIN w : Append(w, e)[i] = w[j]
           /\ SizeOf(Append(w, e)) = SizeOf(w) + e.size
<1> DEFINE c == Append(w, e)
           n == Len(w)
<1>1. w \in Seq(Entries) /\ Sized(w) /\ DOMAIN w = 1..n /\ n \in Nat
    BY CacheSized DEF IsCache, Sized
<1>2. c \in Seq(Entries) /\ Len(c) = n + 1 /\ c[n + 1] = e /\ \A i \in 1..n : c[i] = w[i]
    BY <1>1, AppendProperties
<1>3. Sized(c) /\ DOMAIN c = 1..(n + 1)
    BY <1>2, CacheSized
<1> HIDE DEF c
<1>4. UniqueKeys(c)
    <2> SUFFICES ASSUME NEW i \in 1..(n + 1), NEW j \in 1..(n + 1), c[i].key = c[j].key
                 PROVE  i = j
        BY <1>3 DEF UniqueKeys
    <2>1. CASE i \in 1..n /\ j \in 1..n
        BY <1>1, <1>2, <2>1 DEF IsCache, UniqueKeys
    <2>2. CASE i = n + 1 /\ j \in 1..n
        BY <1>1, <1>2, <2>2
    <2>3. CASE i \in 1..n /\ j = n + 1
        BY <1>1, <1>2, <2>3
    <2> QED
        BY <1>1, <2>1, <2>2, <2>3
<1>5. \A i \in DOMAIN c : c[i] = e \/ \E j \in DOMAIN w : c[i] = w[j]
    BY <1>1, <1>2, <1>3
<1>6. SizeOf(c) = SizeOf(w) + e.size
  <2>1. Alike(c, 0, n, w, 0, n)
    BY <1>1, <1>2, <1>3 DEF Alike
  <2>2. Held(c)[n] - Held(c)[0] = Held(w)[n] - Held(w)[0]
    BY <2>1, SegmentsAgree
  <2>3. Held(c)[0] = 0 /\ Held(w)[0] = 0 /\ Held(c)[n] \in Nat /\ Held(w)[n] \in Nat
    <3>1. n \in 0..Len(c) /\ n \in 0..Len(w)
      BY <1>1, <1>2
    <3> QED
      BY <1>1, <1>3, <3>1, HeldStep, HeldNat
  <2>4. Held(c)[n] = Held(w)[n]
    BY <2>2, <2>3
  <2>5. Held(c)[n + 1] = Held(c)[n] + e.size
    <3>1. n + 1 \in 1..Len(c) /\ (n + 1) - 1 = n
      BY <1>1, <1>2
    <3> QED
      BY <1>2, <1>3, <3>1, HeldStep
  <2> QED
    BY <1>2, <2>4, <2>5 DEF SizeOf
<1> QED
    BY <1>2, <1>3, <1>4, <1>5, <1>6 DEF IsCache, c

\* What is left once the first p entries are evicted.
LEMMA DropIs ==
    ASSUME NEW c, IsCache(c), NEW p \in 0..Len(c)
    PROVE  /\ IsCache(SubSeq(c, p + 1, Len(c))) /\ Within(SubSeq(c, p + 1, Len(c)), c)
           /\ Len(SubSeq(c, p + 1, Len(c))) = Len(c) - p
           /\ SizeOf(SubSeq(c, p + 1, Len(c))) = SizeOf(c) - Held(c)[p]
<1> DEFINE d == SubSeq(c, p + 1, Len(c))
           n == Len(c)
<1>1. c \in Seq(Entries) /\ Sized(c) /\ DOMAIN c = 1..n /\ n \in Nat
    BY CacheSized DEF IsCache, Sized
<1>2. d \in Seq(Entries) /\ Len(d) = n - p /\ \A i \in 1..(n - p) : d[i] = c[p + i]
  <2>1. CASE p = n
    <3>1. d \in Seq(Entries) /\ Len(d) = 0
      BY <1>1, <2>1, SubSeqProperties
    <3> QED
      BY <1>1, <2>1, <3>1
  <2>2. CASE p < n
    <3> DEFINE a == p + 1
    <3>1. a \in 1..n /\ n \in a..n /\ n - a + 1 = n - p /\ \A i \in 1..(n - p) : a + i - 1 = p + i
      BY <1>1, <2>2
    <3> HIDE DEF a
    <3>2. SubSeq(c, a, n) \in Seq(Entries) /\ Len(SubSeq(c, a, n)) = n - a + 1
          /\ \A i \in 1..(n - a + 1) : SubSeq(c, a, n)[i] = c[a + i - 1]
      BY <1>1, <3>1, SubSeqProperties
    <3>3. d = SubSeq(c, a, n)
      BY DEF a
    <3> QED
      BY <3>1, <3>2, <3>3
  <2>3. p = n \/ p < n
    <3> HIDE DEF n, d
    <3>1. p \in 0..n /\ n \in Nat
      BY <1>1 DEF n
    <3> QED
      BY ONLY <3>1
  <2> QED
    BY ONLY <2>1, <2>2, <2>3
<1>3. Sized(d) /\ DOMAIN d = 1..(n - p)
    BY <1>2, CacheSized
<1> HIDE DEF d
<1>4. \A i \in DOMAIN d : p + i \in DOMAIN c /\ d[i] = c[p + i]
    BY <1>1, <1>2, <1>3
<1>5. UniqueKeys(d)
    <2> SUFFICES ASSUME NEW i \in DOMAIN d, NEW j \in DOMAIN d, d[i].key = d[j].key PROVE i = j
        BY DEF UniqueKeys
    <2>1. p + i = p + j
        BY <1>4 DEF IsCache, UniqueKeys
    <2> QED
        BY <1>3, <2>1
<1>6. Within(d, c)
    BY <1>4 DEF Within
<1>7. SizeOf(d) = SizeOf(c) - Held(c)[p]
  <2>1. Alike(d, 0, n - p, c, p, n)
    BY <1>1, <1>2, <1>3 DEF Alike
  <2>2. Held(d)[n - p] - Held(d)[0] = Held(c)[n] - Held(c)[p]
    BY <2>1, SegmentsAgree
  <2>3. Held(d)[0] = 0 /\ Held(d)[n - p] \in Nat
    <3>1. n - p \in 0..Len(d)
      BY <1>1, <1>2
    <3> QED
      BY <1>3, <3>1, HeldStep, HeldNat
  <2>4. Held(d)[n - p] = Held(c)[n] - Held(c)[p]
    BY <2>2, <2>3
  <2> QED
    BY <1>2, <2>4 DEF SizeOf
<1> QED
    BY <1>2, <1>5, <1>6, <1>7 DEF IsCache, d

\* A use moves an entry, and changes nothing else.
LEMMA TouchedIs ==
    ASSUME IsCache(cache), NEW k
    PROVE  /\ IsCache(Touched(k)) /\ Within(Touched(k), cache)
           /\ Len(Touched(k)) = Len(cache) /\ SizeOf(Touched(k)) = SizeOf(cache)
<1>1. CASE ~Has(k)
    BY <1>1 DEF Touched, Within
<1>2. CASE Has(k)
  <2> DEFINE w == Without(k)
             e == Entry(k)
             t == Append(w, e)
  <2>1. cache \in Seq(Entries) /\ Sized(cache) /\ DOMAIN cache = 1..Len(cache) /\ Len(cache) \in Nat
    BY CacheSized DEF IsCache, Sized
  <2>2. e \in Entries /\ e.key = k /\ \E j \in DOMAIN cache : e = cache[j]
    BY <1>2, <2>1, PlaceIs, ElementOfSeq DEF Entry
  <2>3. /\ IsCache(w) /\ Within(w, cache) /\ \A i \in DOMAIN w : w[i].key # k
        /\ Len(w) = Len(cache) - 1 /\ SizeOf(w) = SizeOf(cache) - e.size
    BY <1>2, WithoutIs
  <2>4. Touched(k) = t
    BY <1>2 DEF Touched
  <2> HIDE DEF w, e
  <2>5. /\ IsCache(t) /\ Len(t) = Len(w) + 1 /\ SizeOf(t) = SizeOf(w) + e.size
        /\ \A i \in DOMAIN t : t[i] = e \/ \E j \in DOMAIN w : t[i] = w[j]
    BY <2>2, <2>3, AppendIs
  <2> HIDE DEF t
  <2>6. Within(t, cache)
    BY <2>2, <2>3, <2>5 DEF Within
  <2>7. SizeOf(cache) \in Nat /\ e.size \in Nat
    <3>1. \E j \in 1..Len(cache) : e = cache[j]
      BY <2>1, <2>2
    <3>2. Len(cache) \in 0..Len(cache)
      BY <2>1
    <3> QED
      BY <2>1, <3>1, <3>2, HeldNat DEF SizeOf, Sized
  <2>8. SizeOf(t) = SizeOf(cache) /\ Len(t) = Len(cache)
    BY <2>1, <2>3, <2>5, <2>7
  <2> QED
    BY <2>4, <2>5, <2>6, <2>8
<1> QED
    BY <1>1, <1>2

\* The loop of _cache_put ends, at the latest with an empty cache.
LEMMA EvictedIs ==
    ASSUME NEW c, IsCache(c), NEW n, n = SizeOf(c)
    PROVE  /\ Evicted(c, n) \in 0..Len(c)
           /\ Len(c) - Evicted(c, n) <= MaxEntries
           /\ n - Held(c)[Evicted(c, n)] <= MaxFeatures
<1> DEFINE S == {i \in 0..Len(c) : Len(c) - i <= MaxEntries /\ n - Held(c)[i] <= MaxFeatures}
<1>1. Sized(c) /\ Len(c) \in Nat
    BY CacheSized DEF IsCache, Sized
<1>2. n \in Nat
  <2>1. Len(c) \in 0..Len(c)
    BY <1>1
  <2> QED
    BY <1>1, <2>1, HeldNat DEF SizeOf
<1>3. Len(c) \in S
  <2>1. n - Held(c)[Len(c)] = 0
    BY <1>2 DEF SizeOf
  <2> QED
    BY <1>1, <2>1, CacheAssumption
<1>4. PICK x \in S : \A y \in S : ~ (<<y, x>> \in OpToRel(<, Nat))
  <2>1. S \subseteq Nat /\ S # {}
    BY <1>1, <1>3
  <2> HIDE DEF S
  <2> QED
    BY <2>1, WFMin, NatLessThanWellFounded
<1>5. \A y \in S : x =< y
  <2> SUFFICES ASSUME NEW y \in S PROVE ~ (y < x)
    BY <1>1
  <2>1. y \in Nat /\ x \in Nat
    BY <1>1
  <2> HIDE DEF S
  <2> QED
    BY <1>4, <2>1 DEF OpToRel
<1>6. Min(S) \in S
  <2> HIDE DEF S
  <2> QED
    BY <1>5 DEF Min
<1>7. Evicted(c, n) = Min(S)
    BY DEF Evicted
<1> QED
    BY <1>6, <1>7

\* The counter follows replacement and eviction.
LEMMA PutIs ==
    ASSUME IsCache(cache), features = SizeOf(cache), NEW e \in Entries, CachePut(e)
    PROVE  /\ IsCache(cache') /\ features' \in Nat /\ features' = SizeOf(cache')
           /\ features' <= MaxFeatures /\ Len(cache') <= MaxEntries
           /\ \A i \in DOMAIN cache' :
                 cache'[i] = e \/ \E j \in DOMAIN cache : cache'[i] = cache[j] /\ cache[j].key # e.key
<1> DEFINE w == Without(e.key)
           c == Append(w, e)
           before == IF Has(e.key) THEN Entry(e.key).size ELSE 0
           n == features - before + e.size
           p == Evicted(c, n)
<1>1. /\ IsCache(w) /\ Within(w, cache) /\ \A i \in DOMAIN w : w[i].key # e.key
      /\ SizeOf(w) = features - before
  <2>1. SizeOf(cache) \in Nat
    <3>1. Sized(cache) /\ Len(cache) \in 0..Len(cache)
      BY CacheSized DEF IsCache, Sized
    <3> QED
      BY <3>1, HeldNat DEF SizeOf
  <2> QED
    BY <2>1, WithoutIs
<1>2. features' = n - Held(c)[p] /\ cache' = SubSeq(c, p + 1, Len(c))
    BY DEF CachePut
<1> HIDE DEF w, before, p
<1>3. /\ IsCache(c) /\ SizeOf(c) = n
      /\ \A i \in DOMAIN c : c[i] = e \/ \E j \in DOMAIN w : c[i] = w[j]
    BY <1>1, AppendIs
<1> HIDE DEF c, n
<1>4. p \in 0..Len(c) /\ Len(c) - p <= MaxEntries /\ n - Held(c)[p] <= MaxFeatures
    BY <1>3, EvictedIs DEF p
<1>5. /\ IsCache(cache') /\ Within(cache', c) /\ Len(cache') = Len(c) - p
      /\ SizeOf(cache') = SizeOf(c) - Held(c)[p]
    BY <1>2, <1>3, <1>4, DropIs
<1>6. features' = SizeOf(cache') /\ features' <= MaxFeatures /\ Len(cache') <= MaxEntries
    BY <1>2, <1>3, <1>4, <1>5
<1>7. SizeOf(cache') \in Nat
  <2>1. Sized(cache') /\ Len(cache') \in 0..Len(cache')
    BY <1>5, CacheSized DEF IsCache, Sized
  <2> QED
    BY <2>1, HeldNat DEF SizeOf
<1>8. ASSUME NEW i \in DOMAIN cache'
      PROVE  cache'[i] = e \/ \E j \in DOMAIN cache : cache'[i] = cache[j] /\ cache[j].key # e.key
  <2>1. PICK k \in DOMAIN c : cache'[i] = c[k]
    BY <1>5 DEF Within
  <2>2. CASE c[k] = e
    BY <2>1, <2>2
  <2>3. CASE \E j \in DOMAIN w : c[k] = w[j]
    BY <1>1, <2>1, <2>3 DEF Within
  <2> QED
    BY <1>3, <2>2, <2>3
<1> QED
    BY <1>5, <1>6, <1>7, <1>8

-----------------------------------------------------------------------------
(***************************************************************************)
(* The inductive invariant.                                                *)
(***************************************************************************)

\* A layer's lock is held by one fetch.
OneFetch ==
    \A r, s \in Lookups : \A f \in fetch[r], g \in fetch[s] : KindOf[f.key] = KindOf[g.key] => r = s

\* Who waits for a lock waits for that of its layer, once, and fetches nothing.
InLine ==
    \A m \in Kinds : \A i \in DOMAIN queue[m] :
       /\ KindOf[queue[m][i].key] = m
       /\ fetch[queue[m][i].who] = {}
       /\ \A n \in Kinds : \A j \in DOMAIN queue[n] :
             queue[m][i].who = queue[n][j].who => m = n /\ i = j

\* What is cached under the key of a fetch is past its fresh limit, and was
\* read from the source before the fetch began.
Outdated(c, f) == \A i \in DOMAIN c : c[i].key = f.key => c[i].age > FreshFor /\ f.age <= c[i].data
FetchIsNeeded == \A r \in Lookups : \A f \in fetch[r] : Outdated(cache, f)

Counted ==
    /\ UniqueKeys(cache)
    /\ features = SizeOf(cache) /\ features <= MaxFeatures /\ Len(cache) <= MaxEntries

CacheInv == TypeOK /\ Counted /\ OneFetch /\ InLine /\ FetchIsNeeded /\ StaleIsBetween

LEMMA AgesAreNumbers ==
    /\ Old \in Nat /\ Old > FreshFor /\ Ages \subseteq Nat /\ 0 \in Ages
    /\ \A n \in Ages : Older(n) \in Ages /\ Older(n) > 0 /\ n <= Older(n)
    /\ \A n, m \in Ages : n <= m => Older(n) <= Older(m)
BY CacheAssumption DEF Old, Ages, Older

LEMMA CacheIs ==
    ASSUME CacheInv
    PROVE  /\ IsCache(cache) /\ DOMAIN cache = 1..Len(cache) /\ Len(cache) \in Nat
           /\ \A i \in DOMAIN cache : cache[i] \in Entries
<1>1. cache \in Seq(Entries) /\ UniqueKeys(cache)
    BY DEF CacheInv, TypeOK, Counted
<1>2. DOMAIN cache = 1..Len(cache) /\ Len(cache) \in Nat
    BY <1>1, CacheSized DEF Sized
<1> QED
    BY <1>1, <1>2, ElementOfSeq DEF IsCache

LEMMA NotFreshMeans ==
    ASSUME CacheInv, NEW k, ~IsFresh(k)
    PROVE  \A i \in DOMAIN cache : cache[i].key = k => cache[i].age > FreshFor
<1> SUFFICES ASSUME NEW i \in DOMAIN cache, cache[i].key = k PROVE cache[i].age > FreshFor
    OBVIOUS
<1>1. Has(k)
    BY DEF Has
<1>2. Entry(k) = cache[i]
    BY <1>1, PlaceIs, CacheIs DEF Entry, IsCache
<1>3. cache[i].age \in Nat
    BY CacheIs, AgesAreNumbers DEF Entries
<1> QED
    BY <1>1, <1>2, <1>3, CacheAssumption DEF IsFresh

\* A lookup that has the lock, or finds its records fresh without it.
LEMMA UnderLockKeeps ==
    ASSUME CacheInv, NEW r \in Lookups, NEW k \in Keys, IsFresh(k) \/ LockFree(KindOf[k]),
           UnderLock(r, k)
    PROVE  /\ IsCache(cache') /\ SizeOf(cache') = SizeOf(cache) /\ Len(cache') = Len(cache)
           /\ Within(cache', cache)
           /\ fetch' \in [Lookups -> SUBSET Fetches]
           /\ \A s \in Lookups : s # r => fetch'[s] = fetch[s]
           /\ \A s \in Lookups : \A f, g \in fetch'[s] : f = g
           /\ OneFetch' /\ FetchIsNeeded'
<1>1. cache' = Touched(k)
    BY DEF UnderLock
<1>2. /\ IsCache(cache') /\ SizeOf(cache') = SizeOf(cache) /\ Len(cache') = Len(cache)
      /\ Within(cache', cache)
    BY <1>1, TouchedIs, CacheIs
<1>3. ASSUME NEW f, Outdated(cache, f) PROVE Outdated(cache', f)
    BY <1>2, <1>3 DEF Within, Outdated
<1>4. CASE IsFresh(k)
  <2>1. fetch' = fetch
    BY <1>4 DEF UnderLock
  <2>2. FetchIsNeeded'
    BY <1>3, <2>1 DEF CacheInv, FetchIsNeeded
  <2> QED
    BY <1>2, <2>1, <2>2 DEF CacheInv, TypeOK, OneFetch
<1>5. CASE ~IsFresh(k)
  <2> DEFINE new == [key |-> k, age |-> 0]
  <2>1. LockFree(KindOf[k])
    BY <1>5
  <2>2. fetch \in [Lookups -> SUBSET Fetches] /\ \A s \in Lookups : \A f, g \in fetch[s] : f = g
    BY DEF CacheInv, TypeOK
  <2>3. /\ fetch'[r] = {new} /\ \A s \in Lookups : s # r => fetch'[s] = fetch[s]
        /\ fetch' \in [Lookups -> SUBSET Fetches]
    <3>1. fetch' = [fetch EXCEPT ![r] = {new}]
      BY <1>5 DEF UnderLock, StartFetch
    <3>2. new \in Fetches
      BY AgesAreNumbers DEF Fetches
    <3> HIDE DEF new
    <3> QED
      BY <2>2, <3>1, <3>2
  <2>4. \A s \in Lookups : \A f \in fetch[s] : KindOf[f.key] # KindOf[k]
    BY <2>1 DEF LockFree, Fetching
  <2>5. new.key = k /\ new.age = 0
    OBVIOUS
  <2> HIDE DEF new
  <2>6. OneFetch'
    <3> SUFFICES ASSUME NEW s \in Lookups, NEW t \in Lookups, NEW f \in fetch'[s], NEW g \in fetch'[t],
                        KindOf[f.key] = KindOf[g.key]
                 PROVE  s = t
      BY DEF OneFetch
    <3>1. CASE s = r /\ t # r
      BY <2>3, <2>4, <2>5, <3>1
    <3>2. CASE s # r /\ t = r
      BY <2>3, <2>4, <2>5, <3>2
    <3>3. CASE s # r /\ t # r
      BY <2>3, <3>3 DEF CacheInv, OneFetch
    <3> QED
      BY <3>1, <3>2, <3>3
  <2>7. Outdated(cache, new)
    <3> SUFFICES ASSUME NEW i \in DOMAIN cache, cache[i].key = k
                 PROVE  cache[i].age > FreshFor /\ 0 <= cache[i].data
      BY <2>5 DEF Outdated
    <3>1. cache[i].data \in Nat
      BY CacheIs, AgesAreNumbers DEF Entries
    <3> QED
      BY <1>5, <3>1, NotFreshMeans
  <2>8. FetchIsNeeded'
    <3> SUFFICES ASSUME NEW s \in Lookups, NEW f \in fetch'[s] PROVE Outdated(cache', f)
      BY DEF FetchIsNeeded
    <3>1. Outdated(cache, f)
      BY <2>3, <2>7 DEF CacheInv, FetchIsNeeded
    <3> QED
      BY <1>3, <3>1
  <2>9. \A s \in Lookups : \A f, g \in fetch'[s] : f = g
    BY <2>2, <2>3
  <2> QED
    BY <1>2, <2>3, <2>6, <2>8, <2>9
<1> QED
    BY <1>4, <1>5

LEMMA QueuedIs ==
    ASSUME NEW waiting \in [Kinds -> Seq(Requests)]
    PROVE  \A m \in Kinds : \A i \in DOMAIN waiting[m] :
              waiting[m][i] \in Requests /\ waiting[m][i].who \in Lookups
<1> SUFFICES ASSUME NEW m \in Kinds, NEW i \in DOMAIN waiting[m]
             PROVE  waiting[m][i] \in Requests /\ waiting[m][i].who \in Lookups
    OBVIOUS
<1>1. waiting[m] \in Seq(Requests)
    OBVIOUS
<1>2. waiting[m][i] \in Requests
    BY <1>1, ElementOfSeq, LenProperties
<1> QED
    BY <1>2 DEF Requests

LEMMA LookupKeeps ==
    ASSUME CacheInv, NEW r \in Lookups, NEW k \in Keys, Lookup(r, k)
    PROVE  CacheInv'
<1> DEFINE kind == KindOf[k]
<1>1. fetch[r] = {} /\ ~Waiting(r) /\ features' = features /\ stale' = stale
    BY DEF Lookup, IsIdle
<1>2. kind \in Kinds /\ queue \in [Kinds -> Seq(Requests)]
    BY DEF Kinds, CacheInv, TypeOK
<1>3. \A m \in Kinds : \A i \in DOMAIN queue[m] : queue[m][i].who # r
    BY <1>1 DEF Waiting
<1>4. CASE (IsFresh(k) \/ LockFree(kind)) /\ UnderLock(r, k) /\ UNCHANGED queue
  <2>1. /\ IsCache(cache') /\ SizeOf(cache') = SizeOf(cache) /\ Len(cache') = Len(cache)
        /\ fetch' \in [Lookups -> SUBSET Fetches]
        /\ \A s \in Lookups : s # r => fetch'[s] = fetch[s]
        /\ \A s \in Lookups : \A f, g \in fetch'[s] : f = g
        /\ OneFetch' /\ FetchIsNeeded'
    BY <1>4, UnderLockKeeps
  <2>2. TypeOK'
    BY <1>1, <1>4, <2>1 DEF CacheInv, TypeOK, IsCache
  <2>3. Counted'
    BY <1>1, <2>1 DEF CacheInv, Counted, IsCache
  <2>4. InLine'
    <3>1. \A m \in Kinds : \A i \in DOMAIN queue[m] : queue[m][i].who \in Lookups
      BY <1>2, QueuedIs
    <3> QED
      BY <1>3, <1>4, <2>1, <3>1 DEF CacheInv, InLine
  <2> QED
    BY <1>1, <2>1, <2>2, <2>3, <2>4 DEF CacheInv, StaleIsBetween
<1>5. CASE /\ cache' = Touched(k)
           /\ queue' = [queue EXCEPT ![kind] = Append(@, [who |-> r, key |-> k])]
           /\ UNCHANGED fetch
  <2> DEFINE q == [who |-> r, key |-> k]
  <2>1. /\ IsCache(cache') /\ SizeOf(cache') = SizeOf(cache) /\ Len(cache') = Len(cache)
        /\ Within(cache', cache)
    BY <1>5, TouchedIs, CacheIs
  <2>2. q \in Requests /\ q.who = r /\ q.key = k
    BY DEF Requests
  <2>3. queue' = [queue EXCEPT ![kind] = Append(queue[kind], q)]
    BY <1>5
  <2> HIDE DEF q
  <2>4. /\ queue' \in [Kinds -> Seq(Requests)]
        /\ queue'[kind] = Append(queue[kind], q)
        /\ \A m \in Kinds : m # kind => queue'[m] = queue[m]
    BY <1>2, <2>2, <2>3, AppendProperties
  <2>5. ASSUME NEW m \in Kinds, NEW i \in DOMAIN queue'[m]
        PROVE  \/ i \in DOMAIN queue[m] /\ queue'[m][i] = queue[m][i]
               \/ m = kind /\ i = Len(queue[kind]) + 1 /\ queue'[m][i] = q
    <3>1. CASE m # kind
      BY <2>4, <3>1
    <3>2. CASE m = kind
      <4> DEFINE n == Len(queue[kind])
      <4>1. n \in Nat /\ DOMAIN queue[kind] = 1..n
        BY <1>2, LenProperties
      <4>2. /\ DOMAIN queue'[kind] = 1..(n + 1) /\ queue'[kind][n + 1] = q
            /\ \A j \in 1..n : queue'[kind][j] = queue[kind][j]
        BY <1>2, <2>2, <2>4, AppendProperties, LenProperties
      <4> HIDE DEF n
      <4>3. i \in 1..n \/ i = n + 1
        BY <3>2, <4>1, <4>2
      <4> QED
        BY <3>2, <4>1, <4>2, <4>3 DEF n
    <3> QED
      BY <3>1, <3>2
  <2>6. InLine'
    <3> SUFFICES ASSUME NEW m \in Kinds, NEW i \in DOMAIN queue'[m]
                 PROVE  /\ KindOf[queue'[m][i].key] = m
                        /\ fetch'[queue'[m][i].who] = {}
                        /\ \A n \in Kinds : \A j \in DOMAIN queue'[n] :
                              queue'[m][i].who = queue'[n][j].who => m = n /\ i = j
      BY DEF InLine
    <3>1. CASE i \in DOMAIN queue[m] /\ queue'[m][i] = queue[m][i]
      <4>1. ASSUME NEW n \in Kinds, NEW j \in DOMAIN queue'[n], queue'[m][i].who = queue'[n][j].who
            PROVE  m = n /\ i = j
        BY <1>3, <2>2, <2>5, <3>1, <4>1 DEF CacheInv, InLine
      <4> QED
        BY <1>5, <3>1, <4>1 DEF CacheInv, InLine
    <3>2. CASE m = kind /\ i = Len(queue[kind]) + 1 /\ queue'[m][i] = q
      <4>1. ASSUME NEW n \in Kinds, NEW j \in DOMAIN queue'[n], queue'[m][i].who = queue'[n][j].who
            PROVE  m = n /\ i = j
        BY <1>3, <2>2, <2>5, <3>2, <4>1
      <4> QED
        BY <1>1, <1>5, <2>2, <3>2, <4>1
    <3> QED
      BY <2>5, <3>1, <3>2
  <2>7. TypeOK'
    BY <1>1, <1>5, <2>1, <2>4 DEF CacheInv, TypeOK, IsCache
  <2>8. Counted'
    BY <1>1, <2>1 DEF CacheInv, Counted, IsCache
  <2>9. FetchIsNeeded' /\ OneFetch'
    BY <1>5, <2>1 DEF CacheInv, FetchIsNeeded, OneFetch, Outdated, Within
  <2> QED
    BY <1>1, <2>6, <2>7, <2>8, <2>9 DEF CacheInv, StaleIsBetween
<1> QED
    BY <1>4, <1>5 DEF Lookup

LEMMA GetLockKeeps ==
    ASSUME CacheInv, NEW kind \in Kinds, GetLock(kind)
    PROVE  CacheInv'
<1> DEFINE h == queue[kind]
           q == Head(h)
<1>1. queue \in [Kinds -> Seq(Requests)] /\ h \in Seq(Requests) /\ h # <<>>
    BY DEF CacheInv, TypeOK, GetLock
<1>2. /\ Len(h) \in Nat \ {0} /\ DOMAIN h = 1..Len(h) /\ q = h[1]
      /\ Tail(h) \in Seq(Requests) /\ Len(Tail(h)) = Len(h) - 1 /\ DOMAIN Tail(h) = 1..(Len(h) - 1)
      /\ \A i \in 1..(Len(h) - 1) : Tail(h)[i] = h[i + 1]
    BY <1>1, HeadTailProperties, EmptySeq, LenProperties
<1>3. LockFree(kind) /\ features' = features /\ stale' = stale /\ UnderLock(q.who, q.key)
    BY DEF GetLock
<1>4. queue' = [queue EXCEPT ![kind] = Tail(h)]
    BY DEF GetLock
<1> HIDE DEF q
<1>5. q \in Requests /\ 1 \in DOMAIN h
    BY <1>1, <1>2, ElementOfSeq
<1>6. q.who \in Lookups /\ q.key \in Keys
    BY <1>5 DEF Requests
<1>7. KindOf[q.key] = kind
    BY <1>2, <1>5 DEF CacheInv, InLine
<1>8. /\ IsCache(cache') /\ SizeOf(cache') = SizeOf(cache) /\ Len(cache') = Len(cache)
      /\ fetch' \in [Lookups -> SUBSET Fetches]
      /\ \A s \in Lookups : s # q.who => fetch'[s] = fetch[s]
      /\ \A s \in Lookups : \A f, g \in fetch'[s] : f = g
      /\ OneFetch' /\ FetchIsNeeded'
    BY <1>3, <1>6, <1>7, UnderLockKeeps
<1> DEFINE from(m, i) == IF m = kind THEN i + 1 ELSE i
<1>9. queue' \in [Kinds -> Seq(Requests)]
    BY <1>1, <1>2, <1>4
<1>10. ASSUME NEW m \in Kinds, NEW i \in DOMAIN queue'[m]
       PROVE  /\ from(m, i) \in DOMAIN queue[m] /\ queue'[m][i] = queue[m][from(m, i)]
              /\ m = kind => from(m, i) # 1
    <2>1. CASE m = kind
        <3>1. queue'[m] = Tail(h)
            BY <1>1, <1>4, <2>1
        <3> QED
            BY <1>2, <2>1, <3>1
    <2>2. CASE m # kind
        BY <1>1, <1>4, <2>2
    <2> QED
        BY <2>1, <2>2
<1>11. \A m \in Kinds : \A i, j \in DOMAIN queue'[m] : from(m, i) = from(m, j) => i = j
    <2>1. \A m \in Kinds : DOMAIN queue'[m] \subseteq Nat
      <3> SUFFICES ASSUME NEW m \in Kinds PROVE DOMAIN queue'[m] \subseteq Nat
        OBVIOUS
      <3>1. queue'[m] \in Seq(Requests)
        BY <1>9
      <3> QED
        BY <3>1, LenProperties
    <2> QED
        BY <2>1
<1> HIDE DEF from, h
<1>12. InLine'
    <2> SUFFICES ASSUME NEW m \in Kinds, NEW i \in DOMAIN queue'[m]
                 PROVE  /\ KindOf[queue'[m][i].key] = m
                        /\ fetch'[queue'[m][i].who] = {}
                        /\ \A n \in Kinds : \A j \in DOMAIN queue'[n] :
                              queue'[m][i].who = queue'[n][j].who => m = n /\ i = j
        BY DEF InLine
    <2>1. from(m, i) \in DOMAIN queue[m] /\ queue'[m][i] = queue[m][from(m, i)]
        BY <1>10
    <2>2. queue[m][from(m, i)].who # q.who
        <3>1. CASE queue[m][from(m, i)].who = queue[kind][1].who
            BY <1>2, <1>5, <1>10, <2>1, <3>1 DEF CacheInv, InLine, h
        <3> QED
            BY <1>2, <3>1 DEF h
    <2>3. queue'[m][i].who \in Lookups
        BY <1>9, QueuedIs
    <2>4. ASSUME NEW n \in Kinds, NEW j \in DOMAIN queue'[n], queue'[m][i].who = queue'[n][j].who
          PROVE  m = n /\ i = j
        <3>1. m = n /\ from(m, i) = from(n, j)
            BY <1>10, <2>4 DEF CacheInv, InLine
        <3> QED
            BY <1>11, <3>1
    <2> QED
        BY <1>8, <2>1, <2>2, <2>3, <2>4 DEF CacheInv, InLine
<1>13. TypeOK'
    BY <1>3, <1>8, <1>9 DEF CacheInv, TypeOK, IsCache
<1>14. Counted'
    BY <1>3, <1>8 DEF CacheInv, Counted, IsCache
<1> QED
    BY <1>3, <1>8, <1>12, <1>13, <1>14 DEF CacheInv, StaleIsBetween

\* The end of a fetch, however it ends.
LEMMA EndFetchKeeps ==
    ASSUME CacheInv, NEW r \in Lookups, EndFetch(r)
    PROVE  /\ fetch' \in [Lookups -> SUBSET Fetches]
           /\ fetch'[r] = {} /\ \A s \in Lookups : fetch'[s] \subseteq fetch[s]
           /\ \A s \in Lookups : \A f, g \in fetch'[s] : f = g
           /\ OneFetch'
           /\ UNCHANGED queue => InLine'
<1>1. fetch \in [Lookups -> SUBSET Fetches] /\ \A s \in Lookups : \A f, g \in fetch[s] : f = g
    BY DEF CacheInv, TypeOK
<1>2. /\ fetch' \in [Lookups -> SUBSET Fetches]
      /\ fetch'[r] = {} /\ \A s \in Lookups : s # r => fetch'[s] = fetch[s]
    BY <1>1 DEF EndFetch
<1>3. \A s \in Lookups : fetch'[s] \subseteq fetch[s]
    BY <1>2
<1>4. OneFetch'
    BY <1>3 DEF CacheInv, OneFetch
<1>5. ASSUME UNCHANGED queue PROVE InLine'
  <2>1. \A m \in Kinds : \A i \in DOMAIN queue[m] : queue[m][i].who \in Lookups
    BY QueuedIs DEF CacheInv, TypeOK
  <2>2. \A m \in Kinds : \A i \in DOMAIN queue[m] : fetch'[queue[m][i].who] = {}
    BY <1>3, <2>1 DEF CacheInv, InLine
  <2> QED
    BY <1>5, <2>2 DEF CacheInv, InLine
<1> QED
    BY <1>1, <1>2, <1>3, <1>4, <1>5

LEMMA FetchOkKeeps ==
    ASSUME CacheInv, NEW r \in Lookups, FetchOk(r)
    PROVE  CacheInv'
<1>1. PICK f \in fetch[r], n \in Sizes :
         CachePut([key |-> f.key, age |-> 0, data |-> f.age, size |-> n])
    BY DEF FetchOk
<1> DEFINE e == [key |-> f.key, age |-> 0, data |-> f.age, size |-> n]
<1>2. f \in Fetches
    BY <1>1 DEF CacheInv, TypeOK
<1>3. e \in Entries /\ e.key = f.key
    BY <1>2, AgesAreNumbers DEF Entries, Fetches
<1>4. IsCache(cache) /\ features = SizeOf(cache)
    BY CacheIs DEF CacheInv, Counted
<1>5. CachePut(e) /\ EndFetch(r) /\ queue' = queue /\ stale' = stale
    BY <1>1 DEF FetchOk
<1> HIDE DEF e
<1>6. /\ IsCache(cache') /\ features' \in Nat /\ features' = SizeOf(cache')
      /\ features' <= MaxFeatures /\ Len(cache') <= MaxEntries
      /\ \A i \in DOMAIN cache' :
            cache'[i] = e \/ \E j \in DOMAIN cache : cache'[i] = cache[j] /\ cache[j].key # e.key
    BY <1>3, <1>4, <1>5, PutIs
<1>7. /\ fetch' \in [Lookups -> SUBSET Fetches]
      /\ fetch'[r] = {} /\ \A s \in Lookups : fetch'[s] \subseteq fetch[s]
      /\ \A s \in Lookups : \A g, h \in fetch'[s] : g = h
      /\ OneFetch' /\ InLine'
    BY <1>5, EndFetchKeeps
<1>8. FetchIsNeeded'
  <2> SUFFICES ASSUME NEW s \in Lookups, NEW g \in fetch'[s], NEW i \in DOMAIN cache', cache'[i].key = g.key
               PROVE  cache'[i].age > FreshFor /\ g.age <= cache'[i].data
    BY DEF FetchIsNeeded, Outdated
  <2>1. s # r /\ g \in fetch[s]
    BY <1>7
  <2>2. g.key # e.key
    BY <1>1, <1>3, <2>1 DEF CacheInv, OneFetch
  <2>3. PICK j \in DOMAIN cache : cache'[i] = cache[j]
    BY <1>6, <2>2
  <2> QED
    BY <2>1, <2>3 DEF CacheInv, FetchIsNeeded, Outdated
<1>9. TypeOK'
    BY <1>5, <1>6, <1>7 DEF CacheInv, TypeOK, IsCache
<1>10. Counted'
    BY <1>6 DEF Counted, IsCache
<1> QED
    BY <1>5, <1>7, <1>8, <1>9, <1>10 DEF CacheInv, StaleIsBetween

LEMMA FetchFailedKeeps ==
    ASSUME CacheInv, NEW r \in Lookups, FetchFailed(r)
    PROVE  CacheInv'
<1>1. PICK f \in fetch[r] :
         /\ cache' = Touched(f.key)
         /\ stale' = IF IsUsable(f.key) THEN stale \union {Entry(f.key).age} ELSE stale
    BY DEF FetchFailed
<1>2. EndFetch(r) /\ features' = features /\ queue' = queue
    BY DEF FetchFailed
<1>3. /\ IsCache(cache') /\ SizeOf(cache') = SizeOf(cache) /\ Len(cache') = Len(cache)
      /\ Within(cache', cache)
    BY <1>1, TouchedIs, CacheIs
<1>4. /\ fetch' \in [Lookups -> SUBSET Fetches]
      /\ fetch'[r] = {} /\ \A s \in Lookups : fetch'[s] \subseteq fetch[s]
      /\ \A s \in Lookups : \A g, h \in fetch'[s] : g = h
      /\ OneFetch' /\ InLine'
    BY <1>2, EndFetchKeeps
<1>5. FetchIsNeeded'
    BY <1>3, <1>4 DEF CacheInv, FetchIsNeeded, Outdated, Within
<1>6. stale' \subseteq Ages /\ StaleIsBetween'
  <2>1. stale \subseteq Ages /\ stale \subseteq (FreshFor + 1)..StaleFor
    BY DEF CacheInv, TypeOK, StaleIsBetween
  <2>2. CASE ~IsUsable(f.key)
    BY <1>1, <2>1, <2>2 DEF StaleIsBetween
  <2>3. CASE IsUsable(f.key)
    <3> DEFINE i == Place(f.key)
    <3>1. i \in DOMAIN cache /\ cache[i].key = f.key /\ cache[i].age <= StaleFor
      BY <2>3, PlaceIs DEF IsUsable, Entry
    <3>2. cache[i].age > FreshFor
      BY <3>1 DEF CacheInv, FetchIsNeeded, Outdated
    <3>3. cache[i].age \in Ages
      BY <3>1, CacheIs DEF Entries
    <3>4. stale' = stale \union {cache[i].age}
      BY <1>1, <2>3 DEF Entry
    <3> HIDE DEF i
    <3>5. cache[i].age \in (FreshFor + 1)..StaleFor
      <4>1. cache[i].age \in Nat /\ FreshFor \in Nat /\ StaleFor \in Nat
        BY <3>3, CacheAssumption, AgesAreNumbers
      <4> QED
        BY ONLY <3>1, <3>2, <4>1
    <3> QED
      BY <2>1, <3>3, <3>4, <3>5 DEF StaleIsBetween
  <2> QED
    BY <2>2, <2>3
<1>7. TypeOK'
    BY <1>2, <1>3, <1>4, <1>6 DEF CacheInv, TypeOK, IsCache
<1>8. Counted'
    BY <1>2, <1>3 DEF CacheInv, Counted, IsCache
<1> QED
    BY <1>4, <1>5, <1>6, <1>7, <1>8 DEF CacheInv

\* A queue that someone has left is one that was, without a place.
LEMMA LeftIs ==
    ASSUME NEW q \in Seq(Requests), NEW r
    PROVE  /\ Left(q, r) \in Seq(Requests)
           /\ \E from \in [DOMAIN Left(q, r) -> DOMAIN q] :
                 /\ \A i \in DOMAIN Left(q, r) : Left(q, r)[i] = q[from[i]]
                 /\ \A i, j \in DOMAIN Left(q, r) : from[i] = from[j] => i = j
<1>1. CASE ~ \E i \in DOMAIN q : q[i].who = r
  <2>1. Left(q, r) = q
    BY <1>1 DEF Left
  <2> DEFINE from == [i \in DOMAIN q |-> i]
  <2>2. /\ from \in [DOMAIN q -> DOMAIN q] /\ \A i \in DOMAIN q : q[i] = q[from[i]]
        /\ \A i, j \in DOMAIN q : from[i] = from[j] => i = j
    OBVIOUS
  <2> QED
    BY <2>1, <2>2
<1>2. CASE \E i \in DOMAIN q : q[i].who = r
  <2> DEFINE p == CHOOSE i \in DOMAIN q : q[i].who = r
             w == RemoveAt(q, p)
             n == Len(q)
  <2>1. Left(q, r) = w
    BY <1>2 DEF Left
  <2>2. n \in Nat /\ DOMAIN q = 1..n
    BY LenProperties
  <2>3. p \in 1..n
    BY <1>2, <2>2
  <2> HIDE DEF p
  <2>4. w \in Seq(Requests) /\ Len(w) = n - 1 /\ \A i \in 1..(n - 1) : w[i] = IF i < p THEN q[i] ELSE q[i + 1]
    BY <2>3, RemoveAtIs
  <2>5. DOMAIN w = 1..(n - 1)
    BY <2>4, LenProperties
  <2> HIDE DEF w
  <2> DEFINE from == [i \in 1..(n - 1) |-> IF i < p THEN i ELSE i + 1]
  <2>6. from \in [1..(n - 1) -> 1..n]
    BY <2>2, <2>3
  <2>7. \A i \in 1..(n - 1) : w[i] = q[from[i]]
    BY <2>4
  <2>8. \A i, j \in 1..(n - 1) : from[i] = from[j] => i = j
    BY <2>2, <2>3
  <2> HIDE DEF from
  <2> QED
    BY <2>1, <2>2, <2>4, <2>5, <2>6, <2>7, <2>8
<1> QED
    BY <1>1, <1>2

LEMMA CancelKeeps ==
    ASSUME CacheInv, NEW r \in Lookups, Cancel(r)
    PROVE  CacheInv'
<1>1. /\ EndFetch(r) /\ cache' = cache /\ features' = features /\ stale' = stale
      /\ queue' = [kind \in Kinds |-> Left(queue[kind], r)]
    BY DEF Cancel
<1>2. /\ fetch' \in [Lookups -> SUBSET Fetches]
      /\ fetch'[r] = {} /\ \A s \in Lookups : fetch'[s] \subseteq fetch[s]
      /\ \A s \in Lookups : \A g, h \in fetch'[s] : g = h
      /\ OneFetch'
    BY <1>1, EndFetchKeeps
<1>3. queue \in [Kinds -> Seq(Requests)]
    BY DEF CacheInv, TypeOK
<1>4. ASSUME NEW m \in Kinds
      PROVE  /\ queue'[m] \in Seq(Requests)
             /\ \E from \in [DOMAIN queue'[m] -> DOMAIN queue[m]] :
                   /\ \A i \in DOMAIN queue'[m] : queue'[m][i] = queue[m][from[i]]
                   /\ \A i, j \in DOMAIN queue'[m] : from[i] = from[j] => i = j
  <2>1. queue[m] \in Seq(Requests) /\ queue'[m] = Left(queue[m], r)
    BY <1>1, <1>3
  <2> QED
    BY <2>1, LeftIs
<1>5. queue' \in [Kinds -> Seq(Requests)]
    BY <1>1, <1>4
<1>6. InLine'
  <2> SUFFICES ASSUME NEW m \in Kinds, NEW i \in DOMAIN queue'[m]
               PROVE  /\ KindOf[queue'[m][i].key] = m
                      /\ fetch'[queue'[m][i].who] = {}
                      /\ \A n \in Kinds : \A j \in DOMAIN queue'[n] :
                            queue'[m][i].who = queue'[n][j].who => m = n /\ i = j
    BY DEF InLine
  <2>1. PICK from \in [DOMAIN queue'[m] -> DOMAIN queue[m]] :
           /\ \A j \in DOMAIN queue'[m] : queue'[m][j] = queue[m][from[j]]
           /\ \A j, k \in DOMAIN queue'[m] : from[j] = from[k] => j = k
    BY <1>4
  <2>2. queue'[m][i].who \in Lookups
    BY <1>5, QueuedIs
  <2>3. KindOf[queue'[m][i].key] = m /\ fetch'[queue'[m][i].who] = {}
    <3>1. from[i] \in DOMAIN queue[m] /\ queue'[m][i] = queue[m][from[i]]
      BY <2>1
    <3>2. KindOf[queue[m][from[i]].key] = m /\ fetch[queue[m][from[i]].who] = {}
      BY <3>1 DEF CacheInv, InLine
    <3>3. fetch'[queue'[m][i].who] \subseteq fetch[queue'[m][i].who]
      BY <1>2, <2>2
    <3> QED
      BY <3>1, <3>2, <3>3
  <2>4. ASSUME NEW n \in Kinds, NEW j \in DOMAIN queue'[n], queue'[m][i].who = queue'[n][j].who
        PROVE  m = n /\ i = j
    <3>1. PICK k \in DOMAIN queue[n] : queue'[n][j] = queue[n][k]
      BY <1>4
    <3>2. m = n
      BY <2>1, <2>4, <3>1 DEF CacheInv, InLine
    <3>3. from[i] = from[j]
      BY <2>1, <2>4, <3>2 DEF CacheInv, InLine
    <3> QED
      BY <2>1, <3>2, <3>3
  <2> QED
    BY <2>3, <2>4
<1>7. FetchIsNeeded'
    BY <1>1, <1>2 DEF CacheInv, FetchIsNeeded, Outdated
<1>8. TypeOK' /\ Counted' /\ StaleIsBetween'
    BY <1>1, <1>2, <1>5 DEF CacheInv, TypeOK, Counted, StaleIsBetween
<1> QED
    BY <1>2, <1>6, <1>7, <1>8 DEF CacheInv

LEMMA AgedEntry ==
    ASSUME NEW e \in Entries, NEW x, x = [e EXCEPT !.age = Older(@), !.data = Older(@)]
    PROVE  /\ x \in Entries /\ x.key = e.key /\ x.size = e.size
           /\ x.age = Older(e.age) /\ x.data = Older(e.data) /\ e.age \in Ages /\ e.data \in Ages
<1>1. e = [key |-> e.key, age |-> e.age, data |-> e.data, size |-> e.size]
      /\ e.key \in Keys /\ e.age \in Ages /\ e.data \in Ages /\ e.size \in Sizes
    BY DEF Entries
<1>2. Older(e.age) \in Ages /\ Older(e.data) \in Ages
    BY <1>1, AgesAreNumbers
<1> DEFINE a == Older(e.age)
           d == Older(e.data)
<1>3. x = [key |-> e.key, age |-> a, data |-> d, size |-> e.size]
  <2>1. x = [e EXCEPT !.age = a, !.data = d]
    OBVIOUS
  <2> HIDE DEF a, d
  <2> QED
    BY <1>1, <2>1
<1> HIDE DEF a, d
<1>4. x \in [key : Keys, age : Ages, data : Ages, size : Sizes]
    BY <1>1, <1>2, <1>3 DEF a, d
<1> QED
    BY <1>1, <1>3, <1>4 DEF Entries, a, d

LEMMA TickKeeps ==
    ASSUME CacheInv, Tick
    PROVE  CacheInv'
<1>1. features' = features /\ queue' = queue /\ stale' = stale
    BY DEF Tick
<1>2. /\ IsCache(cache) /\ DOMAIN cache = 1..Len(cache) /\ Len(cache) \in Nat
      /\ \A i \in DOMAIN cache : cache[i] \in Entries
    BY CacheIs
<1>3. DOMAIN cache' = DOMAIN cache
      /\ \A i \in DOMAIN cache : cache'[i] = [cache[i] EXCEPT !.age = Older(@), !.data = Older(@)]
    BY DEF Tick
<1>4. ASSUME NEW i \in DOMAIN cache
      PROVE  /\ cache'[i] \in Entries /\ cache'[i].key = cache[i].key /\ cache'[i].size = cache[i].size
             /\ cache'[i].age = Older(cache[i].age) /\ cache'[i].data = Older(cache[i].data)
             /\ cache[i].age \in Ages /\ cache[i].data \in Ages
    BY <1>2, <1>3, AgedEntry
<1>5. cache' \in Seq(Entries) /\ Len(cache') = Len(cache)
  <2>1. cache' = [i \in 1..Len(cache) |-> cache'[i]]
    BY <1>2, <1>3 DEF Tick
  <2>2. cache' \in [1..Len(cache) -> Entries]
    BY <1>2, <1>4, <2>1
  <2> QED
    BY <1>2, <2>2, SeqDef, LenProperties
<1>6. UniqueKeys(cache')
    BY <1>2, <1>3, <1>4 DEF IsCache, UniqueKeys
<1>7. SizeOf(cache') = SizeOf(cache)
  <2> DEFINE n == Len(cache)
  <2>1. Sized(cache) /\ Sized(cache')
    BY <1>2, <1>5, CacheSized DEF IsCache
  <2>2. Alike(cache', 0, n, cache, 0, n)
    BY <1>2, <1>4, <1>5, <2>1 DEF Alike
  <2>3. Held(cache')[n] - Held(cache')[0] = Held(cache)[n] - Held(cache)[0]
    BY <2>2, SegmentsAgree
  <2>4. Held(cache')[0] = 0 /\ Held(cache)[0] = 0 /\ Held(cache')[n] \in Nat /\ Held(cache)[n] \in Nat
    BY <1>2, <1>5, <2>1, HeldStep, HeldNat
  <2>5. Held(cache')[n] = Held(cache)[n]
    BY <2>3, <2>4
  <2> QED
    BY <1>5, <2>5 DEF SizeOf
<1>8. fetch \in [Lookups -> SUBSET Fetches]
      /\ fetch' = [r \in Lookups |-> {[f EXCEPT !.age = Older(@)] : f \in fetch[r]}]
    BY DEF CacheInv, TypeOK, Tick
<1>9. ASSUME NEW r \in Lookups, NEW g \in fetch'[r]
      PROVE  /\ g \in Fetches
             /\ \E f \in fetch[r] : /\ g.key = f.key /\ g.age = Older(f.age) /\ f.age \in Ages
                                    /\ g = [f EXCEPT !.age = Older(@)]
  <2>1. PICK f \in fetch[r] : g = [f EXCEPT !.age = Older(@)]
    BY <1>8
  <2>2. f \in Fetches /\ f.age \in Ages /\ Older(f.age) \in Ages
    BY <1>8, AgesAreNumbers DEF Fetches
  <2> QED
    BY <2>1, <2>2 DEF Fetches
<1>10. fetch' \in [Lookups -> SUBSET Fetches] /\ \A r \in Lookups : \A f, g \in fetch'[r] : f = g
  <2>1. \A r \in Lookups : \A f, g \in fetch'[r] : f = g
    BY <1>9 DEF CacheInv, TypeOK
  <2>2. \A r \in Lookups : fetch'[r] \subseteq Fetches
    BY <1>9
  <2>3. fetch' = [r \in Lookups |-> fetch'[r]]
    BY <1>8
  <2> QED
    BY <2>1, <2>2, <2>3
<1>11. OneFetch'
    BY <1>9 DEF CacheInv, OneFetch
<1>12. InLine'
  <2>1. \A m \in Kinds : \A i \in DOMAIN queue[m] : queue[m][i].who \in Lookups
    BY QueuedIs DEF CacheInv, TypeOK
  <2>2. \A m \in Kinds : \A i \in DOMAIN queue[m] : fetch'[queue[m][i].who] = {}
    BY <1>9, <2>1 DEF CacheInv, InLine
  <2> QED
    BY <1>1, <2>2 DEF CacheInv, InLine
<1>13. FetchIsNeeded'
  <2> SUFFICES ASSUME NEW r \in Lookups, NEW g \in fetch'[r], NEW i \in DOMAIN cache, cache[i].key = g.key
               PROVE  cache'[i].age > FreshFor /\ g.age <= cache'[i].data
    BY <1>3, <1>4 DEF FetchIsNeeded, Outdated
  <2>1. PICK f \in fetch[r] : g.key = f.key /\ g.age = Older(f.age) /\ f.age \in Ages
    BY <1>9
  <2>2. cache[i].age > FreshFor /\ f.age <= cache[i].data
    BY <2>1 DEF CacheInv, FetchIsNeeded, Outdated
  <2>3. cache[i].age <= Older(cache[i].age) /\ Older(f.age) <= Older(cache[i].data)
    BY <1>4, <2>1, <2>2, AgesAreNumbers
  <2>4. cache[i].age \in Nat /\ Older(cache[i].age) \in Nat /\ FreshFor \in Nat
    BY <1>4, AgesAreNumbers, CacheAssumption
  <2>5. Older(cache[i].age) > FreshFor
    BY ONLY <2>2, <2>3, <2>4
  <2> QED
    BY <1>4, <2>1, <2>3, <2>5
<1>14. TypeOK' /\ Counted' /\ StaleIsBetween'
    BY <1>1, <1>5, <1>6, <1>7, <1>10 DEF CacheInv, TypeOK, Counted, StaleIsBetween
<1> QED
    BY <1>11, <1>12, <1>13, <1>14 DEF CacheInv

LEMMA StepKeeps == CacheInv /\ [Next]_vars => CacheInv'
<1> SUFFICES ASSUME CacheInv, [Next]_vars PROVE CacheInv'
    OBVIOUS
<1>1. ASSUME NEW r \in Lookups, NEW k \in Keys, Lookup(r, k) PROVE CacheInv'
    BY <1>1, LookupKeeps
<1>2. ASSUME NEW r \in Lookups, FetchOk(r) PROVE CacheInv'
    BY <1>2, FetchOkKeeps
<1>3. ASSUME NEW r \in Lookups, FetchFailed(r) PROVE CacheInv'
    BY <1>3, FetchFailedKeeps
<1>4. ASSUME NEW r \in Lookups, Cancel(r) PROVE CacheInv'
    BY <1>4, CancelKeeps
<1>5. ASSUME NEW kind \in Kinds, GetLock(kind) PROVE CacheInv'
    BY <1>5, GetLockKeeps
<1>6. ASSUME Tick PROVE CacheInv'
    BY <1>6, TickKeeps
<1>7. ASSUME UNCHANGED vars PROVE CacheInv'
    BY <1>7 DEF vars, CacheInv, TypeOK, Counted, OneFetch, InLine, FetchIsNeeded, StaleIsBetween
<1> QED
    BY <1>1, <1>2, <1>3, <1>4, <1>5, <1>6, <1>7 DEF Next

LEMMA StartsEmpty == Init => CacheInv
<1> SUFFICES ASSUME Init PROVE CacheInv
    OBVIOUS
<1>1. cache = <<>> /\ cache \in Seq(Entries) /\ Len(cache) = 0 /\ DOMAIN cache = {}
    BY EmptySeq, LenProperties DEF Init
<1>2. queue = [kind \in Kinds |-> <<>>] /\ queue \in [Kinds -> Seq(Requests)]
      /\ \A m \in Kinds : DOMAIN queue[m] = {}
  <2>1. <<>> \in Seq(Requests) /\ DOMAIN <<>> = {}
    BY EmptySeq
  <2> QED
    BY <2>1 DEF Init
<1>3. features = 0 /\ fetch = [r \in Lookups |-> {}] /\ stale = {}
    BY DEF Init
<1>4. SizeOf(cache) = 0
  <2>1. Sized(cache)
    BY <1>1, CacheSized
  <2> QED
    BY <1>1, <2>1, HeldStep DEF SizeOf
<1>5. TypeOK
    BY <1>1, <1>2, <1>3 DEF TypeOK
<1>6. Counted
    BY <1>1, <1>3, <1>4, CacheAssumption DEF Counted, UniqueKeys
<1>7. OneFetch /\ InLine /\ FetchIsNeeded /\ StaleIsBetween
    BY <1>1, <1>2, <1>3 DEF OneFetch, InLine, FetchIsNeeded, Outdated, StaleIsBetween
<1> QED
    BY <1>5, <1>6, <1>7 DEF CacheInv

-----------------------------------------------------------------------------
(***************************************************************************)
(* The theorems.                                                           *)
(***************************************************************************)

\* The inductive invariant: types, the counter, one fetch for a lock, one
\* place for a caller, and no fetch but for what is outdated.
THEOREM CacheInvariance == Spec => []CacheInv
<1> QED
    BY StartsEmpty, StepKeeps, PTL DEF Spec

\* Every state of the cache, the queues and the fetches is well typed.
THEOREM CacheTypes == Spec => []TypeOK
<1>1. CacheInv => TypeOK
    BY DEF CacheInv
<1> QED
    BY CacheInvariance, <1>1, PTL

\* The counter of features is the sum of what is cached, each key is cached
\* once, and both limits hold, through every replacement and eviction.
THEOREM LimitsHold == Spec => []CacheWithinLimits
<1>1. CacheInv => CacheWithinLimits
    BY DEF CacheInv, Counted, UniqueKeys, CacheWithinLimits
<1> QED
    BY CacheInvariance, <1>1, PTL

\* No fetch runs for records that are fresh in the cache.
THEOREM FetchesAreNeeded == Spec => []NoNeedlessFetch
<1>1. CacheInv => NoNeedlessFetch
  <2> SUFFICES ASSUME CacheInv, NEW r \in Lookups, NEW f \in fetch[r], IsFresh(f.key)
               PROVE  FALSE
    BY DEF NoNeedlessFetch
  <2> DEFINE i == Place(f.key)
  <2>1. i \in DOMAIN cache /\ cache[i].key = f.key /\ cache[i].age <= FreshFor
    BY PlaceIs DEF IsFresh, Entry
  <2>2. cache[i].age > FreshFor
    BY <2>1 DEF CacheInv, FetchIsNeeded, Outdated
  <2>3. cache[i].age \in Nat /\ FreshFor \in Nat
    BY <2>1, CacheIs, AgesAreNumbers, CacheAssumption DEF Entries
  <2> QED
    BY ONLY <2>1, <2>2, <2>3
<1> QED
    BY CacheInvariance, <1>1, PTL

\* What is given as stale is past the fresh limit and within the stale one.
THEOREM StaleAgesAreBetween == Spec => []StaleIsBetween
<1>1. CacheInv => StaleIsBetween
    BY DEF CacheInv
<1> QED
    BY CacheInvariance, <1>1, PTL

NeverOlderStep ==
    \A i \in DOMAIN cache, j \in DOMAIN cache' :
       cache[i].key = cache'[j].key /\ cache'[j].age = 0 => cache'[j].data <= cache[i].data

\* A step that keeps the entries as they are replaces none by an older one.
LEMMA KeptIsNotOlder ==
    ASSUME CacheInv, Within(cache', cache)
    PROVE  NeverOlderStep
<1> SUFFICES ASSUME NEW i \in DOMAIN cache, NEW j \in DOMAIN cache', cache[i].key = cache'[j].key
             PROVE  cache'[j].data <= cache[i].data
    BY DEF NeverOlderStep
<1>1. PICK m \in DOMAIN cache : cache'[j] = cache[m]
    BY DEF Within
<1>2. i = m
    BY <1>1, CacheIs DEF IsCache, UniqueKeys
<1>3. cache[i].data \in Nat
    BY CacheIs, AgesAreNumbers DEF Entries
<1> QED
    BY <1>1, <1>2, <1>3

LEMMA StepIsNotOlder ==
    ASSUME CacheInv, [Next]_vars
    PROVE  NeverOlderStep
<1>1. ASSUME NEW k, cache' = Touched(k) PROVE NeverOlderStep
    BY <1>1, TouchedIs, CacheIs, KeptIsNotOlder
<1>2. ASSUME cache' = cache PROVE NeverOlderStep
    BY <1>2, KeptIsNotOlder DEF Within
<1>3. ASSUME NEW r \in Lookups, FetchOk(r) PROVE NeverOlderStep
  <2>1. PICK f \in fetch[r], n \in Sizes :
           CachePut([key |-> f.key, age |-> 0, data |-> f.age, size |-> n])
    BY <1>3 DEF FetchOk
  <2> DEFINE e == [key |-> f.key, age |-> 0, data |-> f.age, size |-> n]
  <2>2. f \in Fetches
    BY <2>1 DEF CacheInv, TypeOK
  <2>3. e \in Entries /\ e.key = f.key /\ e.data = f.age
    BY <2>2, AgesAreNumbers DEF Entries, Fetches
  <2>4. IsCache(cache) /\ features = SizeOf(cache)
    BY CacheIs DEF CacheInv, Counted
  <2> HIDE DEF e
  <2>5. \A i \in DOMAIN cache' :
           cache'[i] = e \/ \E j \in DOMAIN cache : cache'[i] = cache[j] /\ cache[j].key # e.key
    BY <2>1, <2>3, <2>4, PutIs DEF e
  <2> SUFFICES ASSUME NEW i \in DOMAIN cache, NEW j \in DOMAIN cache', cache[i].key = cache'[j].key
               PROVE  cache'[j].data <= cache[i].data
    BY DEF NeverOlderStep
  <2>6. CASE cache'[j] = e
    BY <2>1, <2>3, <2>6 DEF CacheInv, FetchIsNeeded, Outdated
  <2>7. CASE \E m \in DOMAIN cache : cache'[j] = cache[m]
    <3>1. cache'[j] = cache[i]
      BY <2>4, <2>7 DEF IsCache, UniqueKeys
    <3>2. cache[i].data \in Nat
      BY CacheIs, AgesAreNumbers DEF Entries
    <3> QED
      BY <3>1, <3>2
  <2> QED
    BY <2>5, <2>6, <2>7
<1>4. ASSUME Tick PROVE NeverOlderStep
  <2> SUFFICES ASSUME NEW j \in DOMAIN cache', cache'[j].age = 0 PROVE FALSE
    BY DEF NeverOlderStep
  <2>1. j \in DOMAIN cache /\ cache'[j] = [cache[j] EXCEPT !.age = Older(@), !.data = Older(@)]
    BY <1>4 DEF Tick
  <2>2. cache'[j].age = Older(cache[j].age) /\ cache[j].age \in Ages
    BY <2>1, CacheIs, AgedEntry
  <2>3. Older(cache[j].age) \in Nat /\ Older(cache[j].age) > 0
    BY <2>2, AgesAreNumbers
  <2> QED
    BY <2>2, <2>3
<1>5. ASSUME NEW r \in Lookups, NEW k \in Keys, Lookup(r, k) PROVE NeverOlderStep
    BY <1>1, <1>5 DEF Lookup, UnderLock
<1>6. ASSUME NEW r \in Lookups, FetchFailed(r) PROVE NeverOlderStep
    BY <1>1, <1>6 DEF FetchFailed
<1>7. ASSUME NEW r \in Lookups, Cancel(r) PROVE NeverOlderStep
    BY <1>2, <1>7 DEF Cancel
<1>8. ASSUME NEW kind \in Kinds, GetLock(kind) PROVE NeverOlderStep
    BY <1>1, <1>8 DEF GetLock, UnderLock
<1>9. ASSUME UNCHANGED vars PROVE NeverOlderStep
    BY <1>2, <1>9 DEF vars
<1> QED
    BY <1>3, <1>4, <1>5, <1>6, <1>7, <1>8, <1>9 DEF Next

\* The records held for a key are never replaced by ones that were read from
\* the source before them, in whatever order fetches end.
THEOREM NothingOlderReplaces == Spec => NeverOlder
<1>1. CacheInv /\ [Next]_vars => [NeverOlderStep]_vars
    BY StepIsNotOlder
<1>2. [][NeverOlderStep]_vars => NeverOlder
  <2>1. NeverOlderStep => \A i \in DOMAIN cache, j \in DOMAIN cache' :
                             /\ cache[i].key = cache'[j].key
                             /\ cache'[j].age = 0
                             => cache'[j].data <= cache[i].data
    BY DEF NeverOlderStep
  <2> QED
    BY <2>1, PTL DEF NeverOlder
<1> QED
    BY CacheInvariance, <1>1, <1>2, PTL DEF Spec
=============================================================================
