------------------------------ MODULE HtProofs ------------------------------
(***************************************************************************)
(* What the functions of HtFns do, for tables of any size and any trees    *)
(* that keep the assumptions: bucket indices, sums over buckets, and the   *)
(* contents of a table after each call.                                    *)
(***************************************************************************)
EXTENDS HtFns, Induction, FiniteSetTheorems, SequenceTheorems, TLAPS

-----------------------------------------------------------------------------
(* Bucket indices. *)

\* The width of the hashes of one bucket, and the indices of the buckets.
Width(n)  == CONSTPOW_TWO[HASH_BITS - n]
Places(n) == 0 .. (CONSTPOW_TWO[n] - 1)

LEMMA Widths ==
  ASSUME NEW n \in 1 .. HASH_BITS
  PROVE  /\ Width(n) \in Nat \ {0}
         /\ CONSTPOW_TWO[n] \in Nat \ {0}
         /\ CONSTPOW_TWO[HASH_BITS] = CONSTPOW_TWO[n] * Width(n)
<1>1. n \in Nat /\ HASH_BITS - n \in Nat /\ n + (HASH_BITS - n) = HASH_BITS
  BY WidthAssumption
<1>2. CONSTPOW_TWO[n] \in Nat \ {0} /\ CONSTPOW_TWO[HASH_BITS - n] \in Nat \ {0}
  BY <1>1, Doubling
<1>3. CONSTPOW_TWO[n + (HASH_BITS - n)] = CONSTPOW_TWO[n] * CONSTPOW_TWO[HASH_BITS - n]
  BY <1>1, PowerOfSum
<1> QED BY <1>1, <1>2, <1>3 DEF Width

\* Every hash has a bucket.
LEMMA InTable ==
  ASSUME NEW n \in 1 .. HASH_BITS, NEW d \in Key
  PROVE  hashf[d] \in Nat /\ hashf[d] \div Width(n) \in Places(n)
<1> DEFINE h == hashf[d]
           w == Width(n)
           m == CONSTPOW_TWO[n]
           q == h \div w
<1>1. h \in Nat /\ h < m * w /\ w \in Nat \ {0} /\ m \in Nat \ {0}
  BY WidthAssumption, Widths
<1> HIDE DEF h, w, m
<1>2. q \in Nat /\ q * w <= h
  BY <1>1, Quotient
<1> HIDE DEF q
<1>3. q < m
  <2> SUFFICES ASSUME m <= q PROVE FALSE
    BY <1>1, <1>2
  <2>1. m * w <= q * w
    BY <1>1, <1>2
  <2> QED BY <1>1, <1>2, <2>1
<1> QED BY <1>1, <1>2, <1>3 DEF h, w, m, q, Places

-----------------------------------------------------------------------------
(* Sums over the buckets. *)

\* SumOf() adds one size after the other.
LEMMA SumLoop ==
  ASSUME NEW n \in Nat, NEW size, \A i \in 0 .. (n - 1) : size[i] \in Nat
  PROVE  \E sum : /\ sum \in [0 .. n -> Nat] /\ sum[0] = 0
                  /\ \A i \in 0 .. (n - 1) : sum[i + 1] = sum[i] + size[i]
                  /\ SumOf(size, n) = sum[n]
<1> DEFINE sum  == CHOOSE f : f = [j \in 0 .. n |->
                                     IF j = 0 THEN 0 ELSE f[j - 1] + size[j - 1]]
           step == [x \in (0 .. (n - 1)) \X Nat |-> x[2] + size[x[1]]]
<1>1. SumOf(size, n) = sum[n]
  BY DEF SumOf
<1>2. PICK g : Run(n, 0, step, Nat, g)
  <2>1. step \in [(0 .. (n - 1)) \X Nat -> Nat]
    OBVIOUS
  <2> HIDE DEF step
  <2> QED BY <2>1, IterateTo
<1>3. g \in [0 .. n -> Nat] /\ g[0] = 0 /\ \A i \in 0 .. (n - 1) : g[i + 1] = g[i] + size[i]
  <2>1. g \in [0 .. n -> Nat] /\ g[0] = 0
    BY <1>2 DEF Run
  <2>2. ASSUME NEW i \in 0 .. (n - 1)
        PROVE  g[i + 1] = g[i] + size[i]
    <3>1. g[i + 1] = step[<< i, g[i] >>]
      BY <1>2 DEF Run
    <3>2. << i, g[i] >> \in (0 .. (n - 1)) \X Nat
      BY <2>1
    <3> QED BY <3>1, <3>2
  <2> QED BY <2>1, <2>2
<1>4. g = [j \in 0 .. n |-> IF j = 0 THEN 0 ELSE g[j - 1] + size[j - 1]]
  <2>1. ASSUME NEW j \in 0 .. n, j # 0
        PROVE  g[j] = g[j - 1] + size[j - 1]
    <3>1. j - 1 \in 0 .. (n - 1) /\ (j - 1) + 1 = j
      BY <2>1
    <3> QED BY <3>1, <1>3
  <2> QED BY <1>3, <2>1
<1>5. sum = [j \in 0 .. n |-> IF j = 0 THEN 0 ELSE sum[j - 1] + size[j - 1]]
  BY <1>4, Zenon
<1> HIDE DEF sum
<1>6. sum[0] = 0
  BY <1>5
<1>7. ASSUME NEW i \in 0 .. (n - 1)
      PROVE  sum[i + 1] = sum[i] + size[i]
  <2>1. i + 1 \in 0 .. n /\ i + 1 # 0 /\ (i + 1) - 1 = i
    OBVIOUS
  <2> QED BY <1>5, <2>1
<1> DEFINE A == {i \in Nat : i <= n => sum[i] \in Nat}
<1>8. 0 \in A
  BY <1>6
<1>9. ASSUME NEW i \in Nat, i \in A
      PROVE  i + 1 \in A
  <2> SUFFICES ASSUME i + 1 <= n PROVE sum[i + 1] \in Nat
    OBVIOUS
  <2>1. i \in 0 .. (n - 1) /\ sum[i] \in Nat
    BY <1>9
  <2> QED BY <2>1, <1>7
<1>10. Nat \subseteq A
  <2> HIDE DEF A
  <2> QED BY <1>8, <1>9, AllNat
<1>11. sum \in [0 .. n -> Nat]
  BY <1>5, <1>10
<1> QED BY <1>1, <1>6, <1>7, <1>11

\* n disjoint sets with their sizes, and their union.
Parts(n, E, size) ==
  /\ \A i \in 0 .. (n - 1) : IsFiniteSet(E[i]) /\ size[i] = Cardinality(E[i])
  /\ \A i, j \in 0 .. (n - 1) : i # j => E[i] \cap E[j] = {}
Whole(n, E) == UNION {E[i] : i \in 0 .. (n - 1)}

\* The sizes of disjoint sets add up to the size of their union.
LEMMA SumOfSizes ==
  ASSUME NEW n \in Nat, NEW E, NEW size, Parts(n, E, size)
  PROVE  IsFiniteSet(Whole(n, E)) /\ SumOf(size, n) = Cardinality(Whole(n, E))
<1>1. \A i \in 0 .. (n - 1) : size[i] \in Nat
  BY FS_CardinalityType DEF Parts
<1>2. PICK sum : /\ sum \in [0 .. n -> Nat] /\ sum[0] = 0
                 /\ \A i \in 0 .. (n - 1) : sum[i + 1] = sum[i] + size[i]
                 /\ SumOf(size, n) = sum[n]
  BY <1>1, SumLoop
<1> DEFINE U(i) == Whole(i, E)
           A == {i \in Nat : i <= n => IsFiniteSet(U(i)) /\ sum[i] = Cardinality(U(i))}
<1>3. 0 \in A
  <2>1. U(0) = {}
    BY DEF Whole
  <2> HIDE DEF U
  <2> QED BY <2>1, <1>2, FS_EmptySet
<1>4. ASSUME NEW i \in Nat, i \in A
      PROVE  i + 1 \in A
  <2> SUFFICES ASSUME i + 1 <= n PROVE IsFiniteSet(U(i + 1)) /\ sum[i + 1] = Cardinality(U(i + 1))
    OBVIOUS
  <2>1. i \in 0 .. (n - 1) /\ IsFiniteSet(U(i)) /\ sum[i] = Cardinality(U(i))
    BY <1>4
  <2>2. 0 .. ((i + 1) - 1) = (0 .. (i - 1)) \cup {i}
    OBVIOUS
  <2>3. U(i + 1) = U(i) \cup E[i]
    BY <2>2 DEF Whole
  <2>4. U(i) \cap E[i] = {}
    BY <2>1 DEF Parts, Whole
  <2> HIDE DEF U
  <2>5. IsFiniteSet(E[i]) /\ size[i] = Cardinality(E[i])
    BY <2>1 DEF Parts
  <2>6. /\ IsFiniteSet(U(i) \cup E[i])
        /\ Cardinality(U(i) \cup E[i]) = Cardinality(U(i)) + Cardinality(E[i]) - Cardinality(U(i) \cap E[i])
    BY <2>1, <2>5, FS_Union
  <2>7. Cardinality(U(i) \cap E[i]) = 0
    BY <2>4, FS_EmptySet
  <2>8. sum[i + 1] = sum[i] + size[i] /\ sum[i] \in Nat /\ size[i] \in Nat
    BY <1>1, <1>2, <2>1
  <2>9. Cardinality(U(i) \cup E[i]) = sum[i] + size[i] - 0
    BY <2>1, <2>5, <2>6, <2>7
  <2>10. Cardinality(U(i + 1)) = sum[i] + size[i] - 0
    BY <2>3, <2>9
  <2>11. IsFiniteSet(U(i + 1))
    BY <2>3, <2>6
  <2>12. sum[i + 1] = Cardinality(U(i + 1))
    BY <2>8, <2>10
  <2> QED BY <2>11, <2>12
<1>5. n \in A
  <2> HIDE DEF A
  <2> QED BY <1>3, <1>4, AllNat
<1> QED BY <1>2, <1>5

-----------------------------------------------------------------------------
(* Tables. *)

\* ht is a table of 2^n trees, and the hashes of a tree are those of its bucket.
IsTable(ht, n) ==
  /\ ht = [sizeexp |-> n, buckets |-> ht.buckets]
  /\ ht.buckets \in [Places(n) -> Tree]
  /\ \A i \in Places(n) : \A h \in NodeHashes(ht.buckets[i]) : h \div Width(n) = i

\* The loops of ht_equal() see every bucket of a table of an allowed size.
LEMMA EveryBucket ==
  ASSUME NEW n \in TableSizes, NEW ht, IsTable(ht, n)
  PROVE  Counter(ht) = Places(n) /\ DOMAIN ht.buckets = Places(n)
<1>1. ht_nbuckets(ht) = CONSTPOW_TWO[n] /\ CONSTPOW_TWO[n] <= INT_MAX
  BY DEF ht_nbuckets, IsTable, TableSizes
<1>2. DOMAIN ht.buckets = Places(n)
  BY DEF IsTable
<1> QED BY <1>1, <1>2 DEF Counter, ToInt, Places

\* A new table is one, and empty.
LEMMA Initialised ==
  ASSUME NEW n \in 1 .. HASH_BITS
  PROVE  IsTable(ht_init(n, FALSE), n) /\ Content(ht_init(n, FALSE)) = {}
<1> DEFINE ht == ht_init(n, FALSE)
<1>1. ht = [sizeexp |-> n, buckets |-> [i \in Places(n) |-> NULL]]
  BY DEF ht_init, Places
<1> HIDE DEF ht
<1>2. IsTable(ht, n)
  BY <1>1, TreeAssumption DEF IsTable
<1>3. Content(ht) = {}
  BY <1>1, TreeAssumption DEF Content
<1> QED BY <1>2, <1>3 DEF ht

\* Where the elements are.
LEMMA Whereabouts ==
  ASSUME NEW n \in 1 .. HASH_BITS, NEW ht, IsTable(ht, n)
  PROVE  /\ \A i \in Places(n) : \A d \in Elems(ht.buckets[i]) :
              d \in Key /\ hashf[d] \div Width(n) = i
         /\ \A i, j \in Places(n) : i # j => Elems(ht.buckets[i]) \cap Elems(ht.buckets[j]) = {}
         /\ Content(ht) \subseteq Key
         /\ \A d \in Key : d \in Content(ht) <=> d \in Elems(ht.buckets[hashf[d] \div Width(n)])
         /\ \A i \in Places(n) : Elems(ht.buckets[i]) \subseteq Content(ht)
<1>1. DOMAIN ht.buckets = Places(n) /\ \A i \in Places(n) : ht.buckets[i] \in Tree
  BY DEF IsTable
<1>2. ASSUME NEW i \in Places(n), NEW d \in Elems(ht.buckets[i])
      PROVE  d \in Key /\ hashf[d] \div Width(n) = i
  <2>1. d \in Key /\ hashf[d] \in NodeHashes(ht.buckets[i])
    BY <1>1, TreeAssumption
  <2> QED BY <2>1 DEF IsTable
<1>3. ASSUME NEW d \in Key, d \in Content(ht)
      PROVE  d \in Elems(ht.buckets[hashf[d] \div Width(n)])
  <2>1. PICK i \in Places(n) : d \in Elems(ht.buckets[i])
    BY <1>1, <1>3 DEF Content
  <2> QED BY <2>1, <1>2
<1>4. \A i \in Places(n) : Elems(ht.buckets[i]) \subseteq Content(ht)
  BY <1>1 DEF Content
<1>5. \A d \in Key : hashf[d] \div Width(n) \in Places(n)
  BY InTable
<1>6. Content(ht) \subseteq Key
  BY <1>1, <1>2 DEF Content
<1> QED BY <1>2, <1>3, <1>4, <1>5, <1>6

\* The number of elements is counted right, if it is an int.
LEMMA Counts ==
  ASSUME NEW n \in 1 .. HASH_BITS, NEW ht, IsTable(ht, n)
  PROVE  /\ IsFiniteSet(Content(ht))
         /\ HasRoom(ht, {}) => ht_cardinality(ht) = Cardinality(Content(ht))
<1> DEFINE N    == CONSTPOW_TWO[n]
           E    == [i \in Places(n) |-> Elems(ht.buckets[i])]
           size == [i \in DOMAIN ht.buckets |-> tree_cardinality(ht.buckets[i])]
<1>1. DOMAIN ht.buckets = Places(n) /\ \A i \in Places(n) : ht.buckets[i] \in Tree
  BY DEF IsTable
<1>2. N \in Nat /\ Places(n) = 0 .. (N - 1) /\ ht_nbuckets(ht) = N
  BY Widths DEF Places, ht_nbuckets, IsTable
<1>3. Parts(N, E, size)
  BY <1>1, <1>2, TreeAssumption, QueryAssumption, Whereabouts DEF Parts
<1>4. Content(ht) = Whole(N, E)
  BY <1>1, <1>2 DEF Content, Whole
<1>5. ht_cardinality(ht) = ToInt(SumOf(size, N))
  BY <1>2 DEF ht_cardinality
<1> HIDE DEF E, size, N
<1>6. IsFiniteSet(Content(ht)) /\ SumOf(size, N) = Cardinality(Content(ht))
  BY <1>2, <1>3, <1>4, SumOfSizes
<1>7. ASSUME HasRoom(ht, {})
      PROVE  ToInt(Cardinality(Content(ht))) = Cardinality(Content(ht))
  <2>1. Content(ht) \cup {} = Content(ht)
    OBVIOUS
  <2> QED BY <1>7, <2>1 DEF HasRoom, ToInt
<1> QED BY <1>5, <1>6, <1>7

\* A table that had room for more elements, and got some of them, can be counted.
LEMMA StillRoom ==
  ASSUME NEW n \in 1 .. HASH_BITS, NEW ht, IsTable(ht, n), NEW more, IsFiniteSet(more),
         HasRoom(ht, more), NEW new, Content(new) \subseteq Content(ht) \cup more
  PROVE  HasRoom(new, {})
<1>1. IsFiniteSet(Content(ht) \cup more)
  BY Counts, FS_Union
<1>2. /\ IsFiniteSet(Content(new))
      /\ Cardinality(Content(new)) <= Cardinality(Content(ht) \cup more)
  BY <1>1, FS_Subset
<1>3. Cardinality(Content(new)) \in Nat /\ Cardinality(Content(ht) \cup more) \in Nat
  BY <1>1, <1>2, FS_CardinalityType
<1>4. Cardinality(Content(new)) <= INT_MAX
  BY <1>2, <1>3, WidthAssumption DEF HasRoom
<1>5. Content(new) \cup {} = Content(new)
  OBVIOUS
<1> QED BY <1>4, <1>5 DEF HasRoom

-----------------------------------------------------------------------------
(* The calls on a table. *)

\* Hashes of one bucket, and a table with another tree in a bucket.
OfBucket(n, i, hashes) == \A h \in hashes : h \div Width(n) = i
WithTree(ht, i, t)     == [ht EXCEPT !.buckets[i] = t]

\* A tree that changes changes the contents of the table as it does its own.
LEMMA UpdateBucket ==
  ASSUME NEW n \in 1 .. HASH_BITS, NEW ht, IsTable(ht, n), NEW i \in Places(n),
         NEW t, NEW elems, NEW hashes, Holds(t, ht.buckets[i], elems, hashes),
         OfBucket(n, i, hashes)
  PROVE  /\ IsTable(WithTree(ht, i, t), n)
         /\ Content(WithTree(ht, i, t)) = (Content(ht) \ Elems(ht.buckets[i])) \cup elems
<1> DEFINE new == WithTree(ht, i, t)
<1>1. ht = [sizeexp |-> n, buckets |-> ht.buckets] /\ ht.buckets \in [Places(n) -> Tree]
  BY DEF IsTable
<1>2. new = [sizeexp |-> n, buckets |-> [ht.buckets EXCEPT ![i] = t]]
  BY <1>1 DEF WithTree
<1> HIDE DEF new
<1>3. t \in Tree /\ Elems(t) = elems /\ NodeHashes(t) \subseteq NodeHashes(ht.buckets[i]) \cup hashes
  BY DEF Holds
<1>4. /\ new = [sizeexp |-> n, buckets |-> new.buckets]
      /\ new.buckets \in [Places(n) -> Tree]
      /\ new.buckets[i] = t
      /\ \A j \in Places(n) : j # i => new.buckets[j] = ht.buckets[j]
  BY <1>1, <1>2, <1>3
<1>5. IsTable(new, n)
  <2>1. ASSUME NEW j \in Places(n), NEW h \in NodeHashes(new.buckets[j])
        PROVE  h \div Width(n) = j
    <3>1. CASE j = i
      BY <3>1, <1>3, <1>4 DEF IsTable, OfBucket
    <3>2. CASE j # i
      BY <3>2, <1>4 DEF IsTable
    <3> QED BY <3>1, <3>2
  <2> QED BY <2>1, <1>4 DEF IsTable
<1>6. Content(new) = (Content(ht) \ Elems(ht.buckets[i])) \cup elems
  <2>1. DOMAIN ht.buckets = Places(n) /\ DOMAIN new.buckets = Places(n)
    BY <1>1, <1>4
  <2>2. ASSUME NEW d, d \in Content(new)
        PROVE  d \in (Content(ht) \ Elems(ht.buckets[i])) \cup elems
    <3>1. PICK j \in Places(n) : d \in Elems(new.buckets[j])
      BY <2>1, <2>2 DEF Content
    <3>2. CASE j = i
      BY <3>1, <3>2, <1>3, <1>4
    <3>3. CASE j # i
      <4>1. d \in Elems(ht.buckets[j]) /\ d \notin Elems(ht.buckets[i])
        BY <3>1, <3>3, <1>4, Whereabouts
      <4> QED BY <4>1, Whereabouts
    <3> QED BY <3>2, <3>3
  <2>3. ASSUME NEW d, d \in Content(ht), d \notin Elems(ht.buckets[i])
        PROVE  d \in Content(new)
    <3>1. PICK j \in Places(n) : d \in Elems(ht.buckets[j])
      BY <2>1, <2>3 DEF Content
    <3>2. j # i /\ new.buckets[j] = ht.buckets[j]
      BY <3>1, <2>3, <1>4
    <3> QED BY <3>1, <3>2, <2>1 DEF Content
  <2>4. elems \subseteq Content(new)
    BY <1>3, <1>4, <2>1 DEF Content
  <2> QED BY <2>2, <2>3, <2>4
<1> QED BY <1>5, <1>6 DEF new

\* The bucket of an element.
LEMMA BucketOf ==
  ASSUME NEW n \in 1 .. HASH_BITS, NEW ht, IsTable(ht, n), NEW d \in Key
  PROVE  LET i == bucket_index(ht, hashf[d])
         IN  /\ i = hashf[d] \div Width(n) /\ i \in Places(n)
             /\ ht.buckets[i] \in Tree
             /\ d \in Content(ht) <=> d \in Elems(ht.buckets[i])
             /\ Elems(ht.buckets[i]) \subseteq Content(ht)
<1>1. bucket_index(ht, hashf[d]) = hashf[d] \div Width(n)
  BY DEF bucket_index, Width, IsTable
<1>2. hashf[d] \div Width(n) \in Places(n)
  BY InTable
<1>3. ht.buckets[hashf[d] \div Width(n)] \in Tree
  BY <1>2 DEF IsTable
<1> QED BY <1>1, <1>2, <1>3, Whereabouts

\* ins: the result of inserting d into a table of size n that held before.
Inserted(ins, n, before, d) ==
  /\ IsTable(ins.ht, n)
  /\ \/ d \notin before /\ ins.ret = OK /\ Content(ins.ht) = before \cup {d}
     \/ /\ ins.ret = IF d \in before THEN EEXIST ELSE ENOMEM
        /\ Content(ins.ht) = before

\* ht_insert adds its element, or changes nothing and says why.
LEMMA Inserts ==
  ASSUME NEW n \in 1 .. HASH_BITS, NEW ht, IsTable(ht, n), NEW d \in Key,
         NEW nomem \in {"none", "node", "cell"}
  PROVE  Inserted(ht_insert(ht, d, nomem), n, Content(ht), d)
<1> DEFINE i   == bucket_index(ht, hashf[d])
           old == ht.buckets[i]
           ins == tree_insert(old, d, nomem)
           new == WithTree(ht, i, ins.root)
<1>1. ht_insert(ht, d, nomem) = [ret |-> ins.ret, ht |-> new]
  BY DEF ht_insert, WithTree
<1>2. /\ i = hashf[d] \div Width(n) /\ i \in Places(n) /\ old \in Tree
      /\ d \in Content(ht) <=> d \in Elems(old)
      /\ Elems(old) \subseteq Content(ht)
  BY BucketOf
<1>3. \/ d \notin Elems(old) /\ ins.ret = OK /\ Holds(ins.root, old, Elems(old) \cup {d}, {hashf[d]})
      \/ /\ ins.ret = IF d \in Elems(old) THEN EEXIST ELSE ENOMEM
         /\ Holds(ins.root, old, Elems(old), {hashf[d]})
  <2>1. old \in Tree
    BY <1>2
  <2> HIDE DEF old
  <2> QED BY <2>1, UpdateAssumption
<1> HIDE DEF i, ins
<1>4. OfBucket(n, i, {hashf[d]})
  BY <1>2 DEF OfBucket
<1>5. CASE /\ d \notin Elems(old) /\ ins.ret = OK
           /\ Holds(ins.root, old, Elems(old) \cup {d}, {hashf[d]})
  <2> DEFINE elems == Elems(old) \cup {d}
  <2>1. IsTable(new, n) /\ Content(new) = (Content(ht) \ Elems(old)) \cup elems
    <3>1. Holds(ins.root, ht.buckets[i], elems, {hashf[d]})
      BY <1>5
    <3> HIDE DEF elems
    <3> QED BY <3>1, <1>2, <1>4, UpdateBucket
  <2>2. Content(new) = Content(ht) \cup {d}
    BY <2>1, <1>2
  <2>3. d \notin Content(ht) /\ ins.ret = OK
    BY <1>2, <1>5
  <2> HIDE DEF new
  <2> QED BY ONLY <1>1, <2>1, <2>2, <2>3 DEF Inserted
<1>6. CASE /\ ins.ret = IF d \in Elems(old) THEN EEXIST ELSE ENOMEM
           /\ Holds(ins.root, old, Elems(old), {hashf[d]})
  <2>1. IsTable(new, n) /\ Content(new) = (Content(ht) \ Elems(old)) \cup Elems(old)
    <3>1. Holds(ins.root, ht.buckets[i], Elems(old), {hashf[d]})
      BY <1>6
    <3> QED BY <3>1, <1>2, <1>4, UpdateBucket
  <2>2. Content(new) = Content(ht)
    BY <2>1, <1>2
  <2>3. ins.ret = IF d \in Content(ht) THEN EEXIST ELSE ENOMEM
    BY <1>2, <1>6
  <2> HIDE DEF new
  <2> QED BY <1>1, <2>1, <2>2, <2>3 DEF Inserted
<1> QED BY <1>3, <1>5, <1>6

\* ht_del removes its element, and says if it was there.
LEMMA Deletes ==
  ASSUME NEW n \in 1 .. HASH_BITS, NEW ht, IsTable(ht, n), NEW d \in Key
  PROVE  LET del == ht_del(ht, d)
         IN  /\ IsTable(del.ht, n)
             /\ del.ret = IF d \in Content(ht) THEN OK ELSE EEXIST
             /\ Content(del.ht) = Content(ht) \ {d}
<1> DEFINE i   == bucket_index(ht, hashf[d])
           old == ht.buckets[i]
           del == tree_del(old, d)
           new == WithTree(ht, i, del.root)
<1>1. ht_del(ht, d) = [ret |-> del.ret, ht |-> new]
  BY DEF ht_del, WithTree
<1>2. /\ i = hashf[d] \div Width(n) /\ i \in Places(n) /\ old \in Tree
      /\ d \in Content(ht) <=> d \in Elems(old)
      /\ Elems(old) \subseteq Content(ht)
  BY BucketOf
<1>3. /\ del.ret = IF d \in Elems(old) THEN OK ELSE EEXIST
      /\ Holds(del.root, old, Elems(old) \ {d}, {})
  <2>1. old \in Tree
    BY <1>2
  <2> HIDE DEF old
  <2> QED BY <2>1, UpdateAssumption
<1> HIDE DEF i, del
<1> DEFINE elems == Elems(old) \ {d}
<1>4. IsTable(new, n) /\ Content(new) = (Content(ht) \ Elems(old)) \cup elems
  <2>1. Holds(del.root, ht.buckets[i], elems, {})
    BY <1>3
  <2>2. OfBucket(n, i, {})
    BY DEF OfBucket
  <2> HIDE DEF elems
  <2> QED BY <2>1, <2>2, <1>2, UpdateBucket
<1>5. Content(new) = Content(ht) \ {d}
  BY <1>2, <1>4
<1>6. del.ret = IF d \in Content(ht) THEN OK ELSE EEXIST
  BY <1>2, <1>3
<1> HIDE DEF new, elems
<1> QED BY ONLY <1>1, <1>4, <1>5, <1>6

\* ht_find finds what is there.
LEMMA Finds ==
  ASSUME NEW n \in 1 .. HASH_BITS, NEW ht, IsTable(ht, n), NEW d \in Key
  PROVE  ht_find(ht, d) = IF d \in Content(ht) THEN d ELSE NULL
BY BucketOf, QueryAssumption DEF ht_find

\* ht_ndel removes what its predicate holds of, unless a tree crashes.
LEMMA DeletesIf ==
  ASSUME NEW n \in 1 .. HASH_BITS, NEW ht, IsTable(ht, n), NEW P \in SUBSET Key,
         ~ht_ndel(ht, P).crash
  PROVE  /\ IsTable(ht_ndel(ht, P).ht, n)
         /\ Content(ht_ndel(ht, P).ht) = Content(ht) \ P
<1> DEFINE del == [i \in DOMAIN ht.buckets |-> tree_ndel(ht.buckets[i], P)]
           new == ht_ndel(ht, P).ht
<1>1. ht = [sizeexp |-> n, buckets |-> ht.buckets] /\ ht.buckets \in [Places(n) -> Tree]
  BY DEF IsTable
<1>2. /\ new = [ht EXCEPT !.buckets = [i \in DOMAIN del |-> del[i].root]]
      /\ \A i \in DOMAIN del : ~del[i].crash
  BY DEF ht_ndel
<1>3. DOMAIN del = Places(n) /\ \A i \in Places(n) : del[i] = tree_ndel(ht.buckets[i], P)
  BY <1>1
<1> HIDE DEF del, new
<1>4. \A i \in Places(n) : Holds(del[i].root, ht.buckets[i], Elems(ht.buckets[i]) \ P, {})
  BY <1>1, <1>2, <1>3, QueryAssumption
<1>5. new = [sizeexp |-> n, buckets |-> [i \in Places(n) |-> del[i].root]]
  BY <1>1, <1>2, <1>3
<1>6. /\ new = [sizeexp |-> n, buckets |-> new.buckets]
      /\ new.buckets \in [Places(n) -> Tree]
      /\ \A i \in Places(n) : /\ Elems(new.buckets[i]) = Elems(ht.buckets[i]) \ P
                             /\ NodeHashes(new.buckets[i]) \subseteq NodeHashes(ht.buckets[i])
  BY <1>4, <1>5 DEF Holds
<1>7. IsTable(new, n)
  BY <1>6 DEF IsTable
<1>8. Content(new) = Content(ht) \ P
  <2>1. DOMAIN new.buckets = Places(n) /\ DOMAIN ht.buckets = Places(n)
    BY <1>1, <1>6
  <2> QED BY <2>1, <1>6 DEF Content
<1> QED BY <1>7, <1>8 DEF new

-----------------------------------------------------------------------------
(* Selection. *)

\* A selection of one set and then another is one of their union.
LEMMA JoinSelected ==
  ASSUME NEW A, NEW B, A \cap B = {}, NEW Bad,
         NEW a, Selected(a, A, Bad), a.ret = OK, NEW b, Selected(b, B, Bad)
  PROVE  Selected([b EXCEPT !.seen = a.seen \o @], A \cup B, Bad)
<1> DEFINE s == a.seen
           t == b.seen
           u == s \o t
           c == [b EXCEPT !.seen = a.seen \o @]
<1>1. /\ s \in Seq(A) /\ IsInjective(s) /\ A = ToSet(s)
      /\ \A i \in 1 .. (Len(s) - 1) : s[i] \notin Bad
      /\ s # << >> => s[Len(s)] \notin Bad
  BY DEF Selected, OK, EEXIST
<1>2. /\ b = [ret |-> b.ret, seen |-> t] /\ t \in Seq(B) /\ IsInjective(t)
      /\ \A i \in 1 .. (Len(t) - 1) : t[i] \notin Bad
      /\ \/ b.ret = EEXIST /\ t # << >> /\ t[Len(t)] \in Bad
         \/ b.ret = OK /\ B = ToSet(t) /\ (t # << >> => t[Len(t)] \notin Bad)
  BY DEF Selected
<1>3. c = [ret |-> b.ret, seen |-> u]
  <2>1. \A v, w, x : [[ret |-> v, seen |-> w] EXCEPT !.seen = x] = [ret |-> v, seen |-> x]
    OBVIOUS
  <2>2. c = [b EXCEPT !.seen = u]
    OBVIOUS
  <2> HIDE DEF c, t, u
  <2> QED BY <2>1, <2>2, <1>2
<1> HIDE DEF s, t, c
<1>4. s \in Seq(A \cup B) /\ t \in Seq(A \cup B)
  BY <1>1, <1>2, SeqMonotonic
<1>5. /\ u \in Seq(A \cup B) /\ Len(u) = Len(s) + Len(t)
      /\ \A i \in 1 .. Len(s) : u[i] = s[i] /\ u[i] \in A
      /\ \A i \in (Len(s) + 1) .. Len(u) : u[i] = t[i - Len(s)] /\ u[i] \in B
      /\ Len(s) \in Nat /\ Len(t) \in Nat
      /\ DOMAIN u = 1 .. Len(u) /\ DOMAIN s = 1 .. Len(s) /\ DOMAIN t = 1 .. Len(t)
  <2>1. /\ Len(s) \in Nat /\ Len(t) \in Nat
        /\ DOMAIN s = 1 .. Len(s) /\ DOMAIN t = 1 .. Len(t)
        /\ \A i \in 1 .. Len(s) : s[i] \in A
        /\ \A i \in 1 .. Len(t) : t[i] \in B
    BY <1>1, <1>2, LenProperties, ElementOfSeq
  <2>2. /\ u \in Seq(A \cup B) /\ Len(u) = Len(s) + Len(t)
        /\ \A i \in 1 .. (Len(s) + Len(t)) : u[i] = IF i <= Len(s) THEN s[i] ELSE t[i - Len(s)]
    BY <1>4, ConcatProperties
  <2>3. DOMAIN u = 1 .. Len(u)
    BY <2>2, LenProperties
  <2> HIDE DEF u
  <2>4. ASSUME NEW i \in 1 .. Len(s)
        PROVE  u[i] = s[i]
    BY <2>1, <2>2
  <2>5. ASSUME NEW i \in (Len(s) + 1) .. Len(u)
        PROVE  u[i] = t[i - Len(s)] /\ i - Len(s) \in 1 .. Len(t)
    BY <2>1, <2>2
  <2> QED BY <2>1, <2>2, <2>3, <2>4, <2>5
<1> HIDE DEF u
<1>6. IsInjective(u)
  <2> SUFFICES ASSUME NEW i \in 1 .. Len(u), NEW j \in 1 .. Len(u), u[i] = u[j]
               PROVE  i = j
    BY <1>5 DEF IsInjective
  <2>1. CASE i <= Len(s) /\ j <= Len(s)
    BY <2>1, <1>1, <1>5 DEF IsInjective
  <2>2. CASE i > Len(s) /\ j > Len(s)
    <3>1. i - Len(s) \in 1 .. Len(t) /\ j - Len(s) \in 1 .. Len(t)
      BY <2>2, <1>5
    <3>2. t[i - Len(s)] = t[j - Len(s)]
      BY <2>2, <1>5
    <3>3. i - Len(s) = j - Len(s)
      BY <3>1, <3>2, <1>2, <1>5 DEF IsInjective
    <3> QED BY <3>3, <1>5
  <2>3. CASE \/ i <= Len(s) /\ j > Len(s)
             \/ i > Len(s) /\ j <= Len(s)
    BY <2>3, <1>5
  <2> QED BY <2>1, <2>2, <2>3, <1>5
<1>7. ASSUME NEW i \in 1 .. (Len(u) - 1)
      PROVE  u[i] \notin Bad
  <2>1. CASE i <= Len(s)
    <3>1. Len(s) \in Nat /\ Len(t) \in Nat /\ Len(u) = Len(s) + Len(t)
      BY <1>5
    <3>2. i \in 1 .. Len(s) /\ Len(s) # 0 /\ (i = Len(s) \/ i \in 1 .. (Len(s) - 1))
      BY <2>1, <3>1
    <3>3. s # << >>
      BY <3>2, EmptySeq
    <3> QED BY <3>2, <3>3, <1>1, <1>5
  <2>2. CASE i > Len(s)
    <3>1. u[i] = t[i - Len(s)] /\ i - Len(s) \in 1 .. (Len(t) - 1)
      BY <2>2, <1>5
    <3> QED BY <3>1, <1>2
  <2> QED BY <2>1, <2>2, <1>5
<1>8. ToSet(u) = ToSet(s) \cup ToSet(t)
  <2>1. ToSet(u) \subseteq ToSet(s) \cup ToSet(t)
    <3> SUFFICES ASSUME NEW i \in 1 .. Len(u) PROVE u[i] \in ToSet(s) \cup ToSet(t)
      BY <1>5 DEF ToSet
    <3>1. CASE i <= Len(s)
      BY <3>1, <1>5 DEF ToSet
    <3>2. CASE i > Len(s)
      <4>1. u[i] = t[i - Len(s)] /\ i - Len(s) \in 1 .. Len(t)
        BY <3>2, <1>5
      <4> QED BY <4>1, <1>5 DEF ToSet
    <3> QED BY <3>1, <3>2, <1>5
  <2>2. ASSUME NEW i \in 1 .. Len(s)
        PROVE  s[i] \in ToSet(u)
    <3>1. i \in 1 .. Len(u) /\ u[i] = s[i]
      BY <1>5
    <3> QED BY <3>1, <1>5 DEF ToSet
  <2>3. ASSUME NEW i \in 1 .. Len(t)
        PROVE  t[i] \in ToSet(u)
    <3>1. Len(s) + i \in (Len(s) + 1) .. Len(u) /\ (Len(s) + i) - Len(s) = i
      BY <1>5
    <3>2. u[Len(s) + i] = t[i] /\ Len(s) + i \in 1 .. Len(u)
      BY <3>1, <1>5
    <3> QED BY <3>2, <1>5 DEF ToSet
  <2>4. ToSet(s) \subseteq ToSet(u)
    BY <2>2 DEF ToSet
  <2>5. ToSet(t) \subseteq ToSet(u)
    BY <2>3 DEF ToSet
  <2> QED BY <2>1, <2>4, <2>5
<1>9. CASE b.ret = EEXIST /\ t # << >> /\ t[Len(t)] \in Bad
  <2>1. Len(t) > 0
    BY <1>9, <1>2, EmptySeq
  <2>2. Len(u) \in (Len(s) + 1) .. Len(u) /\ Len(u) - Len(s) = Len(t)
    BY <2>1, <1>5
  <2>3. u[Len(u)] = t[Len(t)] /\ u # << >>
    BY <2>2, <1>5
  <2> QED BY <2>3, <1>3, <1>5, <1>6, <1>7, <1>9 DEF c, Selected
<1>10. CASE b.ret = OK /\ B = ToSet(t) /\ (t # << >> => t[Len(t)] \notin Bad)
  <2>1. ASSUME u # << >>
        PROVE  u[Len(u)] \notin Bad
    <3>1. CASE t = << >>
      <4>1. Len(t) = 0 /\ Len(u) = Len(s) /\ Len(u) > 0
        BY <3>1, <2>1, <1>5, EmptySeq
      <4>2. s # << >> /\ u[Len(u)] = s[Len(s)]
        BY <4>1, <1>5
      <4> QED BY <4>2, <1>1
    <3>2. CASE t # << >>
      <4>1. Len(t) > 0
        BY <3>2, <1>2, EmptySeq
      <4>2. Len(u) \in (Len(s) + 1) .. Len(u) /\ Len(u) - Len(s) = Len(t)
        BY <4>1, <1>5
      <4> QED BY <4>2, <3>2, <1>5, <1>10
    <3> QED BY <3>1, <3>2
  <2> QED BY <2>1, <1>1, <1>3, <1>5, <1>6, <1>7, <1>8, <1>10 DEF c, Selected
<1> QED BY <1>2, <1>9, <1>10

\* A selection that failed is one of any larger set.
LEMMA FailedSelected ==
  ASSUME NEW A, NEW B, A \subseteq B, NEW Bad, NEW a, Selected(a, A, Bad), a.ret < 0
  PROVE  Selected(a, B, Bad)
<1>1. a.seen \in Seq(A)
  BY DEF Selected
<1>2. a.seen \in Seq(B)
  BY <1>1, SeqMonotonic
<1> QED BY <1>2 DEF Selected, OK

\* ht_select walks over all buckets until procf() fails.
LEMMA Selects ==
  ASSUME NEW n \in 1 .. HASH_BITS, NEW ht, IsTable(ht, n),
         NEW P \in SUBSET Key, NEW Bad \in SUBSET Key
  PROVE  Selected(ht_select(ht, P, Bad), Content(ht) \cap P, Bad)
<1> DEFINE N    == ht_nbuckets(ht)
           t(j) == tree_select(ht.buckets[N - j], P, Bad)
           On(j, sofar) == IF sofar.ret < 0 THEN sofar
                           ELSE [t(j) EXCEPT !.seen = sofar.seen \o @]
           walk == CHOOSE f : f = [j \in 0 .. N |->
                                     IF j = 0 THEN [ret |-> OK, seen |-> << >>] ELSE On(j, f[j - 1])]
           S    == [ret : {OK, EEXIST}, seen : Seq(Key)]
           step == [x \in (0 .. (N - 1)) \X S |-> On(x[1] + 1, x[2])]
           Top(j) == UNION {Elems(ht.buckets[i]) \cap P : i \in (N - j) .. (N - 1)}
<1>1. ht_select(ht, P, Bad) = walk[N]
  BY DEF ht_select
<1>2. /\ N \in Nat /\ Places(n) = 0 .. (N - 1)
      /\ ht.buckets \in [Places(n) -> Tree]
  BY Widths DEF Places, ht_nbuckets, IsTable
<1> HIDE DEF N
<1>3. ASSUME NEW j \in 1 .. N
      PROVE  /\ N - j \in Places(n)
             /\ Selected(t(j), Elems(ht.buckets[N - j]) \cap P, Bad)
             /\ Elems(ht.buckets[N - j]) \subseteq Key
  <2>1. N - j \in Places(n) /\ ht.buckets[N - j] \in Tree
    BY <1>2
  <2> QED BY <2>1, TreeAssumption, QueryAssumption
<1>4. ASSUME NEW j \in 1 .. N
      PROVE  t(j) = [ret |-> t(j).ret, seen |-> t(j).seen] /\ t(j) \in S
  <2>1. /\ t(j) = [ret |-> t(j).ret, seen |-> t(j).seen]
        /\ t(j).seen \in Seq(Elems(ht.buckets[N - j]) \cap P)
        /\ t(j).ret \in {OK, EEXIST}
    BY <1>3 DEF Selected
  <2>2. t(j).seen \in Seq(Key)
    BY <1>3, <2>1, SeqMonotonic
  <2> HIDE DEF t
  <2> QED BY <2>1, <2>2
<1>5. ASSUME NEW j \in 1 .. N, NEW sofar \in S
      PROVE  On(j, sofar) \in S
  <2> DEFINE more == [t(j) EXCEPT !.seen = sofar.seen \o @]
  <2>1. sofar.seen \o t(j).seen \in Seq(Key)
    BY <1>4, ConcatProperties
  <2>2. more \in S
    BY <1>4, <2>1
  <2> HIDE DEF S
  <2> QED BY <2>2
<1> HIDE DEF t, On
<1>6. PICK g : Run(N, [ret |-> OK, seen |-> << >>], step, S, g)
  <2>1. step \in [(0 .. (N - 1)) \X S -> S]
    <3>1. ASSUME NEW x \in (0 .. (N - 1)) \X S
          PROVE  On(x[1] + 1, x[2]) \in S
      <4>1. x[1] + 1 \in 1 .. N /\ x[2] \in S
        BY <1>2
      <4> HIDE DEF S
      <4> QED BY <4>1, <1>5
    <3> HIDE DEF S
    <3> QED BY <3>1
  <2>2. [ret |-> OK, seen |-> << >>] \in S
    BY EmptySeq
  <2> HIDE DEF step, S
  <2> QED BY <1>2, <2>1, <2>2, IterateTo
<1>7. g = [j \in 0 .. N |-> IF j = 0 THEN [ret |-> OK, seen |-> << >>] ELSE On(j, g[j - 1])]
  <2> HIDE DEF S
  <2>1. g \in [0 .. N -> S] /\ g[0] = [ret |-> OK, seen |-> << >>]
    BY <1>6 DEF Run
  <2>2. ASSUME NEW j \in 0 .. N, j # 0
        PROVE  g[j] = On(j, g[j - 1])
    <3>1. j - 1 \in 0 .. (N - 1) /\ (j - 1) + 1 = j /\ g[j - 1] \in S
      BY <1>2, <2>1, <2>2
    <3>2. g[(j - 1) + 1] = step[<< j - 1, g[j - 1] >>]
      BY <1>6, <3>1 DEF Run
    <3>3. step[<< j - 1, g[j - 1] >>] = On((j - 1) + 1, g[j - 1])
      BY <3>1
    <3> QED BY <3>1, <3>2, <3>3
  <2> QED BY <2>1, <2>2
<1>8. walk = [j \in 0 .. N |-> IF j = 0 THEN [ret |-> OK, seen |-> << >>] ELSE On(j, walk[j - 1])]
  BY <1>7, Zenon
<1> HIDE DEF walk
<1> DEFINE A == {j \in Nat : j <= N => Selected(walk[j], Top(j), Bad)}
<1>9. 0 \in A
  <2>1. walk[0] = [ret |-> OK, seen |-> << >>]
    BY <1>2, <1>8
  <2>2. Top(0) = {}
    BY <1>2
  <2>3. Selected([ret |-> OK, seen |-> << >>], {}, Bad)
    BY EmptySeq DEF Selected, IsInjective, ToSet
  <2> HIDE DEF Top
  <2> QED BY <2>1, <2>2, <2>3
<1>10. ASSUME NEW j \in Nat, j \in A
       PROVE  j + 1 \in A
  <2> SUFFICES ASSUME j + 1 <= N PROVE Selected(walk[j + 1], Top(j + 1), Bad)
    OBVIOUS
  <2> DEFINE T == Elems(ht.buckets[N - (j + 1)]) \cap P
  <2>1. j + 1 \in 1 .. N /\ j + 1 \in 0 .. N /\ j + 1 # 0 /\ (j + 1) - 1 = j
    BY <1>2
  <2>2. walk[j + 1] = On(j + 1, walk[j])
    BY <1>8, <2>1
  <2>3. Selected(walk[j], Top(j), Bad)
    BY <1>10, <1>2
  <2>4. (N - (j + 1)) .. (N - 1) = {N - (j + 1)} \cup ((N - j) .. (N - 1))
    BY <1>2, <2>1
  <2>5. Top(j + 1) = Top(j) \cup T
    BY <2>4
  <2>6. Top(j) \cap T = {}
    <3>1. ASSUME NEW i \in (N - j) .. (N - 1)
          PROVE  i \in Places(n) /\ i # N - (j + 1)
      BY <1>2, <2>1
    <3>2. N - (j + 1) \in Places(n)
      BY <1>3, <2>1
    <3> QED BY <3>1, <3>2, Whereabouts
  <2>7. Selected(t(j + 1), T, Bad)
    BY <1>3, <2>1
  <2> HIDE DEF Top, T
  <2>8. CASE walk[j].ret < 0
    <3>1. walk[j + 1] = walk[j]
      BY <2>2, <2>8 DEF On
    <3> QED BY <2>3, <2>5, <2>8, <3>1, FailedSelected
  <2>9. CASE ~(walk[j].ret < 0)
    <3>1. walk[j + 1] = [t(j + 1) EXCEPT !.seen = walk[j].seen \o @]
      BY <2>2, <2>9 DEF On
    <3>2. walk[j].ret = OK
      BY <2>3, <2>9 DEF Selected, EEXIST
    <3>3. Selected([t(j + 1) EXCEPT !.seen = walk[j].seen \o @], Top(j) \cup T, Bad)
      BY <2>3, <2>6, <2>7, <3>2, JoinSelected
    <3> QED BY <2>5, <3>1, <3>3
  <2> QED BY <2>8, <2>9
<1>11. N \in A
  <2> HIDE DEF A
  <2> QED BY <1>2, <1>9, <1>10, AllNat
<1>12. Top(N) = Content(ht) \cap P
  <2>1. N - N = 0 /\ DOMAIN ht.buckets = 0 .. (N - 1)
    BY <1>2
  <2> QED BY <2>1 DEF Content
<1>13. Selected(walk[N], Top(N), Bad)
  BY <1>2, <1>11
<1> HIDE DEF Top
<1> QED BY <1>1, <1>12, <1>13

-----------------------------------------------------------------------------
(* Comparison. *)

\* Of two sizes, the buckets of the larger table divide those of the smaller.
LEMMA Groups ==
  ASSUME NEW k \in 1 .. HASH_BITS, NEW n \in 1 .. HASH_BITS, k >= n
  PROVE  LET denom == CONSTPOW_TWO[k - n]
         IN  /\ denom \in Nat \ {0}
             /\ \A d \in Key : (hashf[d] \div Width(k)) \div denom = hashf[d] \div Width(n)
             /\ \A i \in Nat : \A j \in 0 .. (denom - 1) :
                  denom * i + j \in Nat /\ (denom * i + j) \div denom = i
             /\ \A q \in Nat : /\ q - denom * (q \div denom) \in 0 .. (denom - 1)
                              /\ denom * (q \div denom) + (q - denom * (q \div denom)) = q
<1> DEFINE denom == CONSTPOW_TWO[k - n]
<1>1. k - n \in Nat /\ HASH_BITS - k \in Nat /\ (HASH_BITS - k) + (k - n) = HASH_BITS - n
  BY WidthAssumption
<1>2. denom \in Nat \ {0} /\ Width(n) = Width(k) * denom /\ Width(k) \in Nat \ {0}
  <2>1. denom \in Nat \ {0} /\ CONSTPOW_TWO[HASH_BITS - k] \in Nat \ {0}
    BY <1>1, Doubling
  <2>2. CONSTPOW_TWO[(HASH_BITS - k) + (k - n)] = CONSTPOW_TWO[HASH_BITS - k] * CONSTPOW_TWO[k - n]
    BY ONLY <1>1, PowerOfSum
  <2> QED BY <1>1, <2>1, <2>2 DEF Width
<1> HIDE DEF denom
<1>3. ASSUME NEW d \in Key
      PROVE  (hashf[d] \div Width(k)) \div denom = hashf[d] \div Width(n)
  <2>1. hashf[d] \in Nat
    BY InTable
  <2> QED BY <1>2, <2>1, QuotientOfQuotient
<1>4. ASSUME NEW i \in Nat, NEW j \in 0 .. (denom - 1)
      PROVE  denom * i + j \in Nat /\ (denom * i + j) \div denom = i
  <2>1. denom * i \in Nat /\ denom * i = i * denom
    BY <1>2
  <2>2. denom * i + j \in Nat /\ i * denom <= denom * i + j /\ denom * i + j < i * denom + denom
    BY <2>1, <1>2
  <2> QED BY <2>2, <1>2, Quotient
<1>5. ASSUME NEW q \in Nat
      PROVE  /\ q - denom * (q \div denom) \in 0 .. (denom - 1)
             /\ denom * (q \div denom) + (q - denom * (q \div denom)) = q
  <2>1. q \div denom \in Nat /\ (q \div denom) * denom <= q /\ q < (q \div denom) * denom + denom
    BY <1>2, Quotient
  <2>2. denom * (q \div denom) = (q \div denom) * denom /\ denom * (q \div denom) \in Nat
    BY <1>2, <2>1
  <2> QED BY <1>2, <2>1, <2>2
<1> QED BY <1>2, <1>3, <1>4, <1>5 DEF denom

\* The elements in the i-th group of buckets.
GroupElems(large, small, i) ==
  UNION {Elems(large.buckets[b]) : b \in Range(Group(large, small, i))}

\* A bucket of the smaller table holds what its group in the larger one does,
\* when the tables hold the same.
LEMMA GroupsMatch ==
  ASSUME NEW k \in 1 .. HASH_BITS, NEW n \in 1 .. HASH_BITS, k >= n,
         NEW large, IsTable(large, k), NEW small, IsTable(small, n),
         Content(large) = Content(small), NEW i \in Places(n)
  PROVE  GroupElems(large, small, i) = Elems(small.buckets[i])
<1> DEFINE denom == CONSTPOW_TWO[k - n]
           group == Group(large, small, i)
<1>1. group = [j \in 0 .. (denom - 1) |-> denom * i + j]
  BY DEF Group, IsTable
<1>2. /\ denom \in Nat \ {0}
      /\ \A d \in Key : (hashf[d] \div Width(k)) \div denom = hashf[d] \div Width(n)
      /\ \A j \in 0 .. (denom - 1) : (denom * i + j) \div denom = i
      /\ \A q \in Nat : /\ q - denom * (q \div denom) \in 0 .. (denom - 1)
                       /\ denom * (q \div denom) + (q - denom * (q \div denom)) = q
  <2>1. i \in Nat
    BY DEF Places
  <2> QED BY <2>1, Groups
<1> HIDE DEF denom, group
<1>3. \A d \in Content(large) : /\ d \in Key
                               /\ hashf[d] \div Width(k) \in Places(k)
                               /\ hashf[d] \div Width(k) \in Nat
                               /\ hashf[d] \div Width(n) \in Places(n)
  <2>1. Content(large) \subseteq Key
    BY Whereabouts
  <2> QED BY <2>1, InTable DEF Places
<1>4. \A d \in Content(large) : \A b \in Places(k) :
        d \in Elems(large.buckets[b]) <=> hashf[d] \div Width(k) = b
  BY <1>3, Whereabouts
<1>5. \A d \in Content(large) : d \in Elems(small.buckets[i]) <=> hashf[d] \div Width(n) = i
  BY <1>3, Whereabouts
<1>6. ASSUME NEW d, d \in Elems(small.buckets[i])
      PROVE  \E b \in Range(group) : d \in Elems(large.buckets[b])
  <2> DEFINE q == hashf[d] \div Width(k)
  <2>1. d \in Content(large) /\ d \in Key
    BY <1>6, Whereabouts
  <2>2. q \in Nat /\ q \in Places(k) /\ d \in Elems(large.buckets[q]) /\ q \div denom = i
    BY <1>2, <1>3, <1>4, <1>5, <1>6, <2>1
  <2> HIDE DEF q
  <2>3. q - denom * i \in 0 .. (denom - 1) /\ denom * i + (q - denom * i) = q
    BY <1>2, <2>2
  <2>4. q \in Range(group)
    BY <1>1, <2>3 DEF Range
  <2> QED BY <2>2, <2>4
<1>7. ASSUME NEW b \in Range(group), NEW d \in Elems(large.buckets[b])
      PROVE  d \in Elems(small.buckets[i])
  <2>1. PICK j \in 0 .. (denom - 1) : b = denom * i + j
    BY <1>1 DEF Range
  <2>2. b \div denom = i
    BY <1>2, <2>1
  <2>3. b \in Places(k)
    <3> DEFINE m == CONSTPOW_TWO[n]
    <3>1. m \in Nat /\ denom \in Nat /\ i \in 0 .. (m - 1) /\ CONSTPOW_TWO[k] = denom * m
      <4>1. k - n \in Nat /\ n \in Nat /\ (k - n) + n = k
        OBVIOUS
      <4>2. CONSTPOW_TWO[(k - n) + n] = CONSTPOW_TWO[k - n] * CONSTPOW_TWO[n]
        BY ONLY <4>1, PowerOfSum
      <4>3. m \in Nat
        BY <4>1, Doubling
      <4> QED BY <4>1, <4>2, <4>3, <1>2 DEF denom, Places
    <3> HIDE DEF m
    <3>2. denom * (i + 1) <= denom * m
      BY <3>1
    <3>3. b \in Nat /\ b < denom * m
      BY <2>1, <3>1, <3>2
    <3>4. CONSTPOW_TWO[k] \in Nat
      BY Widths
    <3> QED BY <3>1, <3>3, <3>4 DEF Places
  <2>4. d \in Content(large)
    BY <2>3, Whereabouts
  <2> QED BY <1>2, <1>3, <1>4, <1>5, <2>2, <2>3, <2>4
<1> QED BY <1>6, <1>7 DEF group, GroupElems

\* If each tree of a group is found in the bucket of the group, the larger table
\* holds nothing that the smaller does not.
LEMMA GroupsInBuckets ==
  ASSUME NEW k \in 1 .. HASH_BITS, NEW n \in 1 .. HASH_BITS, k >= n,
         NEW large, IsTable(large, k), NEW small, IsTable(small, n),
         \A i \in Places(n) :
           LET group == Group(large, small, i)
           IN  \A j \in DOMAIN group : tree_is_subset(large.buckets[group[j]], small.buckets[i])
  PROVE  Content(large) \subseteq Content(small)
<1> DEFINE denom == CONSTPOW_TWO[k - n]
<1>1. /\ DOMAIN small.buckets = Places(n)
      /\ \A i : Group(large, small, i) = [j \in 0 .. (denom - 1) |-> denom * i + j]
  BY DEF Group, IsTable
<1>2. /\ \A d \in Key : (hashf[d] \div Width(k)) \div denom = hashf[d] \div Width(n)
      /\ \A q \in Nat : /\ q - denom * (q \div denom) \in 0 .. (denom - 1)
                       /\ denom * (q \div denom) + (q - denom * (q \div denom)) = q
  BY Groups
<1> HIDE DEF denom
<1>3. ASSUME NEW d, d \in Content(large)
      PROVE  d \in Content(small)
  <2> DEFINE q == hashf[d] \div Width(k)
             i == hashf[d] \div Width(n)
             j == q - denom * i
  <2>1. d \in Key
    BY <1>3, Whereabouts
  <2>2. d \in Elems(large.buckets[q]) /\ q \in Places(k) /\ i \in Places(n)
    BY <1>3, <2>1, Whereabouts, InTable
  <2>3. q \in Nat /\ q \div denom = i
    BY <1>2, <2>1, <2>2 DEF Places
  <2> HIDE DEF q, i
  <2>4. j \in 0 .. (denom - 1) /\ denom * i + j = q
    BY <1>2, <2>3
  <2> HIDE DEF j
  <2>5. tree_is_subset(large.buckets[q], small.buckets[i])
    <3>1. j \in DOMAIN Group(large, small, i) /\ Group(large, small, i)[j] = q
      BY <1>1, <2>4
    <3> QED BY <1>1, <2>2, <3>1
  <2>6. large.buckets[q] \in Tree /\ small.buckets[i] \in Tree
    BY <2>2 DEF IsTable
  <2> QED BY <2>2, <2>5, <2>6, SubsetAssumption, Whereabouts
<1> QED BY <1>3

\* Tables that ht_equal finds equal hold the same, if ints can count their buckets
\* and their elements.
LEMMA EqualHold ==
  ASSUME NEW m \in TableSizes, NEW n \in TableSizes,
         NEW ht_a, IsTable(ht_a, m), HasRoom(ht_a, {}),
         NEW ht_b, IsTable(ht_b, n), HasRoom(ht_b, {}), ht_equal(ht_a, ht_b)
  PROVE  Content(ht_a) = Content(ht_b)
<1> m \in 1 .. HASH_BITS /\ n \in 1 .. HASH_BITS
  BY DEF TableSizes
<1>1. ht_a.sizeexp = m /\ ht_b.sizeexp = n
  BY DEF IsTable
<1>2. /\ IsFiniteSet(Content(ht_a)) /\ IsFiniteSet(Content(ht_b))
      /\ Cardinality(Content(ht_a)) = Cardinality(Content(ht_b))
  BY Counts DEF ht_equal
<1>3. CASE m < n
  <2>1. \A i \in Counter(ht_a) :
          LET group == Group(ht_b, ht_a, i)
          IN  \A j \in DOMAIN group : tree_is_subset(ht_b.buckets[group[j]], ht_a.buckets[i])
    BY <1>1, <1>3 DEF ht_equal
  <2>2. Counter(ht_a) = Places(m)
    BY EveryBucket
  <2>3. Content(ht_b) \subseteq Content(ht_a)
    BY <1>3, <2>1, <2>2, GroupsInBuckets
  <2> QED BY <1>2, <2>3, FS_Subset
<1>4. CASE ~(m < n)
  <2>1. \A i \in Counter(ht_b) :
          LET group == Group(ht_a, ht_b, i)
          IN  \A j \in DOMAIN group : tree_is_subset(ht_a.buckets[group[j]], ht_b.buckets[i])
    BY <1>1, <1>4 DEF ht_equal
  <2>2. Counter(ht_b) = Places(n)
    BY EveryBucket
  <2>3. Content(ht_a) \subseteq Content(ht_b)
    BY <1>4, <2>1, <2>2, GroupsInBuckets
  <2> QED BY <1>2, <2>3, FS_Subset
<1> QED BY <1>3, <1>4

\* ht_equal finds a table equal to itself.
LEMMA EqualSelf ==
  ASSUME NEW n \in TableSizes, NEW ht, IsTable(ht, n)
  PROVE  ht_equal(ht, ht)
<1>1. n \in Nat /\ n - n = 0 /\ ~(n < n) /\ CONSTPOW_TWO[0] = 1
  BY Doubling DEF TableSizes
<1>2. /\ ht.sizeexp = n /\ Counter(ht) = Places(n)
      /\ \A i \in Places(n) : ht.buckets[i] \in Tree
  BY EveryBucket DEF IsTable
<1>3. ASSUME NEW i \in Places(n)
      PROVE  Group(ht, ht, i) = [j \in 0 .. (1 - 1) |-> 1 * i + j]
  BY <1>1, <1>2 DEF Group
<1>4. ASSUME NEW i \in Places(n), NEW j \in DOMAIN Group(ht, ht, i)
      PROVE  tree_is_subset(ht.buckets[Group(ht, ht, i)[j]], ht.buckets[i])
  <2>1. i \in Nat /\ j = 0 /\ Group(ht, ht, i)[j] = i
    BY <1>3 DEF Places
  <2> QED BY <1>2, <2>1, SubsetAssumption
<1> QED BY <1>1, <1>2, <1>4 DEF ht_equal

\* The hashes of one bucket are below those of the next.
LEMMA HashOrder ==
  ASSUME NEW n \in 1 .. HASH_BITS, NEW ht, IsTable(ht, n),
         NEW i \in DOMAIN ht.buckets, NEW j \in DOMAIN ht.buckets, i < j,
         NEW g \in NodeHashes(ht.buckets[i]), NEW h \in NodeHashes(ht.buckets[j])
  PROVE  g < h
<1>1. /\ i \in Nat /\ j \in Nat /\ ht.buckets[i] \in Tree /\ ht.buckets[j] \in Tree
      /\ g \div Width(n) = i /\ h \div Width(n) = j
  <2>1. i \in Places(n) /\ j \in Places(n)
    BY DEF IsTable
  <2> QED BY <2>1 DEF IsTable, Places
<1>2. g \in Nat /\ h \in Nat
  BY <1>1, TreeAssumption
<1> SUFFICES ASSUME h <= g PROVE FALSE
  BY <1>2
<1>3. h \div Width(n) <= g \div Width(n)
  BY <1>2, Widths, QuotientGrows
<1> QED BY <1>1, <1>3
=============================================================================
