-------------------------------- MODULE HtFns --------------------------------
(***************************************************************************)
(* The hashtables of src/libreset/ht: a table is the record                *)
(* [buckets, sizeexp] of struct ht, with 2^sizeexp trees in buckets, or    *)
(* NULL when calloc() returned it.  bucket_index shifts by the width of a  *)
(* hash when sizeexp is 0, which C leaves undefined: sizeexp is positive.  *)
(*                                                                         *)
(* This layer reaches its trees through the functions of avl/avl.h only.   *)
(* So these functions are constants here, and what they promise is an      *)
(* assumption: the MC modules give them the definitions of AvlFns.         *)
(***************************************************************************)
EXTENDS Ll, PowersOfTwo

CONSTANTS Key,            \* the values the user may store
          hashf,          \* cfg->hashf: [Key -> hash]
          HASH_BITS,      \* BITCOUNT(hash), the width of a hash
          INT_MAX,        \* the largest int
          Tree,           \* the trees that calls of the functions below make
          Elems(_),       \* the elements in a tree ...
          NodeHashes(_),  \* ... and the hashes of its nodes
          \* avl_insert() and the other functions
          tree_insert(_, _, _), tree_del(_, _), tree_ndel(_, _), tree_find(_, _),
          tree_cardinality(_), tree_select(_, _, _), tree_is_subset(_, _)

ASSUME WidthAssumption ==
  /\ HASH_BITS \in Nat \ {0} /\ INT_MAX \in Nat
  /\ hashf \in [Key -> Nat]
  /\ \A d \in Key : hashf[d] < CONSTPOW_TWO[HASH_BITS]

\* What the tree t holds and which nodes it has, after it was u.
Holds(t, u, elems, hashes) ==
  t \in Tree /\ Elems(t) = elems /\ NodeHashes(t) \subseteq NodeHashes(u) \cup hashes

\* sel: what a selection returns and the calls of procf() that it makes, one for each
\* chosen element until one fails.  Bad: the elements for which procf() fails.
Selected(sel, chosen, Bad) ==
  LET seen == sel.seen
  IN  /\ sel = [ret |-> sel.ret, seen |-> seen] /\ seen \in Seq(chosen) /\ IsInjective(seen)
      /\ \A i \in 1 .. (Len(seen) - 1) : seen[i] \notin Bad
      /\ \/ sel.ret = EEXIST /\ seen # << >> /\ seen[Len(seen)] \in Bad
         \/ /\ sel.ret = OK /\ chosen = ToSet(seen)
            /\ seen # << >> => seen[Len(seen)] \notin Bad

\* A tree holds finitely many elements, in nodes of their hashes; a new one is NULL.
ASSUME TreeAssumption ==
  /\ NULL \in Tree /\ Elems(NULL) = {} /\ NodeHashes(NULL) = {}
  /\ \A t \in Tree : /\ Elems(t) \subseteq Key /\ IsFiniteSet(Elems(t))
                     /\ NodeHashes(t) \subseteq Nat
                     /\ \A d \in Elems(t) : hashf[d] \in NodeHashes(t)

\* tree_insert and tree_del: one element comes or goes, unless it is there or not there,
\* or the allocation fails.
ASSUME UpdateAssumption ==
  \A t \in Tree, d \in Key :
    /\ \A nomem \in {"none", "node", "cell"} :
         LET ins == tree_insert(t, d, nomem)
         IN  \/ /\ d \notin Elems(t) /\ ins.ret = OK
                /\ Holds(ins.root, t, Elems(t) \cup {d}, {hashf[d]})
             \/ /\ ins.ret = IF d \in Elems(t) THEN EEXIST ELSE ENOMEM
                /\ Holds(ins.root, t, Elems(t), {hashf[d]})
    /\ LET del == tree_del(t, d)
       IN  /\ del.ret = IF d \in Elems(t) THEN OK ELSE EEXIST
           /\ Holds(del.root, t, Elems(t) \ {d}, {})

\* tree_find, tree_cardinality, tree_select, and tree_ndel as long as it does not crash.
ASSUME QueryAssumption ==
  \A t \in Tree :
    /\ \A d \in Key : tree_find(t, d) = IF d \in Elems(t) THEN d ELSE NULL
    /\ tree_cardinality(t) = Cardinality(Elems(t))
    /\ \A P \in SUBSET Key :
         LET del == tree_ndel(t, P)
         IN  ~del.crash => Holds(del.root, t, Elems(t) \ P, {})
    /\ \A P, Bad \in SUBSET Key :
         Selected(tree_select(t, P, Bad), Elems(t) \cap P, Bad)

\* tree_is_subset never errs if it finds a subset, and always finds the tree itself one.
ASSUME SubsetAssumption ==
  /\ \A t \in Tree : tree_is_subset(t, t)
  /\ \A s, t \in Tree : LET found == tree_is_subset(s, t)
                        IN  found \in BOOLEAN /\ (found => Elems(s) \subseteq Elems(t))

-----------------------------------------------------------------------------
(* The functions of ht/ht.h. *)

\* What is left of the number n in an int.
ToInt(n) ==
  IF n <= INT_MAX THEN n ELSE ((n + INT_MAX + 1) % (2 * (INT_MAX + 1))) - (INT_MAX + 1)

\* The sizes a table may have: the code shifts by less than the width of a hash, and
\* ht_equal() keeps the number of buckets in an int, which others would not survive.
TableSizes == {n \in 1 .. HASH_BITS : CONSTPOW_TWO[n] <= INT_MAX}

ht_nbuckets(ht) == CONSTPOW_TWO[ht.sizeexp]

\* A bug: the low bits of the hash in place of the high ones.
bucket_index__low(ht, hash) == hash % CONSTPOW_TWO[ht.sizeexp]

\* hash >> (HASH_BITS - sizeexp)
bucket_index(ht, hash) == hash \div CONSTPOW_TWO[HASH_BITS - ht.sizeexp]

\* A bug: n buckets in place of 2^n.
ht_init__few(n, nomem) ==
  [sizeexp |-> n,
   buckets |-> IF nomem THEN NULL ELSE [i \in 0 .. (n - 1) |-> NULL]]

\* Returns the table, whether or not the buckets could be allocated.
ht_init(n, nomem) ==
  [sizeexp |-> n,
   buckets |-> IF nomem THEN NULL ELSE [i \in 0 .. (CONSTPOW_TWO[n] - 1) |-> NULL]]

ht_insert(ht, d, nomem) ==
  LET i   == bucket_index(ht, hashf[d])
      ins == tree_insert(ht.buckets[i], d, nomem)
  IN  [ret |-> ins.ret, ht |-> [ht EXCEPT !.buckets[i] = ins.root]]

ht_del(ht, d) ==
  LET i   == bucket_index(ht, hashf[d])
      del == tree_del(ht.buckets[i], d)
  IN  [ret |-> del.ret, ht |-> [ht EXCEPT !.buckets[i] = del.root]]

ht_find(ht, d) == tree_find(ht.buckets[bucket_index(ht, hashf[d])], d)

\* The sum a loop makes of the sizes of n trees.
SumOf(size, n) ==
  LET sum[j \in 0 .. n] == IF j = 0 THEN 0 ELSE sum[j - 1] + size[j - 1]
  IN  sum[n]

ht_ndel(ht, P) ==
  LET del == [i \in DOMAIN ht.buckets |-> tree_ndel(ht.buckets[i], P)]
  IN  [ret   |-> SumOf([i \in DOMAIN del |-> del[i].ret], ht_nbuckets(ht)),
       ht    |-> [ht EXCEPT !.buckets = [i \in DOMAIN del |-> del[i].root]],
       crash |-> \E i \in DOMAIN del : del[i].crash]

\* The sum is an int.
ht_cardinality(ht) ==
  ToInt(SumOf([i \in DOMAIN ht.buckets |-> tree_cardinality(ht.buckets[i])], ht_nbuckets(ht)))

\* From the last bucket to the first; the first error ends the walk.
ht_select(ht, P, Bad) ==
  LET n == ht_nbuckets(ht)
      walk[j \in 0 .. n] ==
        IF j = 0 THEN [ret |-> OK, seen |-> << >>]
        ELSE LET sofar == walk[j - 1]
                 sel   == tree_select(ht.buckets[n - j], P, Bad)
             IN  IF sofar.ret < 0 THEN sofar
                 ELSE [sel EXCEPT !.seen = sofar.seen \o @]
  IN  walk[n]

\* A bug: the groups of buckets overlap.
Group__overlapping(large, small, i) ==
  LET denom == CONSTPOW_TWO[large.sizeexp - small.sizeexp]
  IN  [j \in 0 .. (denom - 1) |-> (denom - 1) * i + j]

\* The buckets of the larger table that hold what bucket i of the smaller does.  The
\* shift and the indices are ints that do not overflow in tables of TableSizes.
Group(large, small, i) ==
  LET denom == CONSTPOW_TWO[large.sizeexp - small.sizeexp]
  IN  [j \in 0 .. (denom - 1) |-> denom * i + j]

\* `int i = ht_nbuckets(ht); while (i--)'.  A negative i, which would lead the loop out
\* of the buckets, there is not in TableSizes.
Counter(ht) == 0 .. (ToInt(ht_nbuckets(ht)) - 1)

\* A bug: the elements are not compared.
ht_equal__counts(ht_a, ht_b) == ht_cardinality(ht_a) = ht_cardinality(ht_b)

\* A bug: the tree of the smaller table is the j-th in place of the i-th.
ht_equal__inner(ht_a, ht_b) ==
  LET swap  == ht_a.sizeexp < ht_b.sizeexp
      large == IF swap THEN ht_b ELSE ht_a
      small == IF swap THEN ht_a ELSE ht_b
  IN  /\ ht_cardinality(ht_a) = ht_cardinality(ht_b)
      /\ \A i \in Counter(small) :
           LET group == Group(large, small, i)
           IN  \A j \in DOMAIN group : tree_is_subset(large.buckets[group[j]], small.buckets[j])

\* Only a \subseteq b is tested: the cardinalities decide the rest.
ht_equal(ht_a, ht_b) ==
  LET swap  == ht_a.sizeexp < ht_b.sizeexp
      large == IF swap THEN ht_b ELSE ht_a
      small == IF swap THEN ht_a ELSE ht_b
      denom == CONSTPOW_TWO[large.sizeexp - small.sizeexp]
  IN  /\ ht_cardinality(ht_a) = ht_cardinality(ht_b)
      /\ large.sizeexp # small.sizeexp =>
           \A i \in Counter(small) :
             LET group == Group(large, small, i)
             IN  SumOf([j \in DOMAIN group |-> tree_cardinality(large.buckets[group[j]])], denom)
                   = tree_cardinality(small.buckets[i])
      /\ \A i \in Counter(small) :
           LET group == Group(large, small, i)
           IN  \A j \in DOMAIN group : tree_is_subset(large.buckets[group[j]], small.buckets[i])

\* Every tree is destroyed, then the buckets are freed.
ht_destroy(ht) ==
  [ret |-> OK, ht |-> [ht EXCEPT !.buckets = NULL]]

\* The elements in a table.
Content(ht) == UNION {Elems(ht.buckets[i]) : i \in DOMAIN ht.buckets}

\* The bound of the models: ht_cardinality() can count a table that gets more elements.
HasRoom(ht, more) == Cardinality(Content(ht) \cup more) <= INT_MAX
=============================================================================
