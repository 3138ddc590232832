---------------------------- MODULE HtPairProofs ----------------------------
(***************************************************************************)
(* The properties of HtPair, for tables of any sizes that an int can hold, *)
(* any hashes and any trees that keep the assumptions of HtFns.            *)
(***************************************************************************)
EXTENDS HtPair, HtProofs

\* Every table keeps its hashes in their buckets and can be counted.
Sorted ==
  /\ tables = [x \in Table |-> tables[x]]
  /\ \A x \in Table : IsTable(tables[x], SizeExp[x]) /\ HasRoom(tables[x], {})

\* A result that is still there is one of the tables as they are.
Told ==
  equal = NULL \/ \E x, y \in Table, b \in BOOLEAN :
                    /\ equal = << x, y, b >>
                    /\ b => Content(tables[x]) = Content(tables[y])
                    /\ x = y => b

PairInv == Sorted /\ Told

LEMMA Sizes == \A x \in Table : SizeExp[x] \in TableSizes /\ SizeExp[x] \in 1 .. HASH_BITS
BY TableAssumption DEF TableSizes

\* A call that leaves a table of its size in the place of another, with at most the
\* elements there was room for, keeps the invariant.
LEMMA OneTable ==
  ASSUME PairInv, NEW x \in Table, NEW ht, IsTable(ht, SizeExp[x]),
         NEW more, IsFiniteSet(more), HasRoom(tables[x], more),
         Content(ht) \subseteq Content(tables[x]) \cup more,
         tables' = [tables EXCEPT ![x] = ht], equal' = NULL
  PROVE  PairInv'
<1>1. tables' = [y \in Table |-> IF y = x THEN ht ELSE tables[y]]
  BY DEF PairInv, Sorted
<1>2. HasRoom(ht, {})
  BY Sizes, StillRoom DEF PairInv, Sorted
<1>3. Sorted'
  <2>1. ASSUME NEW y \in Table
        PROVE  IsTable(tables'[y], SizeExp[y]) /\ HasRoom(tables'[y], {})
    BY <1>1, <1>2 DEF PairInv, Sorted
  <2>2. \A y \in Table : HasRoom(tables[y], {})' <=> HasRoom(tables'[y], {})
    BY DEF HasRoom, Content
  <2>3. \A y \in Table : IsTable(tables[y], SizeExp[y])' <=> IsTable(tables'[y], SizeExp[y])
    BY DEF IsTable
  <2> QED BY <1>1, <2>1, <2>2, <2>3 DEF Sorted
<1>4. Told'
  BY DEF Told
<1> QED BY <1>3, <1>4 DEF PairInv

\* The invariant holds initially and every step keeps it.
LEMMA Invariant == Spec => []PairInv
<1>1. Init => PairInv
  <2> SUFFICES ASSUME Init PROVE PairInv
    OBVIOUS
  <2>1. Sorted
    <3>1. ASSUME NEW ht, Content(ht) = {}
          PROVE  HasRoom(ht, {})
      <4>1. Content(ht) \cup {} = {}
        BY <3>1
      <4> QED BY <4>1, FS_EmptySet, WidthAssumption DEF HasRoom
    <3> QED BY <3>1, Sizes, Initialised DEF Init, Sorted
  <2> QED BY <2>1 DEF Init, PairInv, Told
<1>2. PairInv /\ [Next]_vars => PairInv'
  <2> SUFFICES ASSUME PairInv, [Next]_vars PROVE PairInv'
    OBVIOUS
  <2>1. \A x \in Table : /\ SizeExp[x] \in TableSizes /\ SizeExp[x] \in 1 .. HASH_BITS
                         /\ IsTable(tables[x], SizeExp[x]) /\ HasRoom(tables[x], {})
    BY Sizes DEF PairInv, Sorted
  <2>2. ASSUME NEW x \in Table, NEW d \in Key, NEW nomem \in NoMem, Insert(x, d, nomem)
        PROVE  PairInv'
    <3> DEFINE ht == ht_insert(tables[x], d, nomem).ht
    <3>1. nomem \in {"none", "node", "cell"}
      BY TableAssumption
    <3>2. IsTable(ht, SizeExp[x]) /\ Content(ht) \subseteq Content(tables[x]) \cup {d}
      BY <2>1, <3>1, Inserts DEF Inserted
    <3>3. /\ tables' = [tables EXCEPT ![x] = ht] /\ equal' = NULL
          /\ HasRoom(tables[x], {d}) /\ IsFiniteSet({d})
      BY <2>2, FS_Singleton DEF Insert
    <3> HIDE DEF ht
    <3> QED BY <3>2, <3>3, OneTable
  <2>3. ASSUME NEW x \in Table, NEW d \in Key, Delete(x, d)
        PROVE  PairInv'
    <3> DEFINE ht == ht_del(tables[x], d).ht
    <3>1. IsTable(ht, SizeExp[x]) /\ Content(ht) \subseteq Content(tables[x]) \cup {}
      BY <2>1, Deletes
    <3>2. tables' = [tables EXCEPT ![x] = ht] /\ equal' = NULL
      BY <2>3 DEF Delete
    <3> HIDE DEF ht
    <3> QED BY <2>1, <3>1, <3>2, FS_EmptySet, OneTable
  <2>4. ASSUME NEW x \in Table, NEW P \in Preds, DeleteIf(x, P)
        PROVE  PairInv'
    <3> DEFINE ht == ht_ndel(tables[x], P).ht
    <3>1. P \in SUBSET Key /\ ~ht_ndel(tables[x], P).crash
      BY <2>4, TableAssumption DEF DeleteIf
    <3>2. IsTable(ht, SizeExp[x]) /\ Content(ht) \subseteq Content(tables[x]) \cup {}
      BY <2>1, <3>1, DeletesIf
    <3>3. tables' = [tables EXCEPT ![x] = ht] /\ equal' = NULL
      BY <2>4 DEF DeleteIf
    <3> HIDE DEF ht
    <3> QED BY <2>1, <3>2, <3>3, FS_EmptySet, OneTable
  <2>5. ASSUME NEW x \in Table, NEW y \in Table, Compare(x, y)
        PROVE  PairInv'
    <3> DEFINE b == ht_equal(tables[x], tables[y])
    <3>1. equal' = << x, y, b >> /\ tables' = tables
      BY <2>5 DEF Compare
    <3>2. b \in BOOLEAN
      BY DEF ht_equal
    <3>3. b => Content(tables[x]) = Content(tables[y])
      BY <2>1, EqualHold
    <3>4. x = y => b
      BY <2>1, EqualSelf
    <3> HIDE DEF b
    <3>5. Told'
      BY <3>1, <3>2, <3>3, <3>4 DEF Told
    <3>6. Sorted'
      BY <3>1 DEF PairInv, Sorted
    <3> QED BY <3>5, <3>6 DEF PairInv
  <2>6. CASE UNCHANGED vars
    BY <2>6 DEF vars, PairInv, Sorted, Told
  <2> QED BY <2>2, <2>3, <2>4, <2>5, <2>6 DEF Next
<1> QED BY <1>1, <1>2, PTL DEF Spec

\* Every table keeps its size and holds stored values only.
THEOREM TypeCorrect == Spec => []TypeOK
<1>1. PairInv => TypeOK
  <2> SUFFICES ASSUME PairInv PROVE TypeOK
    OBVIOUS
  <2>1. ASSUME NEW x \in Table
        PROVE  /\ tables[x].sizeexp = SizeExp[x]
               /\ DOMAIN tables[x].buckets = 0 .. (CONSTPOW_TWO[SizeExp[x]] - 1)
               /\ Content(tables[x]) \subseteq Key
    <3>1. SizeExp[x] \in 1 .. HASH_BITS /\ IsTable(tables[x], SizeExp[x])
      BY Sizes DEF PairInv, Sorted
    <3>2. Content(tables[x]) \subseteq Key
      BY <3>1, Whereabouts
    <3> QED BY <3>1, <3>2 DEF IsTable, Places
  <2>2. equal = NULL \/ equal \in Table \X Table \X BOOLEAN
    BY DEF PairInv, Told
  <2> QED BY <2>1, <2>2 DEF TypeOK
<1> QED BY <1>1, Invariant, PTL

\* The buckets cut the hashes into consecutive ranges, in tables of every allowed size.
THEOREM Consecutive == Spec => []BucketsInHashOrder
<1>1. PairInv => BucketsInHashOrder
  BY Sizes, HashOrder DEF PairInv, Sorted, BucketsInHashOrder
<1> QED BY <1>1, Invariant, PTL

\* Tables of allowed sizes that ht_equal() finds equal hold the same elements, as long
\* as an int counts those of each.
THEOREM EqualSound == Spec => []EqualIsSound
<1>1. PairInv => EqualIsSound
  BY DEF PairInv, Told, EqualIsSound
<1> QED BY <1>1, Invariant, PTL

\* ht_equal() finds every table equal to itself.
THEOREM EqualReflexive == Spec => []EqualToItself
<1>1. PairInv => EqualToItself
  BY DEF PairInv, Told, EqualToItself
<1> QED BY <1>1, Invariant, PTL

\* A bucket of the smaller of two tables with the same elements and of allowed sizes
\* holds what its group in the larger one does, so that the counts of ht_equal() agree.
THEOREM GroupsAgree == Spec => []GroupsMatchBuckets
<1>1. PairInv => GroupsMatchBuckets
  <2> SUFFICES ASSUME PairInv, NEW x \in Table, NEW y \in Table, SizeExp[x] >= SizeExp[y],
                      Content(tables[x]) = Content(tables[y]), NEW i \in DOMAIN tables[y].buckets
               PROVE  UNION {Elems(tables[x].buckets[k]) :
                               k \in Range(Group(tables[x], tables[y], i))}
                        = Elems(tables[y].buckets[i])
    BY DEF GroupsMatchBuckets
  <2>1. /\ SizeExp[x] \in 1 .. HASH_BITS /\ IsTable(tables[x], SizeExp[x])
        /\ SizeExp[y] \in 1 .. HASH_BITS /\ IsTable(tables[y], SizeExp[y])
    BY Sizes DEF PairInv, Sorted
  <2>2. i \in Places(SizeExp[y])
    BY <2>1 DEF IsTable
  <2>3. GroupElems(tables[x], tables[y], i) = Elems(tables[y].buckets[i])
    BY <2>1, <2>2, GroupsMatch
  <2> QED BY <2>3 DEF GroupElems
<1> QED BY <1>1, Invariant, PTL
=============================================================================
