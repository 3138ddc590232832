------------------------------- MODULE HtPair -------------------------------
(***************************************************************************)
(* Two hashtables, possibly of different sizes, filled and emptied in      *)
(* every order and compared with ht_equal(), as long as an int can count   *)
(* the buckets and the elements of each.                                   *)
(***************************************************************************)
EXTENDS HtFns

CONSTANTS Table,     \* the two tables
          SizeExp,   \* [Table -> the sizeexp it is initialised with]
          Preds,     \* the predicates users pass, as sets of elements
          NoMem      \* the allocation of a call that fails: "node", "cell" or "none"

ASSUME TableAssumption == /\ SizeExp \in [Table -> TableSizes]
                          /\ Preds \subseteq SUBSET Key
                          /\ NoMem \subseteq {"none", "node", "cell"}

VARIABLES tables,    \* [Table -> struct ht]
          equal      \* the result of the last ht_equal(), or NULL

vars == << tables, equal >>

Init == /\ tables = [x \in Table |-> ht_init(SizeExp[x], FALSE)]
        /\ equal = NULL

Insert(x, d, nomem) ==
  /\ HasRoom(tables[x], {d})
  /\ tables' = [tables EXCEPT ![x] = ht_insert(@, d, nomem).ht]
  /\ equal' = NULL

Delete(x, d) ==
  /\ tables' = [tables EXCEPT ![x] = ht_del(@, d).ht]
  /\ equal' = NULL

\* The call that crashes in an emptied leaf is CrashInDeleteIf of AvlTree.
DeleteIf(x, P) ==
  /\ ~ht_ndel(tables[x], P).crash
  /\ tables' = [tables EXCEPT ![x] = ht_ndel(@, P).ht]
  /\ equal' = NULL

Compare(x, y) ==
  /\ equal' = << x, y, ht_equal(tables[x], tables[y]) >>
  /\ UNCHANGED tables

Next ==
  \/ \E x \in Table : \/ \E d \in Key : \/ \E nomem \in NoMem : Insert(x, d, nomem)
                                          \/ Delete(x, d)
                      \/ \E P \in Preds : DeleteIf(x, P)
  \/ \E x, y \in Table : Compare(x, y)

Spec == Init /\ [][Next]_vars

-----------------------------------------------------------------------------
(* Properties. *)

\* Every table keeps its size and its trees; a result is a pair and a Boolean.
TypeOK ==
  /\ \A x \in Table : /\ tables[x].sizeexp = SizeExp[x]
                      /\ DOMAIN tables[x].buckets = 0 .. (CONSTPOW_TWO[SizeExp[x]] - 1)
                      /\ Content(tables[x]) \subseteq Key
  /\ equal = NULL \/ equal \in Table \X Table \X BOOLEAN

\* The buckets cut the hashes into consecutive ranges: in a table of any size
\* that is allowed, the hashes of one bucket are below those of the next.
BucketsInHashOrder ==
  \A x \in Table : \A i, j \in DOMAIN tables[x].buckets :
    i < j => \A g \in NodeHashes(tables[x].buckets[i]), h \in NodeHashes(tables[x].buckets[j]) : g < h

\* Whatever trees two histories made, tables found equal hold the same
\* elements, although only one inclusion is tested.
EqualIsSound ==
  equal # NULL /\ equal[3] => Content(tables[equal[1]]) = Content(tables[equal[2]])

\* A table equals itself, however its trees are shaped.
EqualToItself == equal # NULL /\ equal[1] = equal[2] => equal[3]

\* Tables of different sizes with the same elements pass the count of each group
\* of buckets: no bucket's elements are spread over two groups.
GroupsMatchBuckets ==
  \A x, y \in Table :
    SizeExp[x] >= SizeExp[y] /\ Content(tables[x]) = Content(tables[y]) =>
      \A i \in DOMAIN tables[y].buckets :
        UNION {Elems(tables[x].buckets[k]) : k \in Range(Group(tables[x], tables[y], i))}
          = Elems(tables[y].buckets[i])

-----------------------------------------------------------------------------
(* Claims of comments that the code does not keep. *)

\* ht/ht.h, ht_equal: "1 if the hashtables are equal, else 0 (zero)", equal
\* meaning "containing equal elements".
EqualIsComplete ==
  equal # NULL /\ Content(tables[equal[1]]) = Content(tables[equal[2]]) => equal[3]
=============================================================================
