------------------------------ MODULE MCTrees ------------------------------
(* Tables of the trees of AvlFns for TLC.                                  *)
EXTENDS HtFns

CONSTANTS BLOOM_BITS, INT_BITS, HASH_VARIANTS, WideShift

\* x86 masks the shift count of an int to the width of an int.
MaskedShift ==
  [k \in INT_BITS .. (BLOOM_BITS - 1) |->
     LET m == k % INT_BITS
     IN  IF m = INT_BITS - 1 THEN m .. (BLOOM_BITS - 1) ELSE {m}]

\* The trees of AvlFns.
Avl == INSTANCE TreeViews

RECURSIVE Reachable(_)
Reachable(S) ==
  LET more == S \cup {Avl!avl_insert(t, d, n).root : t \in S, d \in Key, n \in {"none", "node", "cell"}}
                \cup {Avl!avl_del(t, d).root : t \in S, d \in Key}
                \cup {Avl!avl_ndel(t, P).root :
                         << t, P >> \in {x \in S \X SUBSET Key : ~Avl!avl_ndel(x[1], x[2]).crash}}
  IN  IF more = S THEN S ELSE Reachable(more)

\* TLC evaluates AllTrees once, and MCTree each time.
AllTrees                       == Reachable({NULL})
MCTree                         == AllTrees
MCElems(t)                     == Avl!Elements(t)
MCNodeHashes(t)                == Avl!Hashes(t)
MCtree_insert(t, d, nomem)     == Avl!avl_insert(t, d, nomem)
MCtree_del(t, d)               == Avl!avl_del(t, d)
MCtree_ndel(t, P)              == Avl!avl_ndel(t, P)
MCtree_find(t, d)              == Avl!avl_find(t, d)
MCtree_cardinality(t)          == Avl!avl_cardinality(t)
MCtree_select(t, P, Bad)       == Avl!avl_select(t, P, Bad)
MCtree_is_subset(s, t)         == Avl!avl_is_subset(s, t)
=============================================================================
