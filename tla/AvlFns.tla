------------------------------- MODULE AvlFns -------------------------------
(***************************************************************************)
(* The search trees of src/libreset/avl, as functions of trees: what each  *)
(* function returns and the tree it leaves behind.  A tree is NULL or a    *)
(* record of the fields of struct avl_el, with the subtrees in l and r; a  *)
(* function the code gives a struct avl_el ** is given the tree and        *)
(* returns the new one.                                                    *)
(*                                                                         *)
(* A definition named f__bug is a variant of f with a bug that could well  *)
(* have been written; nothing uses it but the experiments that show which  *)
(* property would notice it.                                               *)
(***************************************************************************)
EXTENDS Ll, Bloom

CONSTANTS Key,      \* the values the user may store
          hashf     \* cfg->hashf: [Key -> hash]

ASSUME HashAssumption == hashf \in [Key -> Nat]

\* bloom_from_hash(), tabulated.
HashFilter == [h \in Range(hashf) |-> bloom_from_hash(h)]

avl_height(t)   == IF t = NULL THEN 0 ELSE t.height
avl_node_cnt(t) == IF t = NULL THEN 0 ELSE t.node_cnt
avl_filter(t)   == IF t = NULL THEN {} ELSE t.filter

new_avl_el(hash) == [ll |-> << >>, hash |-> hash, filter |-> {}, height |-> 0,
                     node_cnt |-> 0, l |-> NULL, r |-> NULL]

\* A bug: the node itself is not counted.
regen_metadata__uncounted(node) ==
  [node EXCEPT
     !.height   = 1 + Max({avl_height(node.l), avl_height(node.r)}),
     !.node_cnt = avl_node_cnt(node.l) + avl_node_cnt(node.r),
     !.filter   = HashFilter[node.hash] \cup avl_filter(node.l) \cup avl_filter(node.r)]

\* A bug: the height counts the left side only.
regen_metadata__left(node) ==
  [node EXCEPT
     !.height   = 1 + avl_height(node.l),
     !.node_cnt = 1 + avl_node_cnt(node.l) + avl_node_cnt(node.r),
     !.filter   = HashFilter[node.hash] \cup avl_filter(node.l) \cup avl_filter(node.r)]

\* Recomputes a node's metadata from the stored metadata of its children.
regen_metadata(node) ==
  [node EXCEPT
     !.height   = 1 + Max({avl_height(node.l), avl_height(node.r)}),
     !.node_cnt = 1 + avl_node_cnt(node.l) + avl_node_cnt(node.r),
     !.filter   = HashFilter[node.hash] \cup avl_filter(node.l) \cup avl_filter(node.r)]

-----------------------------------------------------------------------------
(* Rotations and rebalancing. *)

rotate_left(node) ==
  IF node = NULL \/ node.r = NULL THEN node
  ELSE regen_metadata(
         [node.r EXCEPT !.l = regen_metadata([node EXCEPT !.r = node.r.l])])

rotate_right(node) ==
  IF node = NULL \/ node.l = NULL THEN node
  ELSE regen_metadata(
         [node.l EXCEPT !.r = regen_metadata([node EXCEPT !.l = node.l.r])])

\* The inner loops: rotate a heavy subtree t until its outer child has more
\* than n nodes.
RECURSIVE RotateOuterUp(_, _, _)
RotateOuterUp(t, n, side) ==
  IF side = "r" /\ avl_node_cnt(t.r) <= n THEN RotateOuterUp(rotate_right(t), n, side)
  ELSE IF side = "l" /\ avl_node_cnt(t.l) <= n THEN RotateOuterUp(rotate_left(t), n, side)
  ELSE t

RightHeavy(t) == avl_node_cnt(t.r) > 2 * avl_node_cnt(t.l) + 1

\* A bug: off by one.
LeftHeavy__late(t) == avl_node_cnt(t.l) > 2 * avl_node_cnt(t.r) + 2

LeftHeavy(t)  == avl_node_cnt(t.l) > 2 * avl_node_cnt(t.r) + 1

\* The two outer loops.
RECURSIVE WhileRightHeavy(_)
WhileRightHeavy(t) ==
  IF ~RightHeavy(t) THEN t
  ELSE WhileRightHeavy(rotate_left(
         [t EXCEPT !.r = RotateOuterUp(@, avl_node_cnt(t.l), "r")]))

RECURSIVE WhileLeftHeavy(_)
WhileLeftHeavy(t) ==
  IF ~LeftHeavy(t) THEN t
  ELSE WhileLeftHeavy(rotate_right(
         [t EXCEPT !.l = RotateOuterUp(@, avl_node_cnt(t.r), "l")]))

\* The early return: more nodes than any tree one level lower can have.
AlreadyBalanced(t) == avl_node_cnt(t) > 2^(avl_height(t) - 1) - 1

\* The metadata of the root is not regenerated after its children are
\* rebalanced.
RECURSIVE rebalance_subtree(_)
rebalance_subtree(root) ==
  IF root = NULL \/ AlreadyBalanced(root) THEN root
  ELSE LET t == WhileLeftHeavy(WhileRightHeavy(root))
       IN  [t EXCEPT !.l = rebalance_subtree(@), !.r = rebalance_subtree(@)]

-----------------------------------------------------------------------------
(* Cutting nodes loose. *)

\* A bug: the metadata on the path to the isolated node is not regenerated.
RECURSIVE isolate_leftmost__stale(_)
isolate_leftmost__stale(t) ==
  IF t = NULL THEN [node |-> NULL, rest |-> NULL]
  ELSE LET sub == isolate_leftmost__stale(t.l)
       IN  IF sub.node = NULL
           THEN [node |-> t, rest |-> t.r]
           ELSE [node |-> sub.node, rest |-> [t EXCEPT !.l = sub.rest]]

\* node: the leftmost node of t, or NULL; rest: what is left of t.
RECURSIVE isolate_leftmost(_)
isolate_leftmost(t) ==
  IF t = NULL THEN [node |-> NULL, rest |-> NULL]
  ELSE LET sub == isolate_leftmost(t.l)
       IN  IF sub.node = NULL
           THEN [node |-> t, rest |-> t.r]
           ELSE [node |-> sub.node,
                 rest |-> regen_metadata([t EXCEPT !.l = sub.rest])]

\* A bug: the replacement is taken from the left subtree.
isolate_root_node__left(t) ==
  LET low == isolate_leftmost(t.l)
  IN  IF t.l = NULL THEN t.r
      ELSE regen_metadata([low.node EXCEPT !.l = low.rest, !.r = t.r])

isolate_root_node(t) ==
  LET low == isolate_leftmost(t.r)
  IN  IF t.l = NULL THEN t.r
      ELSE IF low.node = NULL THEN t.l
      ELSE regen_metadata([low.node EXCEPT !.l = t.l, !.r = low.rest])

-----------------------------------------------------------------------------
(* The recursive updates.  nomem is the allocation that fails, if it is    *)
(* reached: "node" (new_avl_el), "cell" (the list cell) or "none".         *)

RECURSIVE insert_element_into_tree(_, _, _)
insert_element_into_tree(d, t, nomem) ==
  IF t = NULL
  THEN IF nomem = "node" THEN [ret |-> ENOMEM, tree |-> NULL]
       ELSE LET ins == ll_insert(<< >>, d, nomem = "cell")
            IN  [ret  |-> ins.ret,
                 tree |-> regen_metadata([new_avl_el(hashf[d]) EXCEPT !.ll = ins.ll])]
  ELSE IF hashf[d] = t.hash
  THEN LET ins == ll_insert(t.ll, d, nomem = "cell")
       IN  [ret |-> ins.ret, tree |-> [t EXCEPT !.ll = ins.ll]]
  ELSE LET side == IF hashf[d] < t.hash THEN "l" ELSE "r"
           sub  == insert_element_into_tree(d, t[side], nomem)
       IN  [ret |-> sub.ret, tree |-> regen_metadata([t EXCEPT ![side] = sub.tree])]

RECURSIVE remove_element(_, _)

\* A bug: the node stays when its list becomes empty.
remove_element__hollow(t, d) ==
  IF t = NULL THEN [ret |-> EEXIST, tree |-> NULL]
  ELSE IF hashf[d] = t.hash
  THEN LET del == ll_delete(t.ll, d) IN [ret |-> del.ret, tree |-> [t EXCEPT !.ll = del.ll]]
  ELSE LET side == IF hashf[d] < t.hash THEN "l" ELSE "r"
           sub  == remove_element(t[side], d)
       IN  [ret |-> sub.ret, tree |-> regen_metadata([t EXCEPT ![side] = sub.tree])]

remove_element(t, d) ==
  IF t = NULL THEN [ret |-> EEXIST, tree |-> NULL]
  ELSE IF hashf[d] = t.hash
  THEN LET del  == ll_delete(t.ll, d)
           rest == isolate_root_node(t)
       IN  [ret  |-> del.ret,
            tree |-> IF ~ll_is_empty(del.ll) THEN [t EXCEPT !.ll = del.ll]
                     ELSE IF rest = NULL THEN NULL ELSE regen_metadata(rest)]
  ELSE LET side == IF hashf[d] < t.hash THEN "l" ELSE "r"
           sub  == remove_element(t[side], d)
       IN  [ret |-> sub.ret, tree |-> regen_metadata([t EXCEPT ![side] = sub.tree])]

\* crash: regen_metadata() was reached with the null pointer a removed leaf
\* leaves behind; nothing runs after it.
RECURSIVE delete_elements_by_predicate(_, _)
delete_elements_by_predicate(t, P) ==
  IF t = NULL THEN [ret |-> 0, tree |-> NULL, crash |-> FALSE]
  ELSE LET l    == delete_elements_by_predicate(t.l, P)
           r    == delete_elements_by_predicate(t.r, P)
           here == ll_ndel(t.ll, P)
           node == [t EXCEPT !.ll = here.ll, !.l = l.tree, !.r = r.tree]
           rest == IF ll_is_empty(here.ll) THEN isolate_root_node(node) ELSE node
       IN  IF l.crash \/ r.crash \/ rest = NULL
           THEN [ret |-> 0, tree |-> t, crash |-> TRUE]
           ELSE [ret   |-> l.ret + r.ret + here.ret,
                 tree  |-> regen_metadata(rest),
                 crash |-> FALSE]

-----------------------------------------------------------------------------
(* Queries. *)

\* The walk of find_node() from t; every step checks the bloom filter first.
RECURSIVE find_node(_, _)
find_node(t, hash) ==
  IF t = NULL \/ t.hash = hash THEN t
  ELSE IF ~bloom_may_contain(HashFilter[hash], t.filter) THEN NULL
  ELSE find_node(IF t.hash > hash THEN t.l ELSE t.r, hash)

\* The first loop skips the nodes that are not lower, the second walks right.
RECURSIVE SkipNotLower(_, _)
SkipNotLower(t, hash) ==
  IF t = NULL \/ t.hash < hash THEN t ELSE SkipNotLower(t.l, hash)

RECURSIVE WalkRight(_, _, _)
WalkRight(t, hash, best) ==
  IF t = NULL \/ t.hash > hash THEN best ELSE WalkRight(t.r, hash, t)

find_closest_lower(t, hash) ==
  LET low == SkipNotLower(t, hash) IN WalkRight(low, hash, low)

\* The mirror image.
RECURSIVE SkipNotGreater(_, _)
SkipNotGreater(t, hash) ==
  IF t = NULL \/ t.hash > hash THEN t ELSE SkipNotGreater(t.r, hash)

RECURSIVE WalkLeft(_, _, _)
WalkLeft(t, hash, best) ==
  IF t = NULL \/ t.hash < hash THEN best ELSE WalkLeft(t.l, hash, t)

find_closest_greater(t, hash) ==
  LET high == SkipNotGreater(t, hash) IN WalkLeft(high, hash, high)

RECURSIVE subtree_cardinality(_)
subtree_cardinality(t) ==
  IF t = NULL THEN 0
  ELSE subtree_cardinality(t.l) + subtree_cardinality(t.r) + ll_count(t.ll)

\* Children first, then the node's own list; the first error ends it all.
RECURSIVE select_from_subtree(_, _, _)
select_from_subtree(t, P, Bad) ==
  IF t = NULL THEN [ret |-> OK, seen |-> << >>]
  ELSE LET l == select_from_subtree(t.l, P, Bad)
           r == select_from_subtree(t.r, P, Bad)
           n == ll_select(t.ll, P, Bad)
       IN  IF l.ret < 0 THEN l
           ELSE IF r.ret < 0 THEN [r EXCEPT !.seen = l.seen \o @]
           ELSE [n EXCEPT !.seen = l.seen \o r.seen \o @]

RECURSIVE node_is_subset(_, _, _)

\* b0 is the root of the tree b is a subtree of.
node_is_subset(a, b, b0) ==
  CASE a = NULL -> TRUE
    [] a # NULL /\ b = NULL -> FALSE
    [] a # NULL /\ b # NULL /\ a.hash > b.hash ->
         node_is_subset(a.l, b, b0) /\ node_is_subset(a, b.r, b0)
    [] a # NULL /\ b # NULL /\ a.hash < b.hash ->
         node_is_subset(a.r, b, b0) /\ node_is_subset(a, b.l, b0)
    [] a # NULL /\ b # NULL /\ a.hash = b.hash ->
         /\ node_is_subset(a.l, b0, b0)
         /\ node_is_subset(a.r, b0, b0)
         /\ ll_is_subset(a.ll, b.ll)

-----------------------------------------------------------------------------
(* The interface: root is the root field of struct avl. *)

avl_find(root, d) ==
  LET node == find_node(root, hashf[d])
  IN  IF node = NULL THEN NULL ELSE ll_find(node.ll, d)

\* A bug: the tree is not rebalanced.
avl_insert__unbalanced(root, d, nomem) ==
  LET ins == insert_element_into_tree(d, root, nomem)
  IN  [ret |-> ins.ret, root |-> ins.tree]

avl_insert(root, d, nomem) ==
  LET ins == insert_element_into_tree(d, root, nomem)
  IN  [ret |-> ins.ret, root |-> rebalance_subtree(ins.tree)]

avl_del(root, d) ==
  LET del == remove_element(root, d)
  IN  [ret |-> del.ret, root |-> rebalance_subtree(del.tree)]

avl_ndel(root, P) ==
  LET del == delete_elements_by_predicate(root, P)
  IN  [ret   |-> del.ret,
       root  |-> IF del.crash THEN root ELSE rebalance_subtree(del.tree),
       crash |-> del.crash]

avl_destroy(root) == [ret |-> IF root = NULL THEN EEXIST ELSE OK, root |-> NULL]

avl_cardinality(root) == subtree_cardinality(root)

avl_select(root, P, Bad) == select_from_subtree(root, P, Bad)

avl_is_subset(roota, rootb) == node_is_subset(roota, rootb, rootb)
=============================================================================
