SPECIFICATION Spec
CONSTANTS
  NULL = NULL
  k1 = k1  k2 = k2  k3 = k3  k4 = k4  k5 = k5  ta = ta  tb = tb
  Key <- FourKeys
  hashf <- Collide
  Table <- MCTable
  SizeExp <- OneAndTwo
  Preds <- FewPreds
  NoMem = {"none", "node", "cell"}
  Tree <- MCTree
  Elems <- MCElems
  NodeHashes <- MCNodeHashes
  tree_insert <- MCtree_insert
  tree_del <- MCtree_del
  tree_ndel <- MCtree_ndel
  tree_find <- MCtree_find
  tree_cardinality <- MCtree_cardinality
  tree_select <- MCtree_select
  tree_is_subset <- MCtree_is_subset
  HASH_BITS = 4
  INT_MAX = 7
  BLOOM_BITS = 8
  INT_BITS = 4
  HASH_VARIANTS = 3
  WideShift <- MaskedShift
INVARIANTS TypeOK BucketsInHashOrder EqualIsSound EqualToItself GroupsMatchBuckets
