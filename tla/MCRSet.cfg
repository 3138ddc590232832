SPECIFICATION Spec
CONSTANTS
  NULL = NULL
  k1 = k1  k2 = k2  k3 = k3
  h1 = h1  h2 = h2  c1 = c1  c2 = c2
  Key <- MCKey
  hashf <- MChashf
  Handle <- MCHandle
  Cfg <- MCCfg
  Preds <- SomePreds
  Faults <- SomeFaults
  NoMem = {"none", "node", "cell"}
  HT_INIT_POWER = 1
  Tree <- MCTree
  Elems <- MCElems
  NodeHashes <- MCNodeHashes
  tree_insert <- MCtree_insert
  tree_del <- MCtree_del
  tree_ndel <- MCtree_ndel
  tree_find <- MCtree_find
  tree_cardinality <- MCtree_cardinality
  tree_select <- MCtree_select
  tree_is_subset <- MCtree_is_subset
  HASH_BITS = 3
  INT_MAX = 7
  BLOOM_BITS = 8
  INT_BITS = 4
  HASH_VARIANTS = 3
  WideShift <- MaskedShift
INVARIANT TypeOK
PROPERTY ImplementsSets
VIEW View
CHECK_DEADLOCK FALSE
