SPECIFICATION Spec
CONSTANTS
  NULL = NULL
  BLOOM_BITS = 8
  INT_BITS = 4
  HASH_VARIANTS = 3
  WideShift <- MaskedShift
  HashSets <- MCHashSets
INVARIANT CommonIsNoticed
CHECK_DEADLOCK FALSE
