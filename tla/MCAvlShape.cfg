SPECIFICATION Spec
CONSTANTS
  NULL = NULL
  k1 = k1  k2 = k2  k3 = k3  k4 = k4  k5 = k5  k6 = k6  k7 = k7  k8 = k8  k9 = k9  k10 = k10  k11 = k11
  Key <- WideKey
  hashf <- Widehashf
  Preds = {}
  Faults = {}
  NoMem = {"none"}
  BLOOM_BITS = 8
  INT_BITS = 4
  HASH_VARIANTS = 1
  WideShift <- MaskedShift
INVARIANTS HeightAlmostExact LogarithmicDepth Rebalanced
VIEW View
