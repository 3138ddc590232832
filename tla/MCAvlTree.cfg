SPECIFICATION Spec
CONSTANTS
  NULL = NULL
  k1 = k1  k2 = k2  k3 = k3  k4 = k4  k5 = k5  k6 = k6  k7 = k7  k8 = k8  k9 = k9  k10 = k10  k11 = k11
  Key <- MCKey
  hashf <- MChashf
  Preds <- SomePreds
  Faults <- SomeFaults
  NoMem = {"none", "node", "cell"}
  BLOOM_BITS = 8
  INT_BITS = 4
  HASH_VARIANTS = 3
  WideShift <- MaskedShift
INVARIANTS TypeOK SearchTree MetadataExact
PROPERTIES HollowOnlyFromENOMEM ImplementsSet
VIEW View
CHECK_DEADLOCK FALSE
