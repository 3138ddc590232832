SPECIFICATION FairSpec
CONSTANTS
  NULL = NULL
  a1 = a1  a2 = a2  a3 = a3  a4 = a4  a5 = a5  a6 = a6
  k1 = k1  k2 = k2  k3 = k3  k4 = k4  k5 = k5  k6 = k6  k7 = k7
  Addr <- MCAddr
  home <- MChome
  Key <- MCKey
  hashf <- MChashf
  Preds <- MCPreds
  Faults = {}
  NoNode <- MCKey
  NoCell <- MCNoCell
  BLOOM_BITS = 8
  INT_BITS = 4
  HASH_VARIANTS = 3
  WideShift <- MaskedShift
INVARIANTS TypeOK NoUseAfterFree OneSlotEach NoLeak Sorted MetadataExact FindIsExact HeapInvNow
PROPERTIES CallsReturn ImplementsTree ImplementsSet
VIEW View
CHECK_DEADLOCK FALSE
