SPECIFICATION FairSpec
CONSTANTS
  NULL = NULL  HEAD = HEAD
  m1 = m1  m2 = m2  m3 = m3  k1 = k1  k2 = k2  k3 = k3
  o1 = o1  o1b = o1b  o2 = o2  o2b = o2b  o3 = o3
  Cell <- MCCell
  Key <- MCKey
  Obj <- MCObj
  keyof <- MCkeyof
  Preds <- MCPreds
  Faults <- MCFaults
INVARIANTS TypeOK NoUseAfterFree NoDuplicates OwnsItsData NoLeak BoundedListInv
PROPERTIES ImplementsSet CallsReturn
VIEW View
CHECK_DEADLOCK FALSE
