SPECIFICATION Spec
CONSTANTS
  l1 = l1
  l2 = l2
  w1 = w1
  w2 = w2
  N = 3
  Line = {l1, l2}
  Way = {w1}
  SetOf <- OneSet
  MshrSetOf <- OneSet
  Raised <- OrderDeps
  EccEn = FALSE
  WbEn = TRUE
VIEW Observable
INVARIANTS
  TypeOK
  SameLineOrder
  NoOrphan
  FenceOrder
  LinkTarget
  ErrorReplayed
  SingleEntryMode
PROPERTIES
  ReplayResolved
