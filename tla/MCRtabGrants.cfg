SPECIFICATION Spec
CONSTANTS
  l1 = l1
  l2 = l2
  w1 = w1
  w2 = w2
  N = 2
  Line = {l1, l2}
  Way = {w1}
  SetOf <- TwoSets
  MshrSetOf <- OneSet
  Raised <- GrantDeps
  EccEn = FALSE
  WbEn = TRUE
VIEW Observable
INVARIANTS
  GrantsValid
