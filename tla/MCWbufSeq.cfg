SPECIFICATION Spec
CONSTANTS
  t1 = t1
  t2 = t2
  b1 = b1
  b2 = b2
  v0 = v0
  v1 = v1
  DirN = 2
  DataN = 2
  Tag = {t1, t2}
  LineOf <- OneLine
  Byte = {b1, b2}
  Val = {v0, v1}
  NoVal = NoVal
  WriteData <- PartialWrites
  CntMod = 2
  Cfgs <- CfgsSequential
  Reprogram = TRUE
  InOrder = FALSE
SYMMETRY Symmetry
VIEW Observable
INVARIANTS
  TypeOK
  OneActiveEntryPerTag
  WritesCoherent
  ReadMissSafe
PROPERTIES
  AnnouncedFrozen
