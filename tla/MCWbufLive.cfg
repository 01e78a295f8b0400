SPECIFICATION FairSpec
CONSTANTS
  t1 = t1
  t2 = t2
  b1 = b1
  b2 = b2
  v0 = v0
  v1 = v1
  DirN = 2
  DataN = 1
  Tag = {t1, t2}
  LineOf <- OneLine
  Byte = {b1}
  Val = {v0, v1}
  NoVal = NoVal
  WriteData <- ByteWrites
  CntMod = 4
  Cfgs <- CfgsLive
  Reprogram = FALSE
  InOrder = TRUE
PROPERTIES
  EntryDrains
INVARIANTS
  WritesCoherent
