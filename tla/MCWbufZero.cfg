SPECIFICATION FairSpec
CONSTANTS
  t1 = t1
  t2 = t2
  b1 = b1
  b2 = b2
  v0 = v0
  v1 = v1
  DirN = 2
  DataN = 2
  Tag = {t1}
  LineOf <- OneLine
  Byte = {b1}
  Val = {v0}
  NoVal = NoVal
  WriteData <- ByteWrites
  CntMod = 4
  Cfgs <- CfgsZero
  Reprogram = TRUE
  InOrder = TRUE
PROPERTIES
  ZeroThresholdCloses
