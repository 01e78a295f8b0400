SPECIFICATION Spec
CONSTANTS
  t1 = t1
  t2 = t2
  b1 = b1
  b2 = b2
  v0 = v0
  v1 = v1
  DirN = 3
  DataN = 2
  Tag = {t1, t2}
  LineOf <- TwoLines
  Byte = {b1}
  Val = {v0}
  NoVal = NoVal
  WriteData <- ByteWrites
  CntMod = 4
  Cfgs <- CfgsMixed
  Reprogram = TRUE
  InOrder = TRUE
VIEW Observable
INVARIANTS
  BufferOwnership
  OutstandingIds
  ChannelsPaired
  HeldGrantsValid
