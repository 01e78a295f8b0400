SPECIFICATION BlocksSpec
CONSTANTS
  Blocks = {"fifo", "dir", "amo", "fault", "codes", "lengths", "block", "match", "static", "trace"}
  Depth = 3
  Feedthrough = TRUE
  Item = {a, b}
  Ways = 3
  Sets = 2
  Lines = {0, 2, 3, 4, 6}
  WordBits = 4
  LongestCode = 32
  FastBits = 1
  MaxZeroRun = 14
  LitSyms = 3
  DictSize = 16
  InflDictSize = 16
  MaxMatch = 5
  MinMatch = 3
  FarDist = 9
  LongMatch = 5
  CodeBufMax = 12
  BlockMax = 9
  SizeBuffer = 6
  AddrBytes = 2
  AccessKinds <- LoadAndStore
  DelayMod = 2
  MaxSizeBuffer = 7
  MaxAccesses = 3
  MaxInsns = 1
INVARIANTS
  PointersOrdered
  DirInvalTakes
  VictimExists
  AmoAgree
  FaultPlaced
  HuffmanInverse
  RoundTrip
  TraceFaithful
PROPERTIES
  ImplementsFifo
  BufferImplementsFifo
  TraceRecovered
