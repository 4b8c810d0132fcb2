CONSTANTS
  n1 = n1
  n2 = n2
  b1 = b1
  p1 = p1
  Names = {n1, n2}
  NoName = NoName
  Binders = {b1}
  Players = {p1}
  BytesApi = FALSE
  MaxCalls = 3
  MaxConnects = 2
  MaxWrites = 2
  MaxMessages = 1
SPECIFICATION FairSpec
INVARIANTS TypeOK OneLoopReads WholeFrames
PROPERTY ConnectReturns
