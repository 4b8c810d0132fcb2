CONSTANTS
  n1 = n1
  n2 = n2
  b1 = b1
  p1 = p1
  Names = {n1, n2}
  NoName = NoName
  Binders = {b1}
  Players = {p1}
  BytesApi = TRUE
  MaxCalls = 2
  MaxConnects = 2
  MaxWrites = 3
  MaxMessages = 1
SPECIFICATION Spec
INVARIANT WholeFrames
