CONSTANTS
  w1 = w1
  w2 = w2
  Writers = {w1}
  MaxFrames = 1
  Header = 2
  Length <- MCLength
  WireCap = 3
  MaxSignals = 2
  GarbageSizes <- MCGarbageSizes
  ReaderIsHost = FALSE
SPECIFICATION Spec
INVARIANTS TrueMeansAllSent
