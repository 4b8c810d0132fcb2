CONSTANTS
  w1 = w1
  w2 = w2
  Writers = {w1, w2}
  MaxFrames = 2
  Header = 2
  Length <- MCLength
  WireCap = 3
  MaxSignals = 2
  GarbageSizes <- MCGarbageSizes
  ReaderIsHost = TRUE
SPECIFICATION FairSpec
INVARIANTS TypeOK TearNeedsTwo
PROPERTIES ImplementsChannel AcceptedIsDelivered WriteReturns
