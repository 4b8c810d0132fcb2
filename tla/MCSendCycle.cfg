CONSTANTS
  c1 = c1
  ev = ev
  Callers = {c1}
  EventThread = ev
  NoOne = NoOne
  MaxCalls = 5
  OutCap = 1
  BackCap = 1
SPECIFICATION FairSpec
PROPERTY CallReturns
