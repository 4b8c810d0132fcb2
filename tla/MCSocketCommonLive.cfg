CONSTANTS
  c1 = c1
  ev = ev
  Callers = {c1, ev}
  EventThread = ev
  NoOne = NoOne
  MaxCalls = 3
  OutCap = 1
  BackCap = 1
SPECIFICATION FairSpec
PROPERTY CallReturns
