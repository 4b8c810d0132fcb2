CONSTANTS
  n1 = n1
  n2 = n2
  a1 = a1
  Names = {n1, n2}
  NoName = NoName
  Apps = {a1}
  MaxCalls = 3
  MaxServers = 3
  MaxClients = 2
SPECIFICATION FairSpec
INVARIANTS TypeOK OneLoop LoopOrNotice
PROPERTIES CrashNeedsDisconnect DisconnectReturns CutClientLeaves
