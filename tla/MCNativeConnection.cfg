CONSTANTS
  p1 = p1
  Plugins = {p1}
  NoPlugin = NoPlugin
  MaxConns = 2
  Backlog = 2
  MaxInits = 2
  MaxReinits = 1
SPECIFICATION FairSpec
INVARIANTS TypeOK HostDescriptors ClientDescriptors OneThreadPerClient LeakBounded StrayNeedsDrop
PROPERTIES TurnComes JoinEnds
