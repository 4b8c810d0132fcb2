CONSTANTS
  c1 = c1
  c2 = c2
  t1 = t1
  t2 = t2
  Clients = {c1, c2}
  Hole = Hole
  Threads = {t1, t2}
  NoThread = NoThread
  MaxCalls = 4
SPECIFICATION Spec
INVARIANTS TypeOK DuplicateNeedsOverlap ReturnedMeansRegistered UnregisteredIsGone
