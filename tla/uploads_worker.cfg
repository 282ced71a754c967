SPECIFICATION FairSpec
CONSTANTS
  p1 = p1
  p2 = p2
  c1 = c1
  c2 = c2
  h1 = h1
  h2 = h2
  m1 = m1
  m2 = m2
  None = None
  Parts = {p1}
  Clients = {c1}
  Handlers = {h1, h2}
  Messages = {m1, m2}
  RetryLimit = 1
  MaxFaults = 1
  Faults = {"disk", "crash", "slow", "duplicate"}
INVARIANTS
  OneVersion
PROPERTIES
  FinalizingSettles
  PartsReclaimed
CHECK_DEADLOCK FALSE
