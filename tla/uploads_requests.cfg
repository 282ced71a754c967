SPECIFICATION Spec
CONSTANTS
  p1 = p1
  p2 = p2
  c1 = c1
  c2 = c2
  h1 = h1
  h2 = h2
  m1 = m1
  m2 = m2
  None = None
  Parts = {p1, p2}
  Clients = {c1, c2}
  Handlers = {h1}
  Messages = {m1}
  RetryLimit = 1
  MaxFaults = 1
  Faults = {"disk", "database", "crash", "slow", "invalid", "twin"}
SYMMETRY Symmetry
INVARIANTS
  PartsOnDisk
  ReservationFollows
PROPERTIES
  SettledStays
CHECK_DEADLOCK FALSE
