SPECIFICATION Spec
CONSTANTS
  j1 = j1
  j2 = j2
  j3 = j3
  e1 = e1
  e2 = e2
  m1 = m1
  m2 = m2
  m3 = m3
  r1 = r1
  r2 = r2
  None = None
  Recovery = Recovery
  Jobs = {j1}
  FirstJob = j1
  Execs = {e1, e2}
  Messages = {m1, m2}
  Requests = {r1}
  RetryLimit = 1
  MaxFaults = 2
  Ops = {"cancel"}
  Faults = {"error", "stall", "timeout", "relapse", "restart", "overlap"}
SYMMETRY Symmetry
INVARIANTS
  LeaseConsistent
PROPERTIES
  CancellationSticks
  SettledNeverReruns
CHECK_DEADLOCK FALSE
