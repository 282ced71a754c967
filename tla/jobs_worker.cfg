SPECIFICATION FairSpec
CONSTANTS
  j1 = j1
  j2 = j2
  j3 = j3
  e1 = e1
  e2 = e2
  m1 = m1
  m2 = m2
  m3 = m3
  r1 = r1
  r2 = r2
  None = None
  Recovery = Recovery
  Jobs = {j1}
  FirstJob = j1
  Execs = {e1}
  Messages = {m1, m2, m3}
  Requests = {}
  RetryLimit = 2
  MaxFaults = 2
  Ops = {}
  Faults = {"crash", "restart"}
INVARIANTS
  NoOrphanedJob
  CompletedIsUsable
PROPERTIES
  EventuallySettled
CHECK_DEADLOCK FALSE
