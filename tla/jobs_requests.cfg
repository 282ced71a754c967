SPECIFICATION Spec
CONSTANTS
  j1 = j1
  j2 = j2
  j3 = j3
  e1 = e1
  e2 = e2
  m1 = m1
  m2 = m2
  m3 = m3
  r1 = r1
  r2 = r2
  None = None
  Recovery = Recovery
  Jobs = {j1, j2, j3}
  FirstJob = j1
  Execs = {e1}
  Messages = {m1, m2}
  Requests = {r1}
  RetryLimit = 0
  MaxFaults = 1
  Ops = {"cancel", "resume", "retry"}
  Faults = {"crash", "error", "stall", "heartbeat", "timeout", "queue"}
SYMMETRY Symmetry
INVARIANTS
  OneRunnableJob
CHECK_DEADLOCK FALSE
