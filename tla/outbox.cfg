SPECIFICATION FairSpec
CONSTANTS
  d1 = d1
  d2 = d2
  d3 = d3
  None = None
  Rows = {1, 2}
  Dispatchers = {d1, d2}
  MaxFaults = 1
  Users = {"cancel", "resume"}
  Faults = {"crash", "stall", "queue", "database"}
INVARIANTS
  DeliverySafe
  OncePerFault
PROPERTIES
  IntentKept
  IntentLive
