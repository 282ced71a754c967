SPECIFICATION Spec
CONSTANTS
  p1 = p1
  p2 = p2
  p3 = p3
  None = None
  Ops = {p1, p2, p3}
  Kinds = {"compile", "edit", "startup"}
  MaxFaults = 2
  MaxClock = 4
  Faults = {"crash", "stall", "io"}
SYMMETRY Symmetry
CONSTRAINT Unharmed
INVARIANTS
  NothingLost
PROPERTIES
  IsRegister
CHECK_DEADLOCK FALSE
