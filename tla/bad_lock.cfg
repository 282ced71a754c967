SPECIFICATION KnowledgeSpec
CONSTANTS
  s1 = s1
  s2 = s2
  t1 = t1
  t2 = t2
  o1 = o1
  a = a
  b = b
  Spaces <- TwoSpaces
  MaxBindings = 2
  Contexts <- WholeAndTarget
  Turns <- TwoTurns
  Binders <- OneBinder
  MaxContexts = 2
  MaxFaults = 1
  Pages = {a, b}
  Contents = {1, 2, 3}
  Compilations <- Results
  MaxCompiled = 3
  MaxConflicts = 1
  MaxFailures = 0
  Failures = {}
PROPERTIES
  LockKept
CHECK_DEADLOCK FALSE
