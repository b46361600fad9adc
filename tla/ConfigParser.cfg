SPECIFICATION Spec
CONSTANTS
  Files = {m, a, b, c}
  m = m
  a = a
  b = b
  c = c
  Main = m
  MaxDepth = 3
  Disks <- MCDisks
INVARIANTS Verdict ProgramOrder IncludedOverrides
PROPERTY EveryStepCounts
CHECK_DEADLOCK FALSE
