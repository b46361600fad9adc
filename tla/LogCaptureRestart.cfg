\* A restart while a descendant of the old child still has the pipe.
SPECIFICATION Spec
CONSTANTS
  MaxGen = 2
  MaxChars = 2
  BufSize = 2
INVARIANT StaysCaptured
CHECK_DEADLOCK FALSE
