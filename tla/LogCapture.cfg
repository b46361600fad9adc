\* Restarts only after the end of the previous pipe.
SPECIFICATION FairCalmSpec
CONSTANTS
  MaxGen = 2
  MaxChars = 4
  BufSize = 2
INVARIANTS TypeOK StaysCaptured LogIsFaithful
PROPERTY EverythingLogged
CHECK_DEADLOCK FALSE
