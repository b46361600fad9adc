\* Every operation on the files may fail.
SPECIFICATION Spec
CONSTANTS
  MaxBytes = 2
  Backups = {0, 2}
  MaxPending = 2
  Faults = TRUE
  MaxSent = 7
  Chunks <- MCChunks
INVARIANTS TypeOK InOrder NoGap SizeTracksFile
