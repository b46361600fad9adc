SPECIFICATION Spec
CONSTANTS
  Names = {a, b}
  a = a
  b = b
  Pids = {1, 2}
  MaxElapsed = 1
  BackoffCap = 1
  MaxRetry = 1
  MaxDepth = 2
  Configs <- MCConfigs
INVARIANTS NoSharedChild StaysStopped
PROPERTIES KillAfterGrace StopAllAsksAll EachProgramIsAProcess
SYMMETRY NamesSymmetry
