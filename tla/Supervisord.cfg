\* Reloads, stops and shutdowns nested in each other, but no reload after SIGTERM.
SPECIFICATION FairCalmSpec
CONSTANTS
  Names = {"a", "b"}
  Versions = {1, 2}
  Programs <- MCPrograms
  MaxDepth = 3
INVARIANTS OneReload MapMatchesConfig
PROPERTIES UnchangedLeftAlone ShutdownEnds
CHECK_DEADLOCK FALSE
