\* A reload may also be asked for after SIGTERM.
SPECIFICATION Spec
CONSTANTS
  Names = {"a", "b"}
  Versions = {1, 2}
  Programs <- MCPrograms
  MaxDepth = 3
INVARIANT OneReload
CHECK_DEADLOCK FALSE
