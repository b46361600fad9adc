\* Nested stop requests, under the fairness of the event loop.
SPECIFICATION FairSpec
CONSTANTS
  Names = {a, b}
  a = a
  b = b
  Pids = {1}
  MaxElapsed = 1
  BackoffCap = 1
  MaxRetry = 1
  MaxDepth = 2
  Configs <- MCConfigs
PROPERTY RequestsReturn
