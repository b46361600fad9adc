\* No start arrives while a stop is under way; time passes, handlers run.
SPECIFICATION FairSeqSpec
CONSTANTS
  Pids = {1, 2}
  MaxElapsed = 4
  BackoffCap = 4
  MaxRetry = 3
  Configs <- MCConfigs
INVARIANTS
  TypeOK PidSafe RetryBudget RunningSurvivedStartsecs
  SingleInstance ExitBackoff
PROPERTIES StoppedChildGoes FollowsLifeCycle Settles
