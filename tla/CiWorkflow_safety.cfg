SPECIFICATION FairSpec
CONSTANTS
  v0 = v0
  v1 = v1
  v2 = v2
  None = None
  Versions <- Three
  Before = v0
  MaxSignals = 3
  MaxDeploys = 2
  MaxFailures = 1
  MaxContinues = 1
CHECK_DEADLOCK FALSE
INVARIANT OpenUntilDone
PROPERTIES ClosesWhenDone CleansReplaced RolloutCloses
