SPECIFICATION FairSpec
CONSTANTS
  Workflows = {w1, w2}
  Deployments = {d1}
  Programs <- Both
  MaxFailures = 2
  MaxStarts = 1
  MaxLowers = 1
  MaxContinues = 1
CHECK_DEADLOCK FALSE
INVARIANTS OnlyNewcomersStranded
PROPERTIES ToldOnlyWhenDue NotToldAgain MigrationEnds
