SPECIFICATION FairSpec
CONSTANTS
  Initial = 0
  Step = 25
  Max = 100
  OperatorFlags <- SomeFlags
  Outlives = FALSE
  MaxErrors = 2
  MaxRetries = 1
  MaxChanges = 2
CHECK_DEADLOCK FALSE
INVARIANTS CompletesAtLast
PROPERTIES OnlyRacesOverwrite RolloutEnds
