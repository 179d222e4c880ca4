SPECIFICATION CallSpec
CONSTANTS
  MaximumAttempts = 3
  Errors <- MCErrors
CHECK_DEADLOCK FALSE
INVARIANTS FinalIsFinal ShowsTheLastAttempt
