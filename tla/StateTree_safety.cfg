SPECIFICATION AnalysisSpec
CONSTANTS
  Keys = {1, 2, 3}
  MaxLevel = 3
  MaxSize = 7
  MaxMoves = 2
  MaxMoving = 6
  e = e
  ePart = ePart
  Star = Star
  Signals = {e}
  Wildcards = {ePart, Star}
  Matching <- MCMatching
  Delays = {d}
  MaxReleased = 5
  MaxEdits = 2
CHECK_DEADLOCK FALSE
INVARIANTS MigrationStatesAreAll EventsAreListed NothingBreaksUnseen
