SPECIFICATION FairSpec
CONSTANTS
  u1 = u1
  u2 = u2
  s1 = s1
  w1 = w1
  w2 = w2
  q1 = q1
  none = none
  Requests <- MCRequests
  Action <- MCAction
  Targets <- MCTargets
  Given <- MCGiven
  Workflows = {w1, w2}
  Queues = {q1}
  NoQueue = none
  Connected = TRUE
  MaxReplies = 2
CHECK_DEADLOCK FALSE
INVARIANTS SuccessIsAnswered NothingLeftBehind
PROPERTY HeardEnds
