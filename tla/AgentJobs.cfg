SPECIFICATION FairSpec
CHECK_DEADLOCK FALSE
CONSTANTS
  Workers = {w1, w2}
  MaxRuns = 3
  MaxAttempts = 2
  MaxErrorTurns = 2
  MaxCancel = 1
  MaxLoad = 4
INVARIANT LoopOwnsRound
PROPERTIES CancelSticks RoundSettles
