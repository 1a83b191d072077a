SPECIFICATION FairSpec
CONSTANTS
  Checks = {c1, c2}
  Periods = {1, 2}
  None = None
  MaxTime = 3
  MaxEdits = 3
  MaxRuns = 1
  MaxFaults = 1
INVARIANT TypeOK
INVARIANT JobFollowsNode
INVARIANT NothingLost
PROPERTY DueIsRun
PROPERTY OrphansGo
CHECK_DEADLOCK FALSE
