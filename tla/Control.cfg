SPECIFICATION FairSpec
CONSTANTS
  QueueSize = 2
  MaxRequests = 2
  MaxTicks = 3
  MaxPosted = 1
INVARIANTS RunsEachOnce LatestArrives ScreenFollows
PROPERTIES EventuallyExits
CHECK_DEADLOCK FALSE
