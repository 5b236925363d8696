SPECIFICATION FairSpec
CONSTANTS
  BreakLen = 1
  Rems = {"r1", "r2"}
  Triggers = {"time", "session_end", "on_break", "app_opened"}
  Urgency = {TRUE, FALSE}
  Leads = {1}
  Pasts = {1}
  SnoozeLen = 1
  MaxDefer = 1
INVARIANTS WaitingIsLive OnlyCarried
PROPERTIES ReleasedAtBoundary EventuallyFires
