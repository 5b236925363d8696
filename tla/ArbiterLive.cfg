SPECIFICATION LiveSpec
CONSTANTS
  Keys = {"r1", "r2"}
  NoKey = "none"
  Asks <- LiveAsks
  Caps <- LiveCaps
  Contexts <- LiveContexts
  Cooldown = 1
  StaleAfter = 2
  Hour = 2
  Forget = 2
  Steps = {1}
  MaxTime = 5
  MaxRestarts = 0
  LogOutcomes = {TRUE}
  ClientAcks = FALSE
INVARIANTS OneAtATime
PROPERTIES EventuallyServed
