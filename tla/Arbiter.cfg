SPECIFICATION BoundedSpec
CONSTANTS
  Keys = {"r1", "d"}
  NoKey = "none"
  Asks <- SafeAsks
  Caps <- SafeCaps
  Contexts <- SafeContexts
  Cooldown = 1
  StaleAfter = 2
  Hour = 2
  Forget = 2
  Steps <- SafeSteps
  MaxTime = 3
  MaxRestarts = 1
  LogOutcomes = {TRUE, FALSE}
  ClientAcks = TRUE
INVARIANTS Spaced Capped
PROPERTIES NoOvertaking NothingLost ImplementsBudget
