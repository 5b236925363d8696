SPECIFICATION Spec
CONSTANTS
  Callers = {"worker", "gui", "command"}
  Questions = {"batch", "text"}
  Answers = {"answer"}
  None = None
  Hour = 1
  Day = 3
  HourlyCap = 1
  DailyCap = 2
  MaxTime = 3
  MaxLost = 1
INVARIANTS BudgetHeld BoughtOnce
PROPERTIES PaidOnce
