SPECIFICATION BoundedSpec
CONSTANTS
  Watcher = "native"
  Windows = {"video", "docs"}
  Away = "away"
  Nothing = Nothing
  Sessions = 1
  Stale = 2
  FlushEvery = 2
  Gaps = {1, 2}
  FreeTier <- Rules
  Hinted <- NoHints
  MinDuration = 1
  BatchWindow = 2
  DriftMin = 2
  DayLength = 3
  MaxTime = 4
  MaxRows = 3
  MaxLabels = 2
  MaxAnswers = 1
  MaxRestarts = 1
INVARIANTS SpansExact CrashLoses Vouched NothingUnjudged JudgedOnce ReadingsAgree DriftCharged
PROPERTIES NoAlertOnReturn CorrectionStands
CHECK_DEADLOCK FALSE
