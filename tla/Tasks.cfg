SPECIFICATION Spec
CONSTANTS
  Writers = {"daemon", "cli"}
  Daemon = "daemon"
  Names = {"code", "Code"}
  Lower <- SameButCase
  One = 2
  MaxTasks = 3
  MaxEdits = 2
  MaxKey = 6
INVARIANTS KnownOnce OwnHints
PROPERTIES HintsStay LandsWhereAsked
