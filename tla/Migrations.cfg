SPECIFICATION Spec
CONSTANTS
  Procs = {"daemon", "cli"}
  Kept = {1}
  MaxRows = 2
  MaxCrashes = 2
INVARIANTS RowsKept Converged RefusesOnlyTorn
