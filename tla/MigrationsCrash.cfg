SPECIFICATION Spec
CONSTANTS
  Procs = {"daemon"}
  Kept = {1}
  MaxRows = 2
  MaxCrashes = 1
INVARIANTS NeverRefuses
