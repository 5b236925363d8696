SPECIFICATION FairSpec
CONSTANTS
  Clis = {"c1"}
  Plans = {1}
  Grace = 1
  BreakLen = 1
  ResyncEvery = 2
  Outcomes = {"finished", "partly"}
  None = "none"
  Steps = {1}
  AgeCap = 3
  MaxSessions = 2
  MaxCrashes = 1
PROPERTIES EndIsFinal ImplementsPhases EventuallyEnds
