SPECIFICATION FileSpec
CONSTANTS
  Words <- Named
  Values = {0, 1, 2, 3}
  Long = {2, 3}
  Shipped <- TwoSections
  BuiltIn <- Fields
  Typed <- Lines
  MaxLines = 3
  MaxEdits = 1
  MaxCuts = 2
INVARIANTS KeptSomewhere SameSettings
PROPERTIES Upgraded
CHECK_DEADLOCK FALSE
