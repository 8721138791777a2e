SPECIFICATION Spec
CONSTANTS
  Absent = none
  Empty = ""
  Blank = " "
  CurrentDir = "cwd"
  Environment <- SetVariables
  Versions <- SomeVersions
  FrontMatterOf <- FrontMatters
  none = none
  None = none
  MaxWrites = 4
INVARIANTS TypeOK LastGoodIsKept
PROPERTIES NeverBackwards FileComesIntoUse
CHECK_DEADLOCK FALSE
