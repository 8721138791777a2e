SPECIFICATION Spec
CONSTANTS
  r1 = r1
  r2 = r2
  r3 = r3
  r4 = r4
  Issues <- TwoIssues
  Runs <- TwoRuns
  Limits <- LimitOneOrNone
  Shown <- WithPr
  FixPr = TRUE
  ExitOnFailure = TRUE
  WithUpdates = FALSE
  MaxReopens = 0
  MaxCrashes = 0
SYMMETRY RunSymmetry
INVARIANTS WorkersWithinLimit
PROPERTIES DispatchWithinLimit ImplementsLifecycle
CHECK_DEADLOCK FALSE
