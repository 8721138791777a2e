SPECIFICATION Spec
CONSTANTS
  r1 = r1
  r2 = r2
  r3 = r3
  r4 = r4
  Issues <- OneIssue
  Runs <- ThreeRuns
  Limits <- LimitOne
  Shown <- OpenOrClosed
  FixPr = FALSE
  ExitOnFailure = FALSE
  WithUpdates = FALSE
  MaxReopens = 1
  MaxCrashes = 0
SYMMETRY RunSymmetry
INVARIANTS OneWorkerPerIssue
CHECK_DEADLOCK FALSE
