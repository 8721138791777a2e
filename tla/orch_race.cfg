SPECIFICATION Spec
CONSTANTS
  r1 = r1
  r2 = r2
  r3 = r3
  r4 = r4
  Issues <- OneIssue
  Runs <- ThreeRuns
  Limits <- LimitTwo
  Shown <- Conditions
  FixPr = TRUE
  ExitOnFailure = TRUE
  WithUpdates = FALSE
  MaxReopens = 1
  MaxCrashes = 1
SYMMETRY RunSymmetry
INVARIANTS RetryHoldsClaim HandleIsOfRunningRun ClaimedIffHandled NoWorkerEscapes
PROPERTIES RunIsNotReplaced
CHECK_DEADLOCK FALSE
