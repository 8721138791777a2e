SPECIFICATION FairSpec
CONSTANTS
  r1 = r1
  r2 = r2
  r3 = r3
  r4 = r4
  Issues <- OneIssue
  Runs <- ThreeRuns
  Limits <- LimitOneOrNone
  Shown <- Conditions
  FixPr = TRUE
  ExitOnFailure = FALSE
  WithUpdates = TRUE
  MaxReopens = 0
  MaxCrashes = 0
INVARIANTS TypeOK OneWorkerPerIssue
PROPERTIES RetryIsResolved EligibleIsTaken SlotIsRecovered ClosedIsStopped
CHECK_DEADLOCK FALSE
