SPECIFICATION Spec
CONSTANTS
  r1 = r1
  r2 = r2
  r3 = r3
  r4 = r4
  Issues <- OneIssue
  Runs <- TwoRuns
  Limits <- LimitOne
  Shown <- AlwaysEligible
  FixPr = FALSE
  ExitOnFailure = FALSE
  WithUpdates = FALSE
  MaxReopens = 0
  MaxCrashes = 0
SYMMETRY RunSymmetry
PROPERTIES StallQueuesRetry
CHECK_DEADLOCK FALSE
