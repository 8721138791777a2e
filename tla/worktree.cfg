SPECIFICATION FairSpec
CONSTANTS
  r1 = r1
  r2 = r2
  r3 = r3
  Runs <- TwoRuns
  TasksAtOnce = 2
INVARIANTS TypeOK UnreadyHasCause WorkersDirectoryStays StuckWasTorn
PROPERTIES OncePerCreation SetupEnds IssueIsServed
CHECK_DEADLOCK FALSE
