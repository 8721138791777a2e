SPECIFICATION Spec
CONSTANTS
  ChecksPerPage = 1
  CommentsPerPage = 1
  Handles <- WithHandle
  MaxChecks = 1
  MaxComments = 1
  MaxClock = 3
INVARIANTS PrMentionsCount
CHECK_DEADLOCK FALSE
