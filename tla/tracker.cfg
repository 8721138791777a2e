SPECIFICATION Spec
CONSTANTS
  unset = unset
  Unset = unset
  Labels <- AllLabels
  LowerCase <- Cases
  Identifier <- AsText
  MaxU64 = 255
  Numbers <- SomeNumbers
  PullRequests <- SomePulls
  Labelings <- SomeLabelings
  Created <- Seconds
  LookUps <- SomeLookUps
  PerPage = 2
  ActiveStates <- Both
  TerminalStates <- Closed
  Filters <- SomeFilters
  ClaimLabel = "Claimed"
  PrOpenLabel = "pr-open"
  MaxChanges = 2
  ChecksPerPage = 1
  CommentsPerPage = 1
  Handles <- WithOrWithout
  MaxChecks = 2
  MaxComments = 2
  MaxClock = 3
INVARIANTS ListsTypeOK ReturnedWasWanted QuietListIsExact MissedOnlyByRemoval DoubledOnlyByInsertion FixPrTypeOK DispatchHasReason WaitHasNoReason
CHECK_DEADLOCK FALSE
