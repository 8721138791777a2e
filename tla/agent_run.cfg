SPECIFICATION FairSpec
CONSTANTS
  Protocols <- AllProtocols
  PermissionIds <- EarlyIds
  Room = 2
INVARIANTS TypeOK NormalIsCompleted PromptNeedsSession ResultMeansReaped
PROPERTIES CliReturns HangsOnlyUntimed
CHECK_DEADLOCK FALSE
