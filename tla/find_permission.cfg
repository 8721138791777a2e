SPECIFICATION Spec
CONSTANTS
  Protocols <- AcpOnly
  PermissionIds <- LaterIds
  Room = 2
INVARIANTS NormalIsCompleted
CHECK_DEADLOCK FALSE
