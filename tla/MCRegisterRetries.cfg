SPECIFICATION Spec
CONSTANTS
  MaxPieces = 3
  Success = Success
  OtherStatus = OtherStatus
  NULL = NULL
INVARIANT FailsAfterRetries
CHECK_DEADLOCK FALSE
