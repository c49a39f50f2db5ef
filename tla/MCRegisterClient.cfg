SPECIFICATION FairSpec
CONSTANTS
  MaxPieces = 3
  Success = Success
  OtherStatus = OtherStatus
  NULL = NULL
INVARIANTS TypeOK NoLeak FreedOnce WholeAnswer InfoComplete
PROPERTY Ends
CHECK_DEADLOCK FALSE
