SPECIFICATION FairSpec
CONSTANTS
  Owner = owner
  Guest = {g1, g2}
  Handler <- MaybeHandler
  First <- Some
  CreateFails = TRUE
  AwaitBoot = TRUE
  MaxCalls = 2
  NULL = NULL
INVARIANTS
  TypeOK
  NoUseAfterFree
  StopMeansDown
  OneLateCall
  OnlyUnlaunchedFails
PROPERTIES
  StopReturns
  DestroyEnds
CHECK_DEADLOCK FALSE
