SPECIFICATION Spec
CONSTANTS
  Owner = owner
  Guest = {g1}
  Handler <- OneHandler
  First <- Some
  CreateFails = FALSE
  AwaitBoot = FALSE
  MaxCalls = 2
  NULL = NULL
INVARIANT
  DetachSucceeds
CHECK_DEADLOCK FALSE
