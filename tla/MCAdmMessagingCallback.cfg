SPECIFICATION Spec
CONSTANTS
  Task = {ta}
  Sender = {s1}
  Block = {b1}
  MsgId = {A2B}
  CallbackId = {A2B}
  Length = 2
  MaxSends = 1
  Zero = Zero
  NULL = NULL
INVARIANT CallbackRuns
CHECK_DEADLOCK FALSE
