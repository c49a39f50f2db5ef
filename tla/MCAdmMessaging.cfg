SPECIFICATION FairSpec
CONSTANTS
  Task = {ta}
  Sender = {s1, s2}
  Block = {b1, b2, b3}
  MsgId = {OWND}
  CallbackId = {}
  Length = 2
  MaxSends = 3
  Zero = Zero
  NULL = NULL
INVARIANTS
  TypeOK
  OneOwner
  Accounted
PROPERTIES
  InOrder
  EventuallyFreed
