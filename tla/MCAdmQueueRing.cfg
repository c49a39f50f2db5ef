SPECIFICATION Spec
CONSTANTS
  Item = {a, b}
  Zero = Zero
  NULL = NULL
  Length = 4
  ItemSize = 1
  Requests <- BothEnds
  Buffers = {TRUE, FALSE}
INVARIANTS
  TypeOK
  WriteToFollowsContents
  CountedSlotsHoldItems
PROPERTY
  FifoSpec
