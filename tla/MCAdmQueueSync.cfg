SPECIFICATION FairSpec
CONSTANTS
  Item = {a, b}
  Zero = Zero
  NULL = NULL
  Thread = {t1, t2, t3}
  Length = 2
  ItemSize = 1
  Creators = {t1, t2, t3}
  Main = t1
  CreateFails = TRUE
  MaxMutexes = 2
  Nobody = Nobody
INVARIANTS
  TypeOK
  MutualExclusion
  InStorage
  CountIsItems
PROPERTIES
  FifoSpec
  MutexReleased
