SPECIFICATION Spec
CONSTANTS
  Item = {a, b}
  Zero = Zero
  NULL = NULL
  Thread = {t1, t2, t3}
  Length = 2
  ItemSize = 1
  Creators = {t1, t2, t3}
  Main = Nobody
  CreateFails = FALSE
  MaxMutexes = 2
  Nobody = Nobody
INVARIANT
  CountIsItems
