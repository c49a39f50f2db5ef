SPECIFICATION FairSpec
CONSTANTS
  Main = main
  Callback = {c1, c2}
  Limit = 1
  MaxStarts = 3
  MaxCount = 6
INVARIANTS
  TypeOK
  OrphansAreCrossed
  FaultsAreCrossed
PROPERTY
  DisarmedInTheEnd
CHECK_DEADLOCK FALSE
