CONSTANTS
  del = del
  wri = wri
  p = p
  Change <- MCChange
  Structural <- MCStructural
  Path <- MCPath
  Touches <- MCTouches
SPECIFICATION FairSpec
INVARIANTS RowsInOrder CallersAreToldTheTruth NoneStranded FlushSettlesAll PullOverlooksNothing
PROPERTIES EveryCallSettles
CHECK_DEADLOCK FALSE
