CONSTANTS
  Segment <- MCSegment
  Fold <- MCFold
  Requests <- MCRequests
  MaxCalls = 3
SPECIFICATION FairSpec
INVARIANTS TypeOK MutualExclusion MapIsTight
PROPERTIES ImplementsPathLock EveryCallStarts
CHECK_DEADLOCK FALSE
