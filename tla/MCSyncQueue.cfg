SPECIFICATION Spec
CONSTANTS
  Paths <- MCPaths
  Trees <- MCTrees
  MaxOps = 3
  MaxFaults = 1
  MaxOwed = 1
  Lossy = {"mkdir", "rename", "delete"}
  Reused = {"delete"}
  InGap = FALSE
INVARIANTS TypeOK StrangersNeverMeet SomethingIsDue
PROPERTIES SyncLeavesDiskAlone RemoteKeepsCopies Converges
CHECK_DEADLOCK FALSE
