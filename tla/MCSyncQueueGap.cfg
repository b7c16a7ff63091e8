SPECIFICATION Spec
CONSTANTS
  Paths <- MCPaths
  Trees <- MCTrees
  MaxOps = 2
  MaxFaults = 0
  MaxOwed = 1
  Lossy = {"mkdir", "rename", "delete"}
  Reused = {"delete"}
  InGap = TRUE
PROPERTIES Converges
CHECK_DEADLOCK FALSE
