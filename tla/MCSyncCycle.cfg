CONSTANTS
  NoCycle = NoCycle
  old = old
  new = new
  Cycle <- MCCycle
  MaxChanges = 1
  MaxFaults = 2
SPECIFICATION FairSpec
INVARIANTS TypeOK OneAtATime NeverAsleep CursorHidesNothing DrainAwaitsCycle
PROPERTIES ChangesArrive
CHECK_DEADLOCK FALSE
