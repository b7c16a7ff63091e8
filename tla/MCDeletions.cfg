SPECIFICATION Spec
CONSTANTS
  Devices = {d1, d2}
  Files = {f1, f2}
  MassMin = 1
  Sample = 1
  MaxActs = 2
  MaxFaults = 1
  Faults = {"omit", "loss", "emptied", "journal", "push", "crash", "age"}
PROPERTIES JournalsAgree IntentFirst NothingAliveGoes EmptiedVaultAsks DeletionsSpread
CHECK_DEADLOCK FALSE
