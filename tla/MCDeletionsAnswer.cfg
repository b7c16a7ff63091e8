SPECIFICATION Spec
CONSTANTS
  Devices = {d1, d2}
  Files = {f1, f2, f3}
  MassMin = 1
  Sample = 1
  MaxActs = 1
  MaxFaults = 2
  Faults = {"loss"}
PROPERTIES AnswerCoversQuestion
CHECK_DEADLOCK FALSE
