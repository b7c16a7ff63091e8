CONSTANTS
  Absent = Absent
  phone = phone
  desktop = desktop
  e1 = e1
  e2 = e2
  Device <- MCOneDevice
  Edit <- MCTwoEdits
  MaxStamp = 6
  MaxDeletes = 1
  MaxFaults = 2
  MaxRefusals = 5
  FaultKinds = {"record"}
  AnswersEtag = {TRUE}
SPECIFICATION Spec
INVARIANTS TypeOK NoConflictWithOneself
PROPERTIES OnlyTheUserChangesFiles
