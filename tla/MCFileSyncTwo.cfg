CONSTANTS
  Absent = Absent
  phone = phone
  desktop = desktop
  e1 = e1
  e2 = e2
  Device <- MCTwoDevices
  Edit <- MCTwoEdits
  MaxStamp = 5
  MaxDeletes = 0
  MaxFaults = 0
  MaxRefusals = 2
  FaultKinds = {}
  AnswersEtag = {TRUE, FALSE}
SPECIFICATION Spec
INVARIANTS UndoHolds NoEditLost
PROPERTIES CleanFileFollows
SYMMETRY MCSymmetry
