CONSTANTS
  Absent = Absent
  phone = phone
  desktop = desktop
  e1 = e1
  e2 = e2
  Device <- MCTwoDevices
  Edit <- MCOneEdit
  MaxStamp = 7
  MaxDeletes = 1
  MaxFaults = 1
  MaxRefusals = 2
  FaultKinds = {"late", "record"}
  AnswersEtag = {TRUE}
SPECIFICATION Spec
INVARIANTS NoEditLost
PROPERTIES RemoteKeepsEdits
SYMMETRY MCSymmetry
