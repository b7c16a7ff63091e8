CONSTANTS
  Absent = Absent
  phone = phone
  desktop = desktop
  e1 = e1
  e2 = e2
  Device <- MCTwoDevices
  Edit <- MCOneEdit
  MaxStamp = 6
  MaxDeletes = 0
  MaxFaults = 1
  MaxRefusals = 5
  FaultKinds = {}
  AnswersEtag = {TRUE, FALSE}
SPECIFICATION FairSpec
PROPERTIES Convergence
