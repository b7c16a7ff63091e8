SPECIFICATION Spec
CONSTANTS
  e1 = e1
  e2 = e2
  v1 = v1
  v2 = v2
  Missing = Missing
  Editors = {e1, e2}
  Views = {v1}
  MaxEdits = 3
  MaxFaults = 1
  Names = TRUE
INVARIANTS AnswerHolds
PROPERTIES NothingLost DraftsAreKnown
SYMMETRY MCSymmetry
CHECK_DEADLOCK FALSE
