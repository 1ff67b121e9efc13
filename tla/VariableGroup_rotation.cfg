SPECIFICATION CreatedSpec
CONSTANTS
  None = None
  MetaName = mn
  Projects = {p1, p2}
  GroupNames = {n1}
  Values = {v1, v2}
  Forms = {"secret"}
  MaxEdits = 2
  MaxFaults = 0
PROPERTIES RotationDetected
CHECK_DEADLOCK FALSE
