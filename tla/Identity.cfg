SPECIFICATION FairSpec
CONSTANTS
  None = None
  MetaName = mn
  Keys = {k1, k2}
  Values = {v1}
  Projects = {p1}
  GroupTypes = {t1, t2}
  MaxEdits = 1
  MaxFaults = 1
PROPERTIES KeepsLifecycle DeletionCompletes Converges
CHECK_DEADLOCK FALSE
