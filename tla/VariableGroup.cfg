SPECIFICATION FairSpec
CONSTANTS
  None = None
  MetaName = mn
  Projects = {p1, p2}
  GroupNames = {n1, n2}
  Values = {v1, v2}
  Forms = {"plain", "secret", "copied", "invalid"}
  MaxEdits = 1
  MaxFaults = 1
INVARIANTS TypeOK OwnGroup DigestOfSent
PROPERTIES KeepsLifecycle DeletionCompletes Converges
CHECK_DEADLOCK FALSE
