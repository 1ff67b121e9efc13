SPECIFICATION FairSpec
CONSTANTS
  None = None
  MetaName = mn
  Projects = {p1, p2}
  Names = {mn, n2}
  Values = {v1}
  Origins = {o1}
  Unsupported = unsupported
  MaxEdits = 1
  MaxFaults = 1
INVARIANTS TypeOK
PROPERTIES KeepsLifecycle KeepsResource DeletionCompletes Converges
CHECK_DEADLOCK FALSE
