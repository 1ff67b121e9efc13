SPECIFICATION FairSpec
CONSTANTS
  None = None
  MetaName = mn
  Empty = empty
  EndpointNames = {n1, n2}
  Values = {v1}
  MaxEdits = 1
  MaxFaults = 1
INVARIANTS TypeOK DigestOfSent
PROPERTIES KeepsLifecycle DeletionCompletes Converges
CHECK_DEADLOCK FALSE
