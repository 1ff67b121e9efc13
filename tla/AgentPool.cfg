SPECIFICATION FairSpec
CONSTANTS
  None = None
  MetaName = mn
  PoolNames = {n1, n2}
  Flags = {f1, f2}
  Attempts = 2
  MaxEdits = 1
  MaxFaults = 2
INVARIANTS TypeOK OwnPool
PROPERTIES KeepsLifecycle OnlyWhatIsGiven DeletionCompletes Converges
CHECK_DEADLOCK FALSE
