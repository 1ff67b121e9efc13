SPECIFICATION FairSpec
CONSTANTS
  None = None
  MetaName = mn
  Names = {mn, pn}
  Settings = {s1}
  MaxEdits = 1
  MaxFaults = 1
INVARIANTS TypeOK NoLeak OneProject
PROPERTIES KeepsLifecycle DeletionCompletes Converges
CHECK_DEADLOCK FALSE
