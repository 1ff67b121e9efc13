SPECIFICATION AppliedSpec
CONSTANTS
  None = None
  MetaName = mn
  PoolNames = {n1}
  Flags = {f1}
  Attempts = 2
  MaxEdits = 0
  MaxFaults = 0
PROPERTIES UncreatedIsMissing
CHECK_DEADLOCK FALSE
