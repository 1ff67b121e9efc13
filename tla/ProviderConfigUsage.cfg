SPECIFICATION MCFairSpec
CONSTANTS
  Resources = {r1, r2}
  ConfigNames = {n1}
  UnknownKind = unknownkind
  Nothing = Nothing
  MaxUpsets = 2
  MaxLag = 2
INVARIANTS Protected
PROPERTIES Secured Released
CHECK_DEADLOCK FALSE
