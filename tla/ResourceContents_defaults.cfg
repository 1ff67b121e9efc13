CONSTANTS
  Guids = {"g1"}
  Numbers = {1}
  Texts = {"a"}
  None = None
  Kinds = {"branchpolicy"}
  Names = {"v1"}
  MaxGroups = 1
  MaxChanges = 1
SPECIFICATION ContentsSpec
INVARIANT ActiveAsAsked
CHECK_DEADLOCK FALSE
