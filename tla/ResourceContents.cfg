CONSTANTS
  Guids = {"g1", "g2"}
  Numbers = {1, 2}
  Texts = {"a", "b"}
  None = None
  Kinds = {"builddefinition", "branchpolicy", "variablegroup", "azurerm"}
  Names = {"v1", "v2"}
  MaxGroups = 2
  MaxChanges = 2
SPECIFICATION ContentsSpec
INVARIANT NoticesEdits
PROPERTIES SettlesOnce KeepsTheRest
CHECK_DEADLOCK FALSE
