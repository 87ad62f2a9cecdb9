SPECIFICATION Spec
CONSTANTS
  MAX_NODES = 4
  EXTEND_NODES = 2
  PAGE = 2
  Names = {1, 2}
  Sort = TRUE
  Sizes = {2}
  MayInterrupt = FALSE
  Defaults = {0}
  AddUsages = {"any", "structure"}
  Outcomes = {"tree", "nci", "done"}
  MaxOff = 0
  MaxExternal = 0
INVARIANTS TypeOK Linked Accounted Successive
PROPERTIES TreeSpec
