SPECIFICATION Spec
CONSTANTS
  MAX_NODES = 4
  EXTEND_NODES = 2
  PAGE = 2
  Names = {1, 2}
  Sort = TRUE
  Sizes = {}
  MayInterrupt = FALSE
  Defaults = {1}
  AddUsages = {"structure"}
  Outcomes = {"done"}
  MaxOff = 0
  MaxExternal = 0
PROPERTY NotIntoSpace
