SPECIFICATION Spec
CONSTANTS
  MAX_NODES = 4
  EXTEND_NODES = 2
  PAGE = 2
  Names = {1, 2}
  Sort = TRUE
  Sizes = {}
  MayInterrupt = FALSE
  Defaults = {0}
  AddUsages = {"structure"}
  Outcomes = {"create", "move"}
  MaxOff = 2
  MaxExternal = 1
INVARIANTS StateKnown ExternalsLive
