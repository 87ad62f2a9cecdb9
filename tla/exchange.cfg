SPECIFICATION FairSpec
CONSTANTS
  N = 3
  nargs <- MCnargs
  Serial = {1}
  Bad <- MCBad
  Asks = {1}
  Short = {0, 2}
  MAX_ARGS = 5
  FirstId = 254
  Faults = {"send", "serialize", "intr", "stall", "lost"}
  MaxFaults = 2
  MaxEvents = 1
  None = None
INVARIANTS TypeOK RequestIntact
PROPERTIES OwnAnswer CallsReturn
CHECK_DEADLOCK FALSE
