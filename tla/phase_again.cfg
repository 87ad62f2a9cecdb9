SPECIFICATION Spec
CONSTANTS
  Table <- Across
  num <- MCnum
  phase <- MCphase
  sequence <- MCsequence
  Conditional <- MCConditional
  referenced_by <- MCreferenced_by
  when <- MCwhen
  server <- MCserver
  Essential <- MCEssential
  Phases <- MCPhases
  Syncs = {1, 10}
  NoActs = {TRUE, FALSE}
  Replies = {1}
  Faults = {"connect"}
  MaxCalls = 2
INVARIANTS GroupBarrier PhaseReport DependencyOrder
PROPERTY EssentialReported
CHECK_DEADLOCK FALSE
