SPECIFICATION Spec
CONSTANTS
  Table <- Chain
  num <- MCnum
  phase <- MCphase
  sequence <- MCsequence
  Conditional <- MCConditional
  referenced_by <- MCreferenced_by
  when <- MCwhen
  server <- MCserver
  Essential <- MCEssential
  Phases <- MCPhases
  Syncs = {1, 10}
  NoActs = {FALSE}
  Replies = {1, 2}
  Faults = {"connect", "lost"}
  MaxCalls = 1
INVARIANTS TypeOK GroupBarrier PhaseReport
PROPERTY EssentialReported
CHECK_DEADLOCK FALSE
