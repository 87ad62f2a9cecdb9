SPECIFICATION FairSpec
CONSTANTS
  Table <- Conjunction
  num <- MCnum
  phase <- MCphase
  sequence <- MCsequence
  Conditional <- MCConditional
  referenced_by <- MCreferenced_by
  when <- MCwhen
  server <- MCserver
  Essential <- MCEssential
  Phases <- MCPhases
  Syncs = {1}
  NoActs = {FALSE}
  Replies = {1, 2}
  Faults = {}
  MaxCalls = 1
PROPERTY DispatchedWhenTrue
CHECK_DEADLOCK FALSE
