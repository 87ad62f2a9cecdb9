SPECIFICATION FairSpec
CONSTANTS
  Table <- Together
  num <- MCnum
  phase <- MCphase
  sequence <- MCsequence
  Conditional <- MCConditional
  referenced_by <- MCreferenced_by
  when <- MCwhen
  server <- MCserver
  Essential <- MCEssential
  Phases <- MCPhases
  Syncs = {1}
  NoActs = {FALSE}
  Replies = {1, 2}
  Faults = {"connect", "handshake", "lost"}
  MaxCalls = 1
INVARIANT LockLeak
PROPERTY PhaseReturns
CHECK_DEADLOCK FALSE
