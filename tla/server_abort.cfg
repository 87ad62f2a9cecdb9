SPECIFICATION Spec
CONSTANTS
  Script <- Dispatched
  Callers = {c1}
  Workers = {w1, w2, w3}
  MaxAborts = 2
  Requests = {"abort", "flush", "remove", "logging"}
  Broken = {"d2"}
  Clients <- MCClients
  MaxJobs <- MCMaxJobs
  op <- MCop
  owner <- MCowner
  Notify <- MCNotify
  c1 = c1
  w1 = w1
  w2 = w2
  w3 = w3
  None = None
INVARIANTS TypeOK OneAfterOther Answered UsesLive ExitUnlocked
CHECK_DEADLOCK FALSE
