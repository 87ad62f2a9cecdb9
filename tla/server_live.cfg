SPECIFICATION FairSpec
CONSTANTS
  Script <- Monitored
  Callers = {c1, c2}
  Workers = {w1, w2}
  MaxAborts = 0
  Requests = {"remove"}
  Broken = {"m1"}
  Clients <- MCClients
  MaxJobs <- MCMaxJobs
  op <- MCop
  owner <- MCowner
  Notify <- MCNotify
  c1 = c1
  c2 = c2
  w1 = w1
  w2 = w2
  None = None
INVARIANTS Answered UsesLive
PROPERTY EveryJobEnds
CHECK_DEADLOCK FALSE
