SPECIFICATION FairSpec
CONSTANTS
  Plan <- Waiting
  Senders = {"main"}
  Servers = {"s1", "s2"}
  Messages <- Ids
  to <- MCto
  kind <- MCkind
  next <- MCnext
  host <- OwnHost
  Fragile = {}
  Glitches = FALSE
  Events = {None}
  MaxEvents = 1
  Disconnects = {"s1"}
  MaxDisconnects = 1
  Cancels = TRUE
  None = None
INVARIANTS UsesLive TrueStatus
PROPERTIES CallsReturn CallbackFair
CHECK_DEADLOCK FALSE
