SPECIFICATION Spec
CONSTANTS
  Plan <- Faulty
  Senders = {"main"}
  Servers = {"s1", "s2"}
  Messages <- Ids
  to <- MCto
  kind <- MCkind
  next <- MCnext
  host <- OwnHost
  Fragile = {"s1"}
  Glitches = TRUE
  Events = {None}
  MaxEvents = 0
  Disconnects = {"s1"}
  MaxDisconnects = 2
  Cancels = FALSE
  None = None
INVARIANTS TypeOK TrueStatus Settled ListsLive
PROPERTY CallbackSpec
CHECK_DEADLOCK FALSE
