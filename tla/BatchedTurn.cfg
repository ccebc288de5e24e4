SPECIFICATION Spec
CONSTANTS
  Clients = {p1, p2}
  NoClient = NoClient
  Batches = TRUE
  MaxOps = 3
  MaxDrops = 1
INVARIANT DrainedIsInSync
CHECK_DEADLOCK FALSE
