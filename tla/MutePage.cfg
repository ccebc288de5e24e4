SPECIFICATION Spec
CONSTANTS
  Clients = {p1, p2}
  NoClient = NoClient
  Batches = FALSE
  MaxOps = 3
  MaxDrops = 1
PROPERTY QueuedIsFlushed
CHECK_DEADLOCK FALSE
