SPECIFICATION Spec
CONSTANTS
  Clients = {p1, p2}
  NoClient = NoClient
  Batches = FALSE
  MaxOps = 3
  MaxDrops = 1
INVARIANTS
  TypeOK
  NoRevisionGap
  PageIsPrefix
  DrainedIsInSync
PROPERTIES
  Converges
CHECK_DEADLOCK FALSE
