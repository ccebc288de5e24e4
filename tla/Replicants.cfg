SPECIFICATION ReplicantsSpec
CONSTANTS
  Clients = {p1, p2}
  NoClient = NoClient
  Batches = FALSE
  MaxOps = 2
  MaxDrops = 1
INVARIANTS
  PagesAgree
  QuietRowIsValue
PROPERTIES
  EverywhereInTheEnd
CHECK_DEADLOCK FALSE
