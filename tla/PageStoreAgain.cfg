SPECIFICATION PageSpec
CONSTANTS
  Pages = {p1}
  Fields = {f1, f2}
  Contents = {c1, c2}
  Stamped = FALSE
  MaxEdits = 3
  MaxDrops = 0
  NoWrite = NoWrite
INVARIANT ReadsOwnWrites
CHECK_DEADLOCK FALSE
