SPECIFICATION PageSpec
CONSTANTS
  Pages = {p1, p2}
  Fields = {f1, f2}
  Contents = {c1}
  Stamped = TRUE
  MaxEdits = 3
  MaxDrops = 1
  NoWrite = NoWrite
INVARIANT ReadsOwnWrites
PROPERTIES SeenEditsStay PagesReadServer
CHECK_DEADLOCK FALSE
