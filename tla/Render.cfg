SPECIFICATION Spec
CONSTANTS
  Jobs = {j1, j2}
  DxvJobs = {j1}
  Pool = 2
  MaxFrames = 5
  Room = 1
  MaxCrashes = 1
  None = None
INVARIANTS DoneIsWhole NothingIsLeft
PROPERTY JobEnds
CHECK_DEADLOCK FALSE
