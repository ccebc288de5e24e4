SPECIFICATION Spec
CONSTANTS
  Jobs = {j1}
  DxvJobs = {j1}
  Pool = 2
  MaxFrames = 3
  Room = 1
  MaxCrashes = 0
  None = None
PROPERTY DeletedEnds
CHECK_DEADLOCK FALSE
