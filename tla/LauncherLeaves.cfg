SPECIFICATION LauncherSpec
CONSTANTS
  Starts = {s1, s2}
  Stops = {p1}
  Toggles = {}
  Quit = quit
  Senders = {x1, x2, x3, x4}
  NoProcess = NoProcess
  Direct = TRUE
  MaxChecking = 2
  MaxFailures = 0
INVARIANT ChildIsStopped
CHECK_DEADLOCK FALSE
