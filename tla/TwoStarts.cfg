SPECIFICATION LauncherSpec
CONSTANTS
  Starts = {s1, s2}
  Stops = {p1}
  Toggles = {t1}
  Quit = quit
  Senders = {x1, x2, x3, x4}
  NoProcess = NoProcess
  Direct = FALSE
  MaxChecking = 2
  MaxFailures = 1
INVARIANT LauncherInv
CHECK_DEADLOCK FALSE
