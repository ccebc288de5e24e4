CONSTANTS
  match = match
  segment = segment
  Ids <- MCIds
  Seeds = {segment}
  Settings <- MCSettings
  Values <- MCValues
  Jumps <- MCJumps
  Unset = Unset
  TimerMax = 3
  Look = 2
  Margin = 1
  Horizon = 4
  MaxActs = 4
SPECIFICATION TimersSpec

PROPERTIES KeepsCounting EndedTimersStop
CHECK_DEADLOCK FALSE
