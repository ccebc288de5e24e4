SPECIFICATION MCFairSpec
CONSTANTS
  Outs = {o1, o2}
  ItemIds = {i1}
  Templates = {t1, t2}
  NoItem = NoItem
  NoTemplate = NoTemplate
  AllOuts = AllOuts
  Projects <- MCProjects
  PlacedOuts = {o1}
  MaxPlays = 1
  MaxShows = 2
INVARIANTS
  ProgramInv
PROPERTIES
  PlayIsShown
  ScopedHideSparesOthers
  TimedShowLeaves
