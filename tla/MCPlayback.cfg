SPECIFICATION MCSpec
CONSTANTS
  Outs = {o1, o2}
  ItemIds = {i1}
  Templates = {t1, t2}
  NoItem = NoItem
  Projects <- MCProjects
  MaxPlays = 2
INVARIANTS
  SchedulerInv
PROPERTIES
  EditKeepsPlay
  SwitchOffHides
  HeldDoesNotReplay
  PlayLeaves
  OnAirSpec
