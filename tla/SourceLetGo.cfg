CONSTANTS
  Books = {tracked, loaded}
  Tracked = {tracked}
  sheet1 = sheet1
  sheet2 = sheet2
  l1 = l1
  l2 = l2
  Vars <- MCVars
  Lists <- MCLists
  Workbooks <- MCWorkbooks
  None = None
  MaxEvents = 3
SPECIFICATION Spec
PROPERTIES OnlyDeletedListsLetGo
CHECK_DEADLOCK FALSE
