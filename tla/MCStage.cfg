CONSTANTS
  Keys = {item, active}
  Templates = {t1, t2}
  Forms <- MCForms
  Data = {d1, d2}
  None = None
  MaxEvents = 3
SPECIFICATION Spec
INVARIANTS QuietStageIsAsked InlineIsCurrent OneEntrancePerShow
PROPERTIES StageSettles
CHECK_DEADLOCK FALSE
