SPECIFICATION Spec
CONSTANTS
  Existing = {t1, t2}
  Fresh = {n1}
  Code = {t2}
  Edits = {e1}
  None = None
  Absent = Absent
INVARIANTS EditsLandWhereMade DraftIsEdited
CHECK_DEADLOCK FALSE
