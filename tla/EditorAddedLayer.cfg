SPECIFICATION Spec
CONSTANTS
  Existing = {t1}
  Fresh = {n1}
  Code = {}
  Edits = {e1}
  None = None
  Absent = Absent
INVARIANT AddedLayerStays
CHECK_DEADLOCK FALSE
