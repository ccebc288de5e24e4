SPECIFICATION Spec
CONSTANTS
  MaxChanges = 5
INVARIANTS
  QuietIsSaved
CHECK_DEADLOCK FALSE
