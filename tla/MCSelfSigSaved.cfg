CONSTANTS
  ArgCounts = {6, 7}
  CAFlags = {"CA", "user", "ca"}
  Passes = {pw1, pw2}
  NewKey = NewKey
  OldKey = OldKey
  Absent = Absent
  Truncated = Truncated
  None = None
SPECIFICATION Spec
CHECK_DEADLOCK FALSE
INVARIANT SuccessMeansSaved
