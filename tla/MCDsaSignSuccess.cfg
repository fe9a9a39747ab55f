CONSTANTS
  ArgCounts = {3, 4, 5}
  Passes = {pw1, pw2}
  Messages = {m1, m2}
  Garbage = Garbage
  Absent = Absent
  Old = Old
  Truncated = Truncated
  None = None
SPECIFICATION Spec
CHECK_DEADLOCK FALSE
INVARIANT SuccessMeansSigned
