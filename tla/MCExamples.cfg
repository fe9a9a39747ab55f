CONSTANTS
  DsaArgCounts = {3, 4, 5}
  SelfArgCounts = {6, 7}
  CAFlags = {"CA", "user", "ca"}
  Passes = {pw1, pw2}
  Messages = {m1, m2}
  Garbage = Garbage
  Old = Old
  NewKey = NewKey
  OldKey = OldKey
  Absent = Absent
  Truncated = Truncated
  None = None
  a = a
  b = b
  p1 = p1
  p2 = p2
  Empty = Empty
SPECIFICATION Spec
CHECK_DEADLOCK FALSE
INVARIANT TypeOK
INVARIANT OutputIsOwnInput
INVARIANT SignatureOfMessageAndKey
INVARIANT NewCertMatchesKeyFile
