CONSTANTS
  a = a
  b = b
  p1 = p1
  p2 = p2
  Bases = {a, b}
  MaxArgs = 3
  ArgFlags = {"-9"}
  FS0 <- MCFS0
  Unwritable <- MCUnwritable
  Plain = {p1, p2}
  Empty = Empty
  Absent = Absent
SPECIFICATION Spec
CHECK_DEADLOCK FALSE
INVARIANT EveryFileHandled
