CONSTANTS
  OptionSets <- MCOptionSets
  SymAlgs = {"AES"}
  TypeNames = {"byte", "u32bit"}
  MaxErrors = 1
  None = None
  NaN = NaN
SPECIFICATION Spec
CHECK_DEADLOCK FALSE
INVARIANT TypeOK
INVARIANT ValidationVerdict
