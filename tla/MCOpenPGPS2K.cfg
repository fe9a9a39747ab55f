CONSTANTS
  Passphrases <- MCPassphrases
  Salts <- MCSalts
  Iterations = {0, 2, 3, 5}
  KeyLens = {0, 1, 20, 50}
SPECIFICATION Spec
CHECK_DEADLOCK FALSE
INVARIANT TypeOK
INVARIANT DerivedKeyMatchesReference

