CONSTANTS
  Passphrases <- MCEmptyPassphrases
  Salts <- MCEmptySalts
  Iterations = {0, 3}
  KeyLens = {1}
SPECIFICATION Spec
CHECK_DEADLOCK FALSE
PROPERTY Terminates
