CONSTANTS
  ByteBits = 4
  SBOX <- MCSBOX
  Q_BOX <- MCQ_BOX
  MULT_TAB <- MCMULT_TAB
  Keys <- MCKeys
  IVs <- MCIVs
SPECIFICATION Spec
INVARIANT SboxByteIsPermutation
INVARIANT RegisterLayout
