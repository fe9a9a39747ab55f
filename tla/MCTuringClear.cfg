CONSTANTS
  Keys = {k1, k2}
  IVLens = {0, 4, 6, 16, 20}
  BufSize = 3
  MaxCipherLen = 4
  MaxGen = 4
  NoKey = NoKey
  Zero = Zero
SPECIFICATION Spec

PROPERTY ClearedOutputKeyFree
