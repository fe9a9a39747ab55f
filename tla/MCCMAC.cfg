CONSTANTS
  OUTPUT_LENGTH = 2
  Polynomial = 135
  Keys = {1, 3}
  Cleared = 0
  Encrypt <- MCEncrypt
  MsgBytes = {0, 129}
  MaxChunk = 3
  MaxMsgLen = 5
  NoMac = NoMac
SPECIFICATION Spec
INVARIANT TypeOK
INVARIANT LastBlockBuffered
PROPERTY ImplementsMACSpec
