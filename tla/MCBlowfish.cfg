CONSTANTS
  ByteBits = 2
  PBOX <- MCPBOX
  SBOX <- MCSBOX
  Keys <- MCKeys
  Blocks <- MCBlocks
  NoKey = NoKey
SPECIFICATION Spec
INVARIANT KeyScheduleMatchesReference
INVARIANT RoundTrip
