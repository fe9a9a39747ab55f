CONSTANTS
  ByteBits = 2
  Pw <- MCPw
  Qw <- MCQw
  Keys <- MCKeys
  Blocks <- MCBlocks
  NoKey = NoKey
SPECIFICATION Spec
INVARIANT KeyScheduleMatchesReference
INVARIANT RoundTrip
