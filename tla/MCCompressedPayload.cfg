SPECIFICATION FairSpec
CONSTANTS
  High = 31
  Identifier <- MCIdentifier
  NoneData = 3
  MaxNone = 3
  MaxDigits = 3
  Words = {2}
  BlockWords = 4
  BufferSizes = {3}
  MinRepeat = 2
  MaxSearch = 3
  MaxSame = 6
  MaxSize = 7
  Inputs <- AllInputs
INVARIANTS
  TokensExpandToInput
PROPERTIES
  RoundTripEnds
