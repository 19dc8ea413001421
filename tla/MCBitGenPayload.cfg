SPECIFICATION MCFairSpec
CONSTANTS
  High = 31
  Identifier <- MCIdentifier
  Identifiers <- RightIdentifier
  NoneData = 4
  MaxDigits = 3
  Words = {1, 2, 3}
  BlockWords = 3
  BufferSizes = {3, 5}
  TokensOf <- TokensAndRefused
  MaxTokens = 2
  Off <- OffByOne
INVARIANTS
  DeliversPayloadInOrder
  VerdictIsRight
PROPERTIES
  PayloadEnds
