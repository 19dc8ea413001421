SPECIFICATION FairSpec
CONSTANTS
  d1 = d1
  d2 = d2
  Device = {d1, d2}
  Design <- Designs
  Cores <- Boards
  EioFound <- AllEio
  Inputs <- Patterns
  SetRequest <- SetLines
  GetRequest <- GetLines
  WordBits = 2
  MaxWords = 2
  MaxLoop = 2
INVARIANTS
  SessionIsSound
  SignalsTakeEachBitOnce
  SetIsDone
  GetReportsInputs
PROPERTIES
  OnlyNamedOutputsChange
  IoCommandEnds
CHECK_DEADLOCK FALSE
