SPECIFICATION Spec
CONSTANTS
  d1 = d1
  d2 = d2
  Device = {d1, d2}
  Design <- DesignsWithoutEio
  Cores <- Boards
  EioFound <- AllEio
  Inputs <- Patterns
  SetRequest <- SetLines
  GetRequest <- GetLines
  WordBits = 2
  MaxWords = 2
  MaxLoop = 2
INVARIANTS
  AssembledDesignLoads
CHECK_DEADLOCK FALSE
