SPECIFICATION Spec
CONSTANTS
  Rows = {0, 1}
  Programs <- MCPrograms
  MaxChildren = 2
  MaxLength = 1
INVARIANTS
  WrittenIsReached
  AcceptedMeansEqual
  FilesStayReadable
CHECK_DEADLOCK FALSE
