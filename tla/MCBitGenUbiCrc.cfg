SPECIFICATION MCSpec
CONSTANTS
  BlockSize = 8
  HeaderRoom = 6
  IvSize = 2
  CounterLimit = 2
  HashSizes = {2}
  Identifiers <- MCIdentifiers
  OldIdentifiers = {"MANF", "FCB", "ICB", "PCB"}
  Files <- MCFiles
  MaxFiles = 2
  BlockCells = 3
  CountLimit = 5
INVARIANTS
  WrongCrcIsRefused
