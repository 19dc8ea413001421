SPECIFICATION Spec
CONSTANTS
  Byte = 2
  Word = 4
  UnitSize = 2
  UserBits = 4
  ParityBits = 2
  Families = {"Gemini", "Virgo"}
  Projects <- MCProjects
  Rebuilds <- MCRebuilds
  MaxRuns = 2
INVARIANTS
  FcbBitsArrive
  IcbBitsArrive
  RamBitsArrive
  GeneratorTakesIt
