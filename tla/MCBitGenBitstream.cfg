SPECIFICATION MCFairSpec
CONSTANTS
  BlockSize = 8
  HeaderRoom = 6
  IvSize = 2
  CounterLimit = 2
  HashSizes = {2, 3}
  KeySizes = {4, 8}
  Identifiers <- MCIdentifiers
  BopLists <- MCLists
  OptionSets <- MCOptionSets
  FirstLists <- MCFirst
  SecondLists <- ShortBops
  FirstOptions <- MCOptions
  SecondOptions <- SecondMCOptions
  GivenKeys <- MCKeys
  Damaging = TRUE
INVARIANTS
  HashesFit
  ActionsFit
  EveryBlockIsVouchedFor
  ExecutesWhatWasPacked
  BitstreamIsReadBack
  DamageIsNoticed
PROPERTIES
  ParsingEnds
