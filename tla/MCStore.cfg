SPECIFICATION FairSpec
CONSTANTS
  Keys = {"x", "y"}
  Layout <- MCLayout
  Budget = 1
  IntMax = 9
  Spelling <- MCSpelling
  kRegisters = 9
  Register <- MCRegister
  Rank <- MCRank
  Setups <- MCSetups
INVARIANTS
  DeadlinesHaveKeys NoEmptyObjects
PROPERTIES
  ExpiryIsTransparent OnlyNamedKeysChange UnmarkedIsUnchanged ErrorsChangeNothing KeysMatch ExpiredIsRemoved
