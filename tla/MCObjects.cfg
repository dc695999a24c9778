SPECIFICATION Spec
CONSTANTS
  kGroup = 2
  H1 <- MCH1
  H2 <- MCH2
  kMaxLevel = 2
  NaN = NaN
  KeysOf <- MCKeysOf
  Values = {1, 2}
  Reservations = {9}
  m_ = 1
  ef_construction_ = 3
  Vectors <- MCVectors
  MaxLevel = 1
  MaxNodes = 3
INVARIANTS
  TableIsSound ListMatchesDict RanksAreExact IndexIsSound SearchIsExact
PROPERTY
  ImplementsDictionary
