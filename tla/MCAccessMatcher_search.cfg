SPECIFICATION FairSpec
CONSTANTS
  x = x
  y = y
  A = A
  B = B
  t = t
  untagged = untagged
  Tag = {t, untagged}
  Array = {A, B}
  Payload = {x, y}
  PayloadEq <- Identity
  Accesses <- MCAccesses
  PlaceholderSets <- MCPlaceholderSets
INVARIANTS
  TypeOK
  SearchIsExact
  LookupNeverDies
PROPERTIES
  CutsLoseNothing
  ReturnsAllSuitable
  Returns
CHECK_DEADLOCK FALSE
