SPECIFICATION FairSpec
CONSTANTS
  Deps <- MCDeps
  Originals <- MCOriginals
INVARIANTS
  TypeOK
  OrderIsKept
  PermutableIsSound
  NothingLeftToMerge
  EachBandOnce
  FailsOnUnrelated
PROPERTIES
  Ends
CHECK_DEADLOCK FALSE
