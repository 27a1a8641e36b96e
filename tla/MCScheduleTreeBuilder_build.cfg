SPECIFICATION Spec
CONSTANTS
  Existing <- MCExisting
  Builders <- MCBuilders
INVARIANTS
  TypeOK
  BuildsTheTree
  CallbacksOnce
  OnlyWellFormedBuilds
  CopyKeepsStructure
CHECK_DEADLOCK FALSE
