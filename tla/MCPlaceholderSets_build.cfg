SPECIFICATION Spec
CONSTANTS
  Thread = {t1, t2}
  t1 = t1
  t2 = t2
  MaxPlaceholders = 4
  Calls <- MCCalls
INVARIANTS
  TypeOK
  SetIsWellFormed
  FoldsFollowPlaceholders
  GroupFoldsFollowArrays
SYMMETRY ThreadSymmetry
CHECK_DEADLOCK FALSE
