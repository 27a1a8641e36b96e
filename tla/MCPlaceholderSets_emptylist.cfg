SPECIFICATION Spec
CONSTANTS
  Thread = {t1}
  t1 = t1
  MaxPlaceholders = 4
  Calls <- MCCalls
INVARIANT GroupsOfOneFoldShareTheirArray
CHECK_DEADLOCK FALSE
