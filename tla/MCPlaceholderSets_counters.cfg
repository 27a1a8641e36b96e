SPECIFICATION Spec
CONSTANTS
  Thread = {t1}
  t1 = t1
  MaxPlaceholders = 4
  Calls <- MCCalls
INVARIANT DifferentPlaceholdersDifferentFolds
CHECK_DEADLOCK FALSE
