SPECIFICATION Spec
CONSTANTS
  t1 = t1
  t2 = t2
  S = S
  T = T
  E = E
  A = A
  B = B
  C = C
  Thread = {t1, t2}
  Scops <- MCScops
  Clients <- MCClients
INVARIANTS
  TypeOK
  PrintsOwnStatements
  PrintsOwnSchedules
  WritesStayFirst
  ArraysAreAccessed
CHECK_DEADLOCK FALSE
