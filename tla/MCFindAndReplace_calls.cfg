SPECIFICATION Spec
CONSTANTS
  x = x
  y = y
  A = A
  B = B
  C = C
  t = t
  Tag = {t}
  Array = {A, B, C}
  Payload = {x, y}
  PayloadEq <- Identity
  Umaps <- MCUmaps
  Calls <- MCCalls
INVARIANTS
  TypeOK
  MapsAreConserved
  OutcomeIsDetermined
  ResultIsExact
CHECK_DEADLOCK FALSE
