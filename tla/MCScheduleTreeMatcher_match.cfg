SPECIFICATION Spec
CONSTANTS
  Trees <- MCTrees
  Matchers <- MCMatchers
INVARIANTS
  TypeOK
  ResultIsStructural
  FoundIsFirst
  CapturesAreOfTheMatch
CHECK_DEADLOCK FALSE
