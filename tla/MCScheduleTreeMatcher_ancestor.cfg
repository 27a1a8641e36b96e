SPECIFICATION Spec
CONSTANTS
  Trees <- MCTrees
  Matchers <- MCMatchers
INVARIANT AncestorIsReported
CHECK_DEADLOCK FALSE
