SPECIFICATION Spec
CONSTANTS
  Trees <- MCTrees
  Matchers <- MCMatchers
INVARIANT CaptureWillContainTheNode
CHECK_DEADLOCK FALSE
