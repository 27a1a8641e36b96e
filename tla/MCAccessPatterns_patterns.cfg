SPECIFICATION Spec
CONSTANTS
  p = p
  q = q
  Coordinates = {0, 1, 2}
  Elements = {0, 1, 2, 3, 4, 5}
  Unset = 2147483647
  Accesses <- MCAccesses
  Patterns <- MCPatterns
  Replacements <- MCReplacements
  Strides <- MCStrides
  ActivePoints <- MCActivePoints
  AllPoints = AllPoints
  Affs <- MCAffs
INVARIANTS
  TypeOK
  TransformIsExact
  ReplacementIsMatched
  StrideIsConstantOffset
  OperatorsAgree
CHECK_DEADLOCK FALSE
