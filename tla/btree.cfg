SPECIFICATION Spec
CONSTANTS
  LeafMax = 4
  InternalMax = 4
  Unique = FALSE
  Scale = 2
  MaxOps = 3
  Attrs <- MCAttrs
  Rids <- MCRids
  Bounds <- MCBounds
  Builds <- MCBuilds
INVARIANT TreeValid
INVARIANT ScanAnswers
CHECK_DEADLOCK FALSE
