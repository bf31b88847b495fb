SPECIFICATION LatchSpec
CONSTANTS
  LeafMax = 4
  InternalMax = 4
  Unique = FALSE
  Scale = 2
  MaxOps = 3
  Threads = {w1, w2, w3}
  Attrs <- MCAttrs
  Rids <- MCRids
  Bounds = {}
  Builds <- MCBuilds
  CallKeys <- MCCallKeys
  CallRanges <- MCCallRanges
INVARIANT TreeAndScansSound
INVARIANT CyclesOnlyAtOpen
PROPERTY LatchedStable
PROPERTY IndexSpec
CHECK_DEADLOCK FALSE
