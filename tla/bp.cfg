\* Two threads open three files and use their pages through three frames.
CONSTANTS
  Threads = {t1, t2}
  Files = {d1, d2, d3}
  Frames = {f1, f2, f3}
  NoOne = NoOne
  NoPage = NoPage
  MaxPageNum = 4
  MaxPages = 3
  MaxWrites = 1
SPECIFICATION Spec
SYMMETRY Symmetry
INVARIANT FramesExact
INVARIANT CyclesOnlyInPurge
PROPERTY LossesNamed
CHECK_DEADLOCK FALSE
