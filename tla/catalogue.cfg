CONSTANTS
  Threads = {t1, t2}
  Names = {a, b}
  IndexNames = {i, j}
  NoFile = NoFile
  NoTable = NoTable
  Idle = Idle
  Empty = Empty
  NullKeys <- MCNullKeys
  MaxStatements = 4
  MaxRestarts = 2
  MaxFaults = 1
SPECIFICATION Spec
INVARIANT StartFailsOnlyAfter
INVARIANT CatalogueMatchesFiles
INVARIANT IdsNameOneTable
INVARIANT IndexComplete
SYMMETRY Symmetry
CHECK_DEADLOCK FALSE
