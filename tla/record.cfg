CONSTANTS
  Threads = {t1, t2}
  Capacity = 2
  ByteBits = 2
  MaxPage = 6
  Files <- MCFiles
  RedoLogs <- MCRedoLogs
  Statements <- MCStatements
  MaxOps = 1
SPECIFICATION Spec
INVARIANT SpaceExact
PROPERTY ScansSound
INVARIANT DeadlockOnlyInUpdate
PROPERTY StatementsEnd
CHECK_DEADLOCK FALSE
