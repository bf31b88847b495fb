\* Two threads append, run into the capacity and flush concurrently.
CONSTANTS
  Threads = {t1, t2}
  Capacity = 5
  DataLen = 3
  CommitLen = 1
  MaxTrx = 2
  MaxData = 1
  NoThread = NoThread
SPECIFICATION FairSpec
INVARIANT LogFileExact
INVARIANT BufferAccounted
PROPERTY CommitReachesFile
CHECK_DEADLOCK FALSE
