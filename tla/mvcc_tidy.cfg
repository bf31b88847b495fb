\* Insertions and deletions of other transactions' records, every end of a
\* transaction: no mark outlives its transaction.
CONSTANTS
  Sessions = {s1, s2}
  Rids = {r1, r2}
  Keys = {k1}
  NoRow = NoRow
  Unique = FALSE
  Workload <- TidyWrites
  MaxTrxId = 7
SPECIFICATION FairSpec
INVARIANT MarksHaveOwners
PROPERTY LifecycleSpec
PROPERTY EndReleasesRecords
CHECK_DEADLOCK FALSE
