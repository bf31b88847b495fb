\* One crash at any step of two sessions that send every kind of statement.
CONSTANTS
  Sessions = {s1, s2}
  Rids = {r1, r2}
  Keys = {k1, k2}
  NoRow = NoRow
  Unique = FALSE
  Workload <- AllWorkload
  MaxTrxId = 5
  MaxCrashes = 1
  MaxLog = 6
SPECIFICATION RecoverySpec
INVARIANT RecoveryExact
INVARIANT RefusedLogs
SYMMETRY Symmetry
CHECK_DEADLOCK FALSE
