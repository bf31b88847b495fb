\* Every kind of statement, unique index.
CONSTANTS
  Sessions = {s1, s2}
  Rids = {r1, r2}
  Keys = {k1, k2}
  NoRow = NoRow
  Unique = TRUE
  Workload <- AllWorkload
  MaxTrxId = 6
SPECIFICATION Spec
INVARIANT AssertionsFailOnOwnOnly
INVARIANT WriteExclusion
INVARIANT XidOrder
INVARIANT IndexEntriesLive
PROPERTY CommittedInsertStable
SYMMETRY Symmetry
CHECK_DEADLOCK FALSE
