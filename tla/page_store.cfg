SPECIFICATION Spec
CONSTANTS
  t1 = t1  t2 = t2  p1 = p1  p2 = p2  b1 = b1  b2 = b2  Absent = Absent
  Tenants = {t1, t2}
  Paths = {p1, p2}
  Bodies = {b1}
  ValidBodies = {b1}
  MaxRevision = 4
  MaxID = 2
  MaxCreates = 1
SYMMETRY Symmetry
INVARIANTS UniquePaths HistoryIsLossless RollbackAvailable OneTenantPerID VersionsNeverRepeat RollbackRestores
PROPERTY LedgerSpec
CHECK_DEADLOCK FALSE
