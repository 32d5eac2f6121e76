SPECIFICATION Spec
CONSTANTS
  t1 = t1  t2 = t2  w1 = w1  w2 = w2  p1 = p1  p2 = p2  b1 = b1  b2 = b2
  Absent = Absent  NoTx = NoTx
  Tenants = {t1}
  Writers = {w1, w2}
  Paths = {p1, p2}
  Bodies = {b1}
  ValidBodies = {b1}
  MaxRevision = 3
  MaxID = 2
  MaxCreates = 1
  Limit = 1
INVARIANTS BatchesGoThrough RollbackRestores HistoryEndsAtFirstGap ReceiptsAreReal AnswersAreExact
PROPERTY LedgerSpec
CHECK_DEADLOCK FALSE
