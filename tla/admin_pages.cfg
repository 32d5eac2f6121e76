SPECIFICATION Spec
CONSTANTS
  t1 = t1  t2 = t2  p1 = p1  p2 = p2  p3 = p3  b1 = b1  raw = raw  Absent = Absent  Unread = Unread
  Tabs = {t1, t2}
  Paths = {p1, p2}
  Bodies = {b1, raw}
  Shown <- ShownBody  First <- RawPage
  MaxRequests = 2
  MaxNavigations = 2
INVARIANTS NoLostUpdate SavesLandOnTheirPage CleanMeansSaved AuditMatchesReplies
PROPERTY SaveEnds
CHECK_DEADLOCK FALSE
