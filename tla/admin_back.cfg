SPECIFICATION Spec
CONSTANTS
  t1 = t1  t2 = t2  p1 = p1  p2 = p2  p3 = p3  b1 = b1  raw = raw  Absent = Absent  Unread = Unread
  Tabs = {t1}
  Paths = {p1, p2, p3}
  Bodies = {b1, raw}
  Shown <- ShownBody  First <- RawPage
  MaxRequests = 1
  MaxNavigations = 1
INVARIANT UnsavedIsDirty
CHECK_DEADLOCK FALSE
