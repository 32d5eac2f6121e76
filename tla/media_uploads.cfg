SPECIFICATION Spec
CONSTANTS
  u1 = u1  u2 = u2  d1 = d1  n1 = n1  n2 = n2
  Uploads = {u1, u2}
  Downloads = {d1}
  Names = {n1, n2}
  MaxUploads = 4
  MaxDownloads = 2
SYMMETRY Symmetry
INVARIANTS PromisedStaysThere DownloadsAreWhole
CHECK_DEADLOCK FALSE
