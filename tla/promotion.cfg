SPECIFICATION PromotionSpec
CONSTANTS
  review = review  prod = prod  p1 = p1  p2 = p2  page = page  raw = raw
  image = image  shell = shell  spare = spare  bare = bare  full = full  odd = odd
  Absent = Absent  NoSnapshot = NoSnapshot  NoPlan = NoPlan  NoBase = NoBase  Nowhere = Nowhere
  Tenants = {review, prod}
  Paths = {p1, p2}
  Bodies = {page, raw}
  ValidBodies = {page}
  MaxRevision = 3
  MaxID = 3
  MaxCreates = 2
  Review = review
  Target = prod
  Reserved = {}
  Assets = {image, shell, spare}
  Bundles = {bare, full, odd}
  Kind <- MCKind
  Files <- MCFiles
  ShellOf <- MCShellOf
  Links <- MCLinks
  Needs <- MCNeeds
  MaxPublished = 2
  MaxReviewed = 3
  MaxEdits = 3
INVARIANTS PublishedIsApproved PlanIsApplicable PublishedLinksHold
CHECK_DEADLOCK FALSE
