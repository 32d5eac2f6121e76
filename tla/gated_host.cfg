SPECIFICATION GatedSpec
CONSTANTS
  s1 = s1  s2 = s2  s3 = s3  h1 = h1  h2 = h2  pa = pa
  r1 = r1  p1 = p1  p2 = p2  NoHost = NoHost
  Slugs = {s1, s2, s3}
  Hosts = {h1, h2, pa}
  PreviewSlug <- MCPreview
  Readers = {r1}
  MaxID = 6
  MaxChanges = 2
  SeedTenants <- MCTenants
  SeedDomains <- MCDomains
  Primary <- MCPrimary
  Aliases <- MCAliases
  Protected = {s1, s2}
  Passwords = {p1, p2}
  Right <- MCRight
  CacheLimit = 1
  FailureLimit = 1
  Slots = 1
  Window = 1
  MaxClock = 1
  MaxBegun = 2
INVARIANTS PrivateNeedsPassword
CHECK_DEADLOCK FALSE
