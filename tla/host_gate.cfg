SPECIFICATION Spec
CONSTANTS
  s1 = s1  s2 = s2  s3 = s3  h1 = h1  h2 = h2  pa = pa
  r1 = r1  NoHost = NoHost
  Slugs = {s1, s2, s3}
  Hosts = {h1, h2, pa}
  PreviewSlug <- MCPreview
  Readers = {r1}
  MaxID = 6
  MaxChanges = 4
  SeedTenants <- MCTenants
  SeedDomains <- MCDomains
  Primary <- MCPrimary
  Aliases <- MCAliases
  Protected = {s1, s2}
INVARIANTS DirectoryIsSound LookupIsTrue SteadyRequestsAreExact
CHECK_DEADLOCK FALSE
