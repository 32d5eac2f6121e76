SPECIFICATION HostSpec
CONSTANTS
  w1 = w1  w2 = w2  c1 = c1  c2 = c2  r1 = r1  plain = plain  fancy = fancy  rough = rough  Nothing = Nothing
  Workers = {w1, w2}
  Contents = {c1, c2}
  MaxVersion = 2
  MaxAttempts = 3
  Readers = {r1}
  Templates = {plain, fancy, rough}
  Configured = {plain}
  Files <- MCFiles
  Malformed <- MCMalformed
INVARIANTS LinksAreWhole OkMeansStored QuietSucceeds SteadyReadsAreExact SwapHidesNothing ListIsOfSeenVersions
PROPERTY ReplayNeverActivates
CHECK_DEADLOCK FALSE
