SPECIFICATION Spec
CONSTANTS
  a1 = a1  a2 = a2
  Tenants = {1}
  Actions = {a1}
  MaxRows = 4
  MaxSkips = 1
INVARIANTS BreaksHaveCauses IDsAreAccountedFor
