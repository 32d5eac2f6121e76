SPECIFICATION Spec
CONSTANTS
  a1 = a1  a2 = a2
  Tenants = {1, 2}
  Actions = {a1}
  MaxRows = 3
  MaxSkips = 1
INVARIANT TenantChainVerifies
