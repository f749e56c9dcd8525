\* Two flows of two tenants (or of none) share one connection, more flows than connections; one nests deep.
SPECIFICATION FairSpec
CONSTANTS
  Requests = {r1, r2}
  Connections = {c1}
  Tenants = {t1, t2}
  NoContext = NoContext
  NoClient = NoClient
  RlsConfigured = TRUE
  MaxDepth = 3
  MaxCalls = 5
SYMMETRY Symmetry
CONSTRAINT TwoFlowsOrDeep
INVARIANTS PoolClean TenantIsolation HonestAnswers
PROPERTIES ImplementsUnits EveryCallReturns PoolDrains
