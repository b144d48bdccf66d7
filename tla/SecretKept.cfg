SPECIFICATION Spec
CONSTANTS
  a = a
  b = b
  x1 = x1
  x2 = x2
  x3 = x3
  x4 = x4
  Delegated <- MCDelegated
  MaxDispatch = 2
  Deliveries <- MCDeliveries
  MaxRestarts = 1
  Kids <- MCKids
  Requests <- MCRequests
  Ttl = 1
  MaxTime = 3
  Transports <- MCTransports
  Clients <- MCClients
  Tokens <- MCTokens
  Pipelines <- MCPipelines
  MaxRuns = 2
  Invocations <- MCInvocations
  Kinds <- MCKinds
  Models <- MCModels
  Pricing <- MCPricing
  MaxRetries = 3
SYMMETRY Symmetry
CHECK_DEADLOCK FALSE
INVARIANT SecretKept
