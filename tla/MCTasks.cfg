SPECIFICATION SumSpec
CONSTANTS
  Tenants = {1}
  Ids = {a}
  Inputs = {"once", "every"}
  Workers = {w1}
  Pair = {w1, w2}
  MaxAttempts = 2
  MaxRecords = 1
  PerTenant = 1
  MaxGens = 2
  MaxOccurrence = 1
  MaxRequests = 2
  MaxStops = 1
CHECK_DEADLOCK FALSE
INVARIANT QueueHolds
PROPERTIES OutcomesKept EveryTaskEnds TenantsTakeTurns
