SPECIFICATION Spec
CONSTANTS
  Tenants = {1}
  Ids = {a}
  Inputs = {"once"}
  Workers = {w1}
  MaxAttempts = 1
  MaxRecords = 1
  PerTenant = 1
  MaxGens = 1
  MaxOccurrence = 0
  MaxRequests = 2
  MaxStops = 1
CHECK_DEADLOCK FALSE
INVARIANTS RecordsAreScanned
