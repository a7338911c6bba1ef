SPECIFICATION SumSpec
CONSTANTS
  Tenants = {t1}
  Categories = {c1, c2, c3}
  Raisers = {r1, r2}
  QueueCapacity = 2
  MaxInflight = 2
  MaxPending = 1
  MaxRaises = 5
  DTenants = {t1, t2}
  Tokens = {1, 2}
  PerTenant = 1
  MaxDevices = 2
  MaxEnrolments = 3
  MaxFaults = 2
  PushDevices = 2
  Lifetime = 4
  MaxTime = 5
  MaxRevoked = 2
  None = None
CHECK_DEADLOCK FALSE
INVARIANTS MarksHold RegistryHolds
PROPERTIES DevicesStay WakesSettle
