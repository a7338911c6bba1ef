SPECIFICATION SumSpec
CONSTANTS
  Ids = {a}
  Origins = {o1}
  None = None
  PerTenant = 1
  MaxOpens = 2
  MaxRequests = 2
  MaxStops = 1
  Samples <- EdgeAddresses
  Seconds <- SecondAddresses
  DevHost <- DevelopmentHost
  Ports = {443, 9000}
  OwnPorts = {9000}
  MaxDials = 2
  MaxBytes = 7
  MaxFrame = 3
  Ceiling = 6
CHECK_DEADLOCK FALSE
INVARIANTS SupervisedOnce PromiseHolds NeverInside HoweverItArrives
 
