SPECIFICATION SumSpec
CONSTANTS
  Tenants = {t1, t2, t3}
  Callers = {c1, c2}
  PoolIds = {p1, p2, p3}
  MaxPools = 3
  MaxRestarts = 1
  None = None
  Empty = Empty
  Policies <- AllPolicies
  MaxBoots = 2
  Threads = {h1, h2}
  Sources = {"auto", "ptp", "host"}
  MaxTime = 3
  MaxCalls = 4
  Readings = 5
  Enclaves <- ThreeEnclaves
  Between = between
  Chains <- AllChains
  Clis <- AllClis
  Authorities = {"root", "zone"}
  MaxNonces = 3
  MaxExtends = 1
  MaxDocs = 1
  MaxNow = 1
  MaxAge = 0
  StoreKeys = {1, 2, 3}
  Folder = {2, 3}
  PageSize = 1
  MaxWrites = 3
  Services = {"store", "push"}
  PushService = "push"
  Ports = {0, 9000}
SYMMETRY Interchangeable
CHECK_DEADLOCK FALSE
INVARIANTS   SettingsHold SecretStays  LastGood 
