SPECIFICATION SumSpec
CONSTANTS
  Tenants = {x1, x2, x3, x4}
  Calls = {h1, h2, h3}
  Slots = {k1, k2, i1, i2}
  MaxTenants = 2
  NoSlot = NoSlot
  Free = Free
  HeadTimeout = 4
  MaxInteraction = 7
  SilentTicks = 3
  Channel = 2
  Credentials = {p1}
  Keys = {k1, k2}
  Scopes = {x1, x2}
  Ids = {i1, i2}
  Tokens = {n1}
  Registrations = {r1}
  Handlers = {h1, h2}
  Capacity = 1
  MaxRestarts = 1
  Objects = {o1, o2}
  Cap = 2
  MaxChunk = 2
  MaxBytes = 4
  None = None
  Empty = Empty
  Torn = Torn
SYMMETRY Interchangeable
CHECK_DEADLOCK FALSE
INVARIANTS OneAtATime SlotsHold  WatchdogHolds 
PROPERTY ApprovalsHold
