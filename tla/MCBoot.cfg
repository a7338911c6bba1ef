SPECIFICATION SumSpec
CONSTANTS
  Enclaves = {e1, e2}
  Guests = {g1, g2}
  Secrets = {s1, s2, s3}
  Pinned = g1
  MaxStops = 3
  MaxUploads = 2
  None = None
  MaxNumber = 30
  Clients = {c1, c2}
  Siblings = 1
  PageSize = 1
  Attempts = 2
  MaxWrites = 3
  Marker = Marker
  Planted = Planted
  Sibling = Sibling
  Callers = {c1, c2}
  BufferLens = {1, 3}
  ReplyMax = 2
  CheckLen = 3
  MaxDraws = 2
  Source = "auto"
  Conns = {c1, c2}
  Concurrent = 1
  MaxCerts = 2
  MaxRestarts = 1
  Forged = Forged
CHECK_DEADLOCK FALSE
INVARIANTS TipFound GenesisHolds RecordsHold RandomnessHolds DocumentsHold
PROPERTY EverythingComesUp
