\* A lookup in flight while its credential is revoked.
SPECIFICATION Spec
CONSTANTS
  Credentials = {c1}
  Keys = {k1}
  Scopes = {s1}
  Ids = {i1}
  Tokens = {t1}
  Registrations = {r1}
  Handlers = {h1, h2}
  Capacity = 1
  MaxRestarts = 1
  None = None
  Empty = Empty
  Torn = Torn
INVARIANT RevokedStaysOut
CHECK_DEADLOCK FALSE
