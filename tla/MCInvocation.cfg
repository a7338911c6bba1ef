SPECIFICATION LiveSpec
CONSTANTS
  Requests = {r1}
  Messages = {m1}
  Tasks = {t1}
CHECK_DEADLOCK FALSE
INVARIANTS NothingBeforeAnchor GuestHoldsLock
 
