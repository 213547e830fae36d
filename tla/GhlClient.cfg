SPECIFICATION Spec
CONSTANTS
  Clients = {c1, c2}
  Slots = {s1, s2}
  Nobody = nobody
  Burst = 4
  Interval = 2
  RetryAfter = 2
  ReadTimeout = 1
  SlotTTL = 2
  MaxNow = 4
INVARIANTS
  RateBound
  StaleSlotsExpire
  LoneTagsSurvive
  TextedOnce
CHECK_DEADLOCK FALSE
