SPECIFICATION Spec
CONSTANTS
  Presses = {p1, p2, p3}
  Numberless = {p3}
  Missed = {m1}
  MAX_RETRIES = 3
  NoItem = NoItem
  MaxStops = 2
INVARIANTS HeldOnce NobodyIsPestered GivenUpAfterAllAttempts RequestsAreKept
CHECK_DEADLOCK FALSE
