SPECIFICATION Spec
CONSTANTS
  Callers = {c1, c2}
  Slots <- MCSlots1
  Office = office
  NoOne = none
  NoSlot = 0
  MaxConfirms = 1
  AnswersMayBeLost = FALSE
  CallsMayDrop = FALSE
  LeaseOutlivesBooking = FALSE
CHECK_DEADLOCK FALSE
INVARIANTS
  BookingMutex
