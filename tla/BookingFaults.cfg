\* Anything is lost, cancelled or raced, and the lock's lease lapses.
SPECIFICATION Spec
CONSTANTS
  Callers = {c1, c2}
  Slots <- MCSlots2
  Office = office
  NoOne = none
  NoSlot = 0
  MaxConfirms = 1
  AnswersMayBeLost = TRUE
  CallsMayDrop = TRUE
  LeaseOutlivesBooking = FALSE
CHECK_DEADLOCK FALSE
INVARIANTS
  RecordedIsBooked
  SecondAppointmentWasLost
PROPERTIES
  KeepsPromise
