\* Answers of GHL arrive and the lease is long enough; callers hang up and the
\* process may die.
SPECIFICATION FairSpec
CONSTANTS
  Callers = {c1, c2}
  Slots <- MCSlots2
  Office = office
  NoOne = none
  NoSlot = 0
  MaxConfirms = 2
  AnswersMayBeLost = FALSE
  CallsMayDrop = TRUE
  LeaseOutlivesBooking = TRUE
CHECK_DEADLOCK FALSE
INVARIANTS
  BookingMutex
  BookedIsRecorded
PROPERTIES
  OfferedSlotsAnswered
  SlotLockFreed
