\* One call, failing writes, and a process that may die at any point.
SPECIFICATION FairSpec
CONSTANTS
  Calls = {c1}
  Nothing = Nothing
  WritesMayFail = TRUE
  ProcessMayDie = TRUE
INVARIANTS
  RecordIsTrue
  NoPayloadVanishes
PROPERTIES
  RealDataIsKept
  EveryCallIsRecorded
CHECK_DEADLOCK FALSE
