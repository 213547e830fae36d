SPECIFICATION FairSpec
CONSTANTS
    Calls = {c1, c2, c3}
    Places = 2
    Hours = {8, 9, 18}
    OpenHour = 9
    CloseHour = 18
INVARIANTS
    PlacesAreHeldByCalls
    OnlyLateCallsAreCut
PROPERTIES
    ShutdownEnds
    LeftMessageIsQueued
CHECK_DEADLOCK FALSE
