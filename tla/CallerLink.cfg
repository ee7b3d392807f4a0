\* Three ticks between heartbeats, two missed beats and one tick of lateness, the smallest window.
CONSTANTS
    Interval = 3
    Window = 11
    Lateness = 1
    MaxMissed = 2
    MaxRights = 4
SPECIFICATION LinkSpec
INVARIANTS ReturnLeaksNothing IdleCallerKeepsSlot
PROPERTIES ContextEndsLink
CHECK_DEADLOCK FALSE
