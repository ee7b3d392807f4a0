\* Two processes share the directory; an eviction and the power fail once.
CONSTANTS
    Workers = {w1, w2}
    Pid <- OwnProcess
    Refs = {r1, r2, r3, r4}
    Bytes <- OneByte
    Budget = 1
    MaxOps = 4
    MaxCrashes = 1
    MaxErrors = 1
SPECIFICATION Spec
SYMMETRY Symmetry
INVARIANTS PromotedIsWhole RecallIsExact BoundedOvershoot
CHECK_DEADLOCK FALSE
