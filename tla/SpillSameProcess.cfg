\* Two workers of one process spill the same output.
CONSTANTS
    Workers = {w1, w2}
    Pid <- OneProcess
    Refs = {r1}
    Bytes <- OneByte
    Budget = 1
    MaxOps = 2
    MaxCrashes = 0
    MaxErrors = 0
SPECIFICATION Spec
INVARIANTS PromotedIsWhole
CHECK_DEADLOCK FALSE
