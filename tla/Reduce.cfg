\* The levers with frozen boundary, history rewrites and lost state.
CONSTANTS
    Ids = {2, 3, 4, 5, 6, 7, 8}
    Retained = 2
    MinFold = 2
    TailCap = 3
    Levers <- Apart
    Rates <- Prices
    MaxMsgs = 7
    MaxTurns = 3
    MaxRewrites = 1
SPECIFICATION Spec
INVARIANTS ReuseIsHonest
PROPERTIES PairsSurvive RetainedVerbatim FreezeHolds
CHECK_DEADLOCK FALSE
