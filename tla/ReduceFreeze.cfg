\* Both levers and the closet: the frozen boundary.
CONSTANTS
    Ids = {2, 3, 4, 5, 6, 7, 8, 9}
    Retained = 3
    MinFold = 2
    TailCap = 12
    Levers <- Together
    Rates <- Prices
    MaxMsgs = 9
    MaxTurns = 2
    MaxRewrites = 0
SPECIFICATION Spec
PROPERTIES FreezeHolds
CHECK_DEADLOCK FALSE
