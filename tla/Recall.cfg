\* Three coordinates and room for two.
CONSTANTS
    Coords = {k1, k2, k3}
    TTL = 3
    MaxKeys = 2
    MaxTurns = 3
SPECIFICATION RecallSpec
INVARIANTS ForgottenOnlyWhenFull
PROPERTIES AntiThrash
CHECK_DEADLOCK FALSE
