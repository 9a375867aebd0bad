SPECIFICATION FairRSpec
CONSTANTS
    Users = {u1, u2}
    NoUser = NoUser
    MaxLevel = 1
    MaxRound = 1
    Timeouts = {1}
    Ceiling = 1
    AckLock = 1
    TakeoverWindow = 1
    MaxSnooze = 1
    MaxLate = 2
    Traffic = {{"release", "assign", "patch"}, {"assign", "combine"}, {"move", "combine"}}
    MaxInFlight = 2
INVARIANTS
    ClosedUnlessMoved
PROPERTIES
    OnlyStaleParts
    ClosedSettles
CHECK_DEADLOCK TRUE
