SPECIFICATION SSpec
CONSTANTS
    MaxRequests = 1
    MaxRuns = 1
    MaxInFlight = 1
    MaxExtends = 0
    MaxRedirects = 0
    MaxRestarts = 0
    Tiers = {0}
    Monolith = TRUE
INVARIANTS
    StopHalts
CHECK_DEADLOCK FALSE
