SPECIFICATION FairSSpec
CONSTANTS
    MaxRequests = 2
    MaxRuns = 2
    MaxInFlight = 1
    MaxExtends = 1
    MaxRedirects = 0
    MaxRestarts = 1
    Tiers = {1}
    Monolith = TRUE
PROPERTIES
    AskingEnds
    SlotIsReleased
CHECK_DEADLOCK FALSE
