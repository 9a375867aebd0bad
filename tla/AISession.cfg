SPECIFICATION SSpec
CONSTANTS
    MaxRequests = 2
    MaxRuns = 2
    MaxInFlight = 2
    MaxExtends = 0
    MaxRedirects = 1
    MaxRestarts = 0
    Tiers = {0, 1}
    Monolith = TRUE
INVARIANTS
    SlotIsHeld
    AskedIsAwaited
    RunsOnlyApproved
PROPERTIES
    AnswerIsFinal
CHECK_DEADLOCK FALSE
