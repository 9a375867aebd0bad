SPECIFICATION Spec
CONSTANTS
    MaxSessions = 3
    MaxExtra = 1
    MaxLate = 1
    MaxHandled = 1
    Incidents = {i1, i2}
    NoIncident = NoIncident
    Urgent = {i1}
    Models = {m1, m2}
    NoModel = NoModel
    Wants <- WantsFirst
    Cap = 1
    Clients = {c1}
    Drains = {d1, d2}
    Nobody = Nobody
SYMMETRY Sym
INVARIANTS
    WithinCap
PROPERTIES
    EndsInQueue
    StartsUnacknowledged
    ImplementsModelSlots
CHECK_DEADLOCK FALSE
