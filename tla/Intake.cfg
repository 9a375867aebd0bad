SPECIFICATION Spec
CONSTANTS
    MaxInc = 4
    Alerts = {a, b}
    Services = {s1, s2}
    First = s1
    P0 = {s2}
    Similar <- AllSimilar
    FlapMin = 1
    Deliveries = {d1, d2}
    Combines = {c1, c2}
    Budget <- Few
    Nobody = Nobody
SYMMETRY Sym
INVARIANTS
    OneOpenPerAlert
    RingsAreUntidy
    ToldOnce
PROPERTIES
    FiringIsAnswered
CHECK_DEADLOCK FALSE
