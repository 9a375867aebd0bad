SPECIFICATION Spec
CONSTANTS
    Users = {u1, u2, u3}
    Nobody = Nobody
    Hours = 3
    Days = 5
    Anchor = 1
    Settings <- Windows
    Spans <- Evening
    MaxPlace = 5
    MaxEdits = 4
SYMMETRY Sym
INVARIANTS
    ShiftsAreWhole
PROPERTIES
    NobodyElseMoves
CHECK_DEADLOCK FALSE
