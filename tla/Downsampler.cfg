SPECIFICATION Spec
CONSTANTS
    Short = 2
    Long = 4
    Keep = 12
    Horizon = 16
INVARIANTS
    RollupsAreExact
CHECK_DEADLOCK FALSE
