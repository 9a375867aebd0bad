SPECIFICATION Spec
CONSTANTS
    Users = {u1, u2, u3}
    NoUser = NoUser
    Clients = {c1, c2}
    NoTxn = NoTxn
    Limit = 2
    Stages = 2
    Mixes <- All
    Crowd <- Sizes
SYMMETRY Sym
INVARIANTS
    LimitHolds
    StepsStopForOwner
    StepsAreWanted
    OnlyTicksDeadlock
PROPERTIES
    OneOutcome
CHECK_DEADLOCK FALSE
