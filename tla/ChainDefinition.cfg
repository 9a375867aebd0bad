SPECIFICATION Spec
CONSTANTS
    Chains = {c1, c2}
    NoChain = NoChain
    Levels <- Levels3
    Targets <- Targets1
    MaxIndex = 2
    Rounds <- Rounds2
SYMMETRY Chains2
INVARIANTS
    CursorIsExact
    TakersWerePaged
PROPERTIES
    FiringPages
CHECK_DEADLOCK FALSE
