SPECIFICATION Spec
CONSTANTS
    Chains = {c1, c2}
    NoChain = NoChain
    Levels <- Levels3
    Targets <- Targets1
    MaxIndex = 2
    Rounds <- RoundsInsert
PROPERTIES
    DeleteKeepsPlace
CHECK_DEADLOCK TRUE
