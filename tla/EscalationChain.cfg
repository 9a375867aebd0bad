SPECIFICATION FairSpec
CONSTANTS
    Users = {u1, u2}
    NoUser = NoUser
    MaxLevel = 1
    MaxRound = 1
    Timeouts = {1, 3}
    Ceiling = 2
    AckLock = 2
    TakeoverWindow = 2
    MaxSnooze = 3
    MaxLate = 2
INVARIANTS
    TypeOK
    ClosedIsQuiet
    LiveIsScheduled
    LockIsExact
    NoticeIffExhausted
PROPERTIES
    OnlyLateParts
    NewOwnerUnasked
    ResumesAbove
    LapsesOnlyWhenIdle
    ImplementsPagingLock
    RunningEnds
    LockLapses
CHECK_DEADLOCK TRUE
