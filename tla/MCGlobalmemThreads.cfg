SPECIFICATION FairSpec
CONSTANTS
    NoThread <- MCNoThread
    MaxRounds = 2
INVARIANTS
    LossNeedsTwoLocks
    LossIsBounded
    LocksFreeBetweenRounds
PROPERTY
    ThreadsStop
CHECK_DEADLOCK FALSE
