SPECIFICATION Spec
CONSTANTS
    NoThread <- MCNoThread
    MaxRounds = 1
INVARIANT
    NoLostUpdate
CHECK_DEADLOCK FALSE
