SPECIFICATION FairSpec
CONSTANTS
    Tasks <- MCTasks
    NoTask <- MCNoTask
    Files <- MCFiles
    Uses <- MCUses
    Calls <- MCCalls
    GLOBALMEM_SIZE = 2
    UIntSize = 8
    Sizes <- MCSizes
    Offsets <- MCOffsets
    Byte <- MCByte
    Zero = 0
    MaxPos = 4
INVARIANTS
    CopiesInBounds
    CopiesAtomic
    PositionInRange
PROPERTY
    CallsEnd
