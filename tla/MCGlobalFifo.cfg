SPECIFICATION Spec
CONSTANTS
    Tasks <- MCTasks
    NoTask <- MCNoTask
    Calls <- MCCalls
    NonBlocking <- MCNonBlocking
    Signalled <- MCSignalled
    GLOBALFIFO_SIZE = 2
    Byte <- MCByte
    Zero = 0
    ReadCounts <- MCReadCounts
    Payloads <- MCPayloads
    PollEvents <- MCPollEvents
    CopyOrders <- MCCopyOrders
INVARIANTS
    TypeOK
    ReadersNotStranded
    NoDanglingEntries
    SleepsOnlyInSchedule
    PollersNotStranded
PROPERTY
    Linearizable
