SPECIFICATION FairSpec
CONSTANTS
    Tasks <- ClearTasks
    NoTask <- MCNoTask
    Calls <- ClearCalls
    NonBlocking <- LiveNonBlocking
    Signalled <- LiveSignalled
    GLOBALFIFO_SIZE <- LiveSize
    Byte <- MCByte
    Zero = 0
    ReadCounts <- LiveReadCounts
    Payloads <- LivePayloads
    PollEvents <- LivePollEvents
    CopyOrders <- MCCopyOrders
PROPERTY
    BlockedWriterGoesOn
