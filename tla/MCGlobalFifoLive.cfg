SPECIFICATION FairSpec
CONSTANTS
    Tasks <- LiveTasks
    NoTask <- MCNoTask
    Calls <- LiveCalls
    NonBlocking <- LiveNonBlocking
    Signalled <- LiveSignalled
    GLOBALFIFO_SIZE <- LiveSize
    Byte <- MCByte
    Zero = 0
    ReadCounts <- LiveReadCounts
    Payloads <- LivePayloads
    PollEvents <- LivePollEvents
    CopyOrders <- MCCopyOrders
INVARIANT
    WritersNotStranded
PROPERTIES
    CallsSettle
    SignalInterrupts
    BlockedWriterGoesOn
