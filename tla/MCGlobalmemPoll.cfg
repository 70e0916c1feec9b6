SPECIFICATION FairSpec
CONSTANTS
    Pollers = {"poll_main", "select_main"}
    Epollers = {"epoll_main"}
    Users = {"echo", "cat"}
    MaxEvents = 2
INVARIANT
    PollersNotStranded
PROPERTY
    EventsReported
CHECK_DEADLOCK FALSE
