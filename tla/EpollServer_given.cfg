SPECIFICATION EpollSpec
CONSTANTS
    Visitors = {v1, v2}
    Nobody = Nobody
    Listensock = 5
    FdTop = 7
    Batch = 2
    MaxWaiting = 1
    ReplyRoom = 1
INVARIANTS
    ClientsAreAwaited
CHECK_DEADLOCK FALSE
