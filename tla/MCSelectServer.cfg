SPECIFICATION Spec
CONSTANTS
    c1 = c1
    c2 = c2
    c3 = c3
    Clients <- MCClients
    None = None
    ListenFd = 3
    FdLimit = 6
    MaxUnread = 1
    Room = 1
INVARIANTS
    WatchesWhatIsOpen
    NeverBlocks
PROPERTIES
    EveryRequestAnswered
    EveryClientAccepted
CHECK_DEADLOCK FALSE
