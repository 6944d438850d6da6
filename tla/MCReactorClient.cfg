\* Messages of up to three bytes through a buffer of two, one interrupted
\* call; three threads for two descriptors.
SPECIFICATION MCSpec
CONSTANTS
    Lens = {0, 1, 3}
    Capacity = 2
    Buf = 2
    MaxMessages = 2
    MaxReceived = 3
    MaxSignals = 1
    c1 = c1
    c2 = c2
    c3 = c3
    Free = Free
    Clients <- MCClients
    MaxFd = 2
    MaxMsgs = 1
INVARIANTS
    ConnectionTypeOK
    WireInOrder
    NoLostEdge
    EndedClientReleased
PROPERTIES
    NonBlockingCallsReturn
    ThreadsEnd
\* Callers stop calling, and threads end.
CHECK_DEADLOCK FALSE
