\* A cache of at most two keys out of three, callers and loggers in threads,
\* arrays of up to four elements, a clock of two units a millisecond; three
\* clients of an epoll server with two descriptors for them, an array of two
\* events and two messages on their way; a pair with a buffer of three bytes
\* and at most seven sent.
CONSTANTS
    Keys = {k1, k2, k3}
    Values = {0, 1}
    Dummy = Dummy
    Null = Null
    Capacities <- MCCapacities
    SizeMod = 16
    Threads = {t1, t2, t3}
    Addresses = {a1, a2}
    NoAddress = NoAddress
    NoThread = NoThread
    MaxLen = 4
    Elements <- MCElements
    Loggers = {l1, l2}
    Files = {LogTxt, OtherTxt}
    LogTxt = LogTxt
    Console = Console
    Closed = Closed
    NoHolder = NoHolder
    Tick = 2
    Garbage <- MCGarbage
    MaxTime = 8
    MaxStops = 3
    Visitors = {v1, v2, v3}
    Nobody = Nobody
    Listensock = 5
    FdTop = 7
    Batch = 2
    MaxWaiting = 2
    ReplyRoom = 1
    Size = 3
    MaxSent = 7
    k1 = k1 k2 = k2 k3 = k3
    t1 = t1 t2 = t2 t3 = t3
    a1 = a1 a2 = a2
    l1 = l1 l2 = l2
    OtherTxt = OtherTxt
    v1 = v1 v2 = v2 v3 = v3
SPECIFICATION Spec
INVARIANTS
    TypesOK
    ListMatchesMap
    OneInstance
    IndexesInRange
    LineWhereSettingsSaid
    LosesUnderAMilliPerStop
    EventsStayFresh
    NothingOverlooked
    EveryByteAccountedFor
    WaitMeansEmptyInput
PROPERTIES
    ImplementsRecency
    SortReturns
    EveryAskAnswered
    NobodyWaitsForever
\* quick_sort and the pairs end, a crashed cache does nothing, and the epoll
\* server that was given a port waits for ever.
CHECK_DEADLOCK FALSE
