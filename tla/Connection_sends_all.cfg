SPECIFICATION ConnectionSpec
CONSTANTS
    Lens = {0, 1, 3}
    Capacity = 2
    Buf = 2
    MaxMessages = 2
    MaxReceived = 3
    MaxSignals = 1
PROPERTIES
    LoopSendsAll
CHECK_DEADLOCK FALSE
