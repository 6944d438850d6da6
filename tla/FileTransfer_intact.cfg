SPECIFICATION TransferSpec
CONSTANTS
    Chunk = 3
    MaxSize = 7
    Base = 4
    Deliveries = {"whole", "segmented"}
INVARIANTS
    ReceivedFileIsIntact
CHECK_DEADLOCK FALSE
