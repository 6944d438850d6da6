\* Two children at a time for two clients; a file of up to seven bytes in
\* chunks of three, and an int whose low byte has four values.
SPECIFICATION MCSpec
CONSTANTS
    p1 = p1
    p2 = p2
    c1 = c1
    c2 = c2
    Parent = parent
    Children <- MCChildren
    Clients <- MCClients
    Listener = listener
    None = None
    Chunk = 3
    MaxSize = 7
    Base = 4
    Deliveries = {"whole", "segmented"}
INVARIANTS
    NoStrayDescriptor
    NoChildLeftBehind
    TransferTypeOK
    OneAckAtATime
    ReportedFileIsIntact
PROPERTIES
    ChildrenEnd
    TransferEnds
\* A transfer ends, and so do the processes.
CHECK_DEADLOCK FALSE
