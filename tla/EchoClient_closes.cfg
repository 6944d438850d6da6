SPECIFICATION Spec
CONSTANTS
    Clients = {c1, c2}
    Free = Free
    MaxFd = 2
    MaxMsgs = 1
INVARIANTS
    ClosesOnlyItsOwn
CHECK_DEADLOCK FALSE
