SPECIFICATION ServerSpec
CONSTANTS
    w1 = w1
    w2 = w2
    w3 = w3
    r1 = r1
    r2 = r2
    r3 = r3
    Owner = Owner
    NoTask = NoTask
    Workers <- MCWorkers
    Tasks <- MCReactors
    Endless <- MCReactors
    Parent <- MCParent
    MaxClients = 2
PROPERTIES
    WaitingClientAccepted
CHECK_DEADLOCK FALSE
