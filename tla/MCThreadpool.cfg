SPECIFICATION Spec
CONSTANTS
    w1 = w1
    w2 = w2
    w3 = w3
    t1 = t1
    t2 = t2
    t3 = t3
    t4 = t4
    Owner = Owner
    NoTask = NoTask
    Workers <- MCWorkers
    Tasks <- MCTasks
    Parent <- MCParent
    Endless <- MCEndless
INVARIANTS
    NoLostWakeup
    TaskInOnePlace
PROPERTIES
    ImplementsTaskQueue
    QueuedTaskStarts
CHECK_DEADLOCK FALSE
