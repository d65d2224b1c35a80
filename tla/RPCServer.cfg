SPECIFICATION Spec
CONSTANTS
    Clients = 3
    Worker = {w1, w2}
    QueueDepth = 2
    MaxConnections = 2
    Commands = {"stop"}
INVARIANTS
    OneWriter
PROPERTIES
    QueuedIsAnswered
    SlotReturns
    ShutdownEnds
CHECK_DEADLOCK FALSE
