SPECIFICATION Spec
CONSTANTS
    Clients = 1
    Worker = {w1}
    QueueDepth = 1
    MaxConnections = 1
    Commands = {"startmining", "stop"}
INVARIANT ActiveRequestFinishes
CHECK_DEADLOCK FALSE
