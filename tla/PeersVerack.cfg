SPECIFICATION Spec
CONSTANTS
    IP = {a}
    MaxNodes = 1
    MaxPerIP = 2
    MaxConnections = 1
    MaxOutbound = 1
    Protected = 0
PROPERTY EverySlotComesBack
CHECK_DEADLOCK FALSE
