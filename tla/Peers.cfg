SPECIFICATION Spec
CONSTANTS
    IP = {a}
    MaxNodes = 3
    MaxPerIP = 2
    MaxConnections = 1
    MaxOutbound = 1
    Protected = 0
INVARIANTS
    NoPlaceLeaks
    InboundBounded
    TableIsLive
PROPERTY SlotsComeBack
CHECK_DEADLOCK FALSE
