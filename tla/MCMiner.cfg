SPECIFICATION Spec
CONSTANTS
    Worker = {w1}
    Caller = {c1, c2}
    Bits <- MCBits
    MaxBlocks = 2
    MaxFound = 2
    MaxStarts = 2
CHECK_DEADLOCK FALSE
INVARIANTS
    NoneLost
    StoppedIsJoined
PROPERTIES
    FoundIsSubmitted
    StopReturns
    TornIsDropped
