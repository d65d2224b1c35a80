SPECIFICATION Spec
CONSTANTS
    Worker = {w1}
    Caller = {c1, c2}
    Bits <- MCBits
    MaxBlocks = 0
    MaxFound = 1
    MaxStarts = 2
CHECK_DEADLOCK FALSE
INVARIANT CallsKeepApart
