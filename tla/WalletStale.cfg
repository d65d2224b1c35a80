SPECIFICATION Spec
CONSTANTS
    Tx = {"a", "d", "e", "ee", "f"}
    Coinbase = {}
    Outpoint <- MCOutpoint
    Leaf = {0, 1, 2}
    Ins <- MCIns
    Outs <- MCOuts
    Lvs <- MCLvs
    Heights = {0}
    Hash = {}
    Zero = Zero
    NoCoin = NoCoin
    NoKey = NoKey
    Thread = {r1, r2}
    ChangeIx <- MCChangeIx
    Malformed = {"ee"}
    Mined = {"x", "y"}
    None = None
    MaxKeys = 1
    MaxEvents = 2
SYMMETRY MCSymmetry
CHECK_DEADLOCK FALSE
INVARIANT NeverRespent
