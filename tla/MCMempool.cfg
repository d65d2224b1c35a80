SPECIFICATION PoolSpec
CONSTANTS
    Tx <- MCTx
    Coinbase = {}
    Outpoint <- MCOutpoint
    Leaf <- MCLeaf
    Ins <- MCIns
    Outs <- MCOuts
    Lvs <- MCLvs
    Heights = {0}
    Hash = {}
    Zero = Zero
    NoCoin = NoCoin
    NoKey = NoKey
    Relayable <- MCTx
    Size <- MCSize
    FeePerK <- MCFeePerK
    MaxBytes = 3
    MaxAncestors = 2
    MaxDescendants = 2
    Increment = 2
    None = None
INVARIANTS
    NoPendingConflict
    IndexesAgree
    WithinBudget
PROPERTIES
    EvictedStayOut
    ChildrenGoAlong
    BlockIsCleared
