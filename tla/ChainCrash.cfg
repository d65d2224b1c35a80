SPECIFICATION Spec
CONSTANTS
    Hash = {"G", "A1", "A2", "B1", "B2", "B3", "C1", "D1"}
    Genesis = "G"
    Zero = Zero
    NoCoin = NoCoin
    NoKey = NoKey
    Tx <- MCTx
    Coinbase <- MCCoinbase
    Outpoint <- MCOutpoint
    Leaf <- MCLeaf
    Ins <- MCIns
    Outs <- MCOuts
    Lvs <- MCLvs
    Heights <- MCHeights
    Parent <- MCParent
    Height <- MCHeight
    Work <- MCWork
    BlockTxs <- MCBlockTxs
    WellFormed <- MCWellFormed
    HeaderOK <- MCHeaderOK
    Value <- MCValue
    Subsidy <- MCSubsidy
    MinFee = 1
    Maturity = 1
    Checkpoints <- NoCheckpoints
    MaxDisconnected = 1
    CrashAt = {"idle", "boot", "genesis", "replay", "accept", "connect", "disconnect"}
    MaxCrashes = 2
INVARIANTS
    StateMatchesTip
    Recoverable
    IdleIsDurable
