SPECIFICATION FairSpec
CONSTANTS
    Hash = {"G", "A1", "B1", "B2", "C1", "C2"}
    Genesis = "G"
    Zero = Zero
    NoCoin = NoCoin
    NoKey = NoKey
    Tx <- MCTx
    Coinbase <- MCCoinbase
    Outpoint <- MCOutpoint
    Leaf <- MCLeaf
    Ins <- MCIns
    Outs <- MCOuts
    Lvs <- MCLvs
    Heights <- MCHeights
    Parent <- MCParent
    Height <- MCHeight
    Work <- MCWork
    BlockTxs <- MCBlockTxs
    WellFormed <- MCWellFormed
    HeaderOK <- MCHeaderOK
    Value <- MCValue
    Subsidy <- MCSubsidy
    MinFee = 1
    Maturity = 1
    Checkpoints <- NoCheckpoints
    MaxDisconnected = 2
    CrashAt = {}
    MaxCrashes = 0
PROPERTIES
    Convergence
