SPECIFICATION FailSpec
CONSTANTS
    cb = cb
    tx = tx
    oCb = oCb
    oPay = oPay
    oChange = oChange
    leaf = leaf
    hA = hA
    Tx <- MCTx
    Coinbase <- MCCoinbase
    Outpoint <- MCOutpoint
    Leaf <- MCLeaf
    Ins <- MCIns
    Outs <- MCOuts
    Lvs <- MCLvs
    Hash <- MCHash
    Heights <- MCHeights
    Zero = Zero
    NoCoin = NoCoin
    NoKey = NoKey
    Absent = Absent
    BatchEntries = 2
SYMMETRY OutputSymmetry
PROPERTIES
    CommitIsComplete
