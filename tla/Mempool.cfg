SPECIFICATION Spec
CONSTANTS
    Blocks <- MCBlocks
    Base = "G"
    Parent <- MCParent
    Anc <- MCAnc
    Height <- MCHeight
    BlockTxs <- MCBlockTxs
    Ins <- MCIns
    OutIdx <- MCOutIdx
    Coinbases <- MCCoinbases
    Fee <- MCFee
    Size <- MCSize
    LockTime <- MCLockTime
    RelLock <- MCRelLock
    Maturity = 2
    LimitAncestors = 4
    LimitAncestorSize = 5
    LimitDescendants = 4
    LimitDescendantSize = 5
    MaxVisit = 0
    MaxUsage = 5
    DeltaSize = 1
    MinRelay = 1
    Deltas <- MCDeltas
INVARIANTS PoolConsistent InputsAvailable ReadyWhenIdle
