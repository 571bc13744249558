SPECIFICATION Spec
CONSTANTS
    Blocks <- PruneBlocks
    Genesis = "G"
    Parent <- PruneParent
    Anc <- PruneAnc
    Height <- PruneHeight
    Work <- PruneWork
    Addr <- PruneAddr
    ContextBad = {"f3"}
    ConnectBad = {"e3"}
    Threads = {t1}
    MIN_BLOCKS_TO_KEEP = 1
    Budgets <- AnyRecovery
INVARIANTS
    BestChainActive
    ActiveChainSound
    CheckBlockIndex
CHECK_DEADLOCK FALSE
