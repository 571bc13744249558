SPECIFICATION Spec
CONSTANTS
    Blocks <- MCBlocks
    Genesis = "G"
    Parent <- MCParent
    Anc <- MCAnc
    Height <- MCHeight
    BlockTxs <- MCBlockTxs
    Ins <- MCIns
    OutIdx <- MCOutIdx
    Transient = FALSE
    Budgets <- MCBudgets
INVARIANTS CoinsExact Recoverable Reversible DiskConsistent
