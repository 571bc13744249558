SPECIFICATION FairSpec
CONSTANTS
    Blocks <- LiveBlocks
    Genesis = "G"
    Parent <- LiveParent
    Anc <- LiveAnc
    Height <- LiveHeight
    Work <- LiveHeight
    Addr <- LiveAddr
    ContextBad = {}
    ConnectBad = {"b2"}
    Threads = {t1, t2}
    MIN_BLOCKS_TO_KEEP = 2
    Budgets <- InvalidateOnce
INVARIANTS
    CheckBlockIndex
    FailuresRespected
    BestChainActive
PROPERTIES
    CandidateKeysStable
    ActivationReturns
CHECK_DEADLOCK FALSE
