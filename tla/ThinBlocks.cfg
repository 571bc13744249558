SPECIFICATION FairSpec
CONSTANTS
    Height = 2
    Txs <- MCTxs
    Peers = {"h", "q"}
    Honest = {"h"}
    Upstream = {}
    MaxOther = 3
    None = "none"
INVARIANTS WaitingExact RequestsJustified
PROPERTIES KnownIsFetched
CHECK_DEADLOCK FALSE
