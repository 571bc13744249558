SPECIFICATION FairSpec
CONSTANTS
    Blocks <- MCShortChain
    Genesis = "G"
    Parent <- MCParent
    Anc <- MCAnc
    Height <- MCHeight
    Peers = {"p", "q"}
    Preferred = {"p", "q"}
    Honest = {"p"}
    RecentHeight = 2
    MaxBehind = 0
    MaxInTransit = 1
    Window = 1
    None = "none"
PROPERTY EventuallySynced
CHECK_DEADLOCK FALSE
