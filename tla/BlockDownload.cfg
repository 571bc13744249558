SPECIFICATION Spec
CONSTANTS
    Blocks <- MCFork
    Genesis = "G"
    Parent <- MCParent
    Anc <- MCAnc
    Height <- MCHeight
    Peers = {"p", "q"}
    Preferred = {"p"}
    Honest = {}
    RecentHeight = 1
    MaxBehind = 0
    MaxInTransit = 2
    Window = 1
    None = "none"
INVARIANTS RequestsExact StallerOwesBlock
CHECK_DEADLOCK FALSE
