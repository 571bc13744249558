SPECIFICATION FairSpec
CONSTANTS
    Tx <- MCTx
    Announced = {"a"}
    Base = {"g"}
    Spends <- MCSpends
    Outputs <- MCOutputs
    Tips <- MCTips
    FinalAt <- MCFinalAt
    BadScript = {"c"}
    Big = {}
    Peers = {h, f}
    Honest = {h}
    Limit = 2
    MaxAsked = 1
    MaxMapAskFor = 1
    MaxSetAskFor = 1
    Retry = 1
INVARIANTS CacheExact RejectsJustified HonestAskedOnce
PROPERTIES OrphansResolved HonestSettled
