SPECIFICATION CoinsSpec
CONSTANTS
    Txids = {t1, t2}
    Outs = {o1, o2}
    Hashes = {h1, h2}
    NullHash = null
INVARIANTS
    FlagsTruthful
PROPERTIES
    BehavesAsMap
