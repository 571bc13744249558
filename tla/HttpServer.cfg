SPECIFICATION FairSpec
CONSTANTS
    Workers = {w1, w2}
    Requests = {r1, r2, l1}
    LongPolls = {l1}
    MaxDepth = 2
    MaxBlocks = 1
    Main = main
    None = none
INVARIANTS QueueOutlivesWorkers AnsweredOnce
PROPERTIES ShutdownEnds QueuedIsServed
