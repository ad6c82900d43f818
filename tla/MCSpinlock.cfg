SPECIFICATION FairSpec
CONSTANTS
    r1 = r1
    r2 = r2
    w1 = w1
    w2 = w2
    Threads = {r1, r2, w1}
    Ops <- OneWriterOps
    Rounds = 2
    UsizeMax = 15
INVARIANTS
    Exclusion
    StateCountsHolders
    ParkedWriterIsWoken
PROPERTY
    EveryCallReturns
