SPECIFICATION FairSpec
CONSTANTS
    r1 = r1
    r2 = r2
    w1 = w1
    w2 = w2
    Threads = {r1, w1, w2}
    Ops <- TwoWritersOps
    Rounds = 1
    UsizeMax = 15
PROPERTY
    EveryCallReturns
