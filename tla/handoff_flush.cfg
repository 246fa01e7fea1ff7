SPECIFICATION LiveSpec
CONSTANTS
    t1 = t1
    t2 = t2
    t3 = t3
    d1 = d1
    d2 = d2
    Threads = {t1, t2}
    Destroyers = {}
    MaxProducers = 1
    SlotsPerWord = 1
    Capacity = 1
    Singles <- NoSingles
    SingleOwner <- NoOwner
    MaxFlushes = 2
INVARIANTS FlushInv FlushDurable FlushReclaims
PROPERTY FlushReturns
