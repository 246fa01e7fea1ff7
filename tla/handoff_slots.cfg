SPECIFICATION Spec
CONSTANTS
    t1 = t1
    t2 = t2
    t3 = t3
    d1 = d1
    d2 = d2
    Threads = {t1, t2}
    Destroyers = {}
    MaxProducers = 2
    SlotsPerWord = 1
    Capacity = 2
    Singles <- NoSingles
    SingleOwner <- NoOwner
    MaxFlushes = 0
SYMMETRY ThreadSymmetry
INVARIANTS TypeOK SingleProducer FreeListExact NoStrandedQueue NoLostWakeup
