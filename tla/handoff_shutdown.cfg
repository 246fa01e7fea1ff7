SPECIFICATION Spec
CONSTANTS
    t1 = t1
    t2 = t2
    t3 = t3
    d1 = d1
    d2 = d2
    Threads = {t1}
    Destroyers = {d1, d2}
    MaxProducers = 1
    SlotsPerWord = 1
    Capacity = 2
    Singles <- NormalSingle
    SingleOwner <- FirstOwns
    MaxFlushes = 1
INVARIANTS PInv DrainedAtExit ShutdownOrder
PROPERTY ImplementsService
SYMMETRY DestroyerSymmetry
CHECK_DEADLOCK FALSE
