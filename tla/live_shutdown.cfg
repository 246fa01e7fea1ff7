SPECIFICATION LiveSpec
CONSTANTS
    t1 = t1
    t2 = t2
    t3 = t3
    d1 = d1
    d2 = d2
    Threads = {t1}
    Destroyers = {d1}
    MaxProducers = 1
    SlotsPerWord = 1
    Capacity = 1
    Singles <- NormalSingle
    SingleOwner <- FirstOwns
    MaxFlushes = 1
PROPERTIES NoStarvation SlotsRecycled DestroyEnds
CHECK_DEADLOCK FALSE
