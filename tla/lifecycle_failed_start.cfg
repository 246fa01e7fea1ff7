SPECIFICATION Spec
CONSTANTS
    t1 = t1
    t2 = t2
    t3 = t3
    n1 = n1
    n2 = n2
    c1 = c1
    c2 = c2
    Threads = {t1}
    Names = {n1}
    ProducerOf <- Kinds
    Configs = {c1}
    MaxStates = 1
    MaxFlushes = 0
    StartFails = TRUE
INVARIANT InertUnlessRunning
