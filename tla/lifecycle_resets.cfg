SPECIFICATION Spec
CONSTANTS
    t1 = t1
    t2 = t2
    t3 = t3
    n1 = n1
    n2 = n2
    c1 = c1
    c2 = c2
    Threads = {t1, t2}
    Names = {n1}
    ProducerOf <- Kinds
    Configs = {c1, c2}
    MaxStates = 2
    MaxFlushes = 1
    StartFails = FALSE
SYMMETRY ThreadSymmetry
INVARIANTS InertUnlessRunning RunningIsServed OneConsumer LifecycleInv
PROPERTY RetiredUntouched
