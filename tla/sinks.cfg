SPECIFICATION LiveSpec
CONSTANTS
    n1 = n1
    n2 = n2
    custom = custom
    mainFile = mainFile
    libFile = libFile
    nullFile = nullFile
    Names = {n1, n2}
    Confs <- SomeConfs
    CustomSinks = {custom}
    SourceOf <- Sources
    NullFile = nullFile
    PathOf <- Paths
    LineSize = 2
    MaxCustom = 2
    MaxRecords = 3
INVARIANTS TargetIntact FlushReachesAll CustomSeesAll BasenameFresh SinksInv
PROPERTY FlushAnswered
CHECK_DEADLOCK FALSE
