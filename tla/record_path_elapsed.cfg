SPECIFICATION Spec
CONSTANTS
    Setups <- CustomAlone
    Levels = {2}
    Off = 6
    QueueSize = 1
    MarkerSize = 2
    Offset = 10
    Steps = {1}
    MaxCalls = 1
    MaxTicks = 1
INVARIANT ElapsedFromCreation
