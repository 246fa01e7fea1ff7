SPECIFICATION Spec
CONSTANTS
    Setups <- AllSetups
    Levels = {2}
    Off = 6
    QueueSize = 1
    MarkerSize = 2
    Offset = 10
    Steps = {1, 61005, 3723004}
    MaxCalls = 2
    MaxTicks = 1
INVARIANTS RecordPathInv CompileExact ScansAgree OptionsOrderFree MessageExact StatsAddUp RouteShowsTime ElapsedWellFormed
