SPECIFICATION Spec
CONSTANTS
    Threads = {"a", "b"}
    LineSize = 2
    MaxLines = 2
INVARIANT LinesWhole
CHECK_DEADLOCK FALSE
