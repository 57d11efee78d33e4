CONSTANTS
    Writers = {"w1", "w2"}
    Buffers = 3
SPECIFICATION Spec
INVARIANT ClearMeansIdle
CHECK_DEADLOCK FALSE
