CONSTANTS
    Requests = {r1, r2}
    Callers <- MCCallers
    FrameSizes <- MCFrameSizes
    MaxBytes = 3
    Threshold = 2
    FlushEvents = 2
SPECIFICATION MeteringSpec
INVARIANTS EveryByteAccounted
PROPERTIES EventuallySettled
CHECK_DEADLOCK FALSE
