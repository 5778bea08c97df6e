SPECIFICATION FairSpec
CONSTANTS
    JsReads = {r1, r2}
    Callers = {c1}
    Requests <- MCRequests
    DeshredRequests <- MCDeshredRequests
    HighWaterMark = 2
    Capacity = 1
    MaxUpdates = 3
    MaxWrites = 2
INVARIANTS ConsumerSeesTheStream
PROPERTIES NobodyStranded
CHECK_DEADLOCK FALSE
