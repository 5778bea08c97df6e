SPECIFICATION FairResumeSpec
CONSTANTS
    Slots = {1, 2, 3}
    StoredBefore = {1}
    Data = {1, 2}
    Nodes = {1}
    UserKinds = {"created", "status"}
    Policies = {"none", "skip", "recover"}
    UserMeta = {"own", "absent"}
    CheckpointSlotBuffer = 1
    SlotRetention = 9
    MaxRetries = 1
    Codes = {"Unavailable", "InvalidArgument"}
    MaxDisorder = 1
    SlowReplay = FALSE
    Window = 2
    MaxReconnects = 2
    MaxSends = 1
INVARIANTS NoDuplicates NothingLost LatestRequestInForce
PROPERTIES EventuallyDelivered
CHECK_DEADLOCK FALSE
