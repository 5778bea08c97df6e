SPECIFICATION FairPluginSpec
CONSTANTS
    s1 = s1
    Sessions = {s1}
    Keys = {"a"}
    Limit = 1
    LimitEnforce = TRUE
    Capacity = 1
    MaxRequests = 2
    MaxGossip = 1
    Accounts <- MCAccounts
    OwnerReject = {1}
    SnapshotCapacity = 1
INVARIANTS PermitsExact LagIsReported
PROPERTIES SnapshotWhole NoZombieSession ShutdownDrains ValidatorReleased
CHECK_DEADLOCK FALSE
