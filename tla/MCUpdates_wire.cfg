SPECIFICATION Spec
CONSTANTS
    Subscribers = {"s1", "s2"}
    Requests <- MCRequests
    Changes <- MCChanges
    Notifications <- MCNotifications
    Ids = {1, 2, 3, 4, 5}
    PingIds = {3}
    BitsPerWord = 2
    WordBytes = 1
    MaxBitsetBytes = 4
    DirectScanLimit = 1
    MaxFilters = 3
    MaxDataSize = 2
    TokenAccountData <- MCTokenData
    Limits <- MCLimits
    BadKeys = {9}
    BadSignatures = {98}
    U64 = 8
    LongNames = {99}
    Levels = {"processed", "confirmed", "finalized"}
INVARIANTS WireIsProto MatchersAgree ClientReadsBack
CHECK_DEADLOCK FALSE
