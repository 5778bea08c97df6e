SPECIFICATION Spec
CONSTANTS
    Requests = {"r1", "r2", "r3"}
    AuthKinds = {"cached", "direct", "file", "trusted", "none"}
    Host <- MCHost
    NoHost = "nohost"
    Headers <- MCHeaders
    ForwardedHeaders <- MCForwarded
    Infos <- MCInfos
    FileMappings <- MCFile
    TrustedRatelimits <- MCTrusted
    ConcurrentAuthLimit = 2
    MaxAttempts = 2
    Window = 2
    MaxHitsFallback = 1
    IdleTimeout = 2
    GcTick = 2
    NoRatelimits = NoRatelimits
    NotFound = NotFound
    LookupError = LookupError
    MaxClock = 3
    Configs <- MCConfigs
    NoXToken = "no_x_token"
    MethodOf <- MCMethodOf
INVARIANTS AuthPermitsExact JudgedByItself RateHolds
PROPERTIES EveryRequestAnswered
CHECK_DEADLOCK FALSE
