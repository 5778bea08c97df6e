SPECIFICATION CuckooSpec
CONSTANTS
    Items = {a, b, c}
    MaxCapacity = 3
    EntriesPerBucket = 2
    LoadPercent = 95
    HashBits = {0, 258}
    MaxKicks = 2
    DefaultHashSeed = 1
    RequestMaps = {"accounts", "transactions"}
    MaxAge = 4
    MaxWire = 1
    BitXor <- MCXor
SYMMETRY MCSymmetry
INVARIANTS NoFalseNegatives CleanIsSent
