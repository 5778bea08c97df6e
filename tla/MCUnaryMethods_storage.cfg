CONSTANTS
    Slots <- MCSlots
    Asked <- MCAsked
    MaxBanks <- MCMaxBanks
    MaxQueue = 1
    Callers = {c1}
    KeepSlots = 0
    MaxRecent = 1
    UnaryConcurrencyLimit = 1
    NoSlot = NoSlot
SPECIFICATION Spec
INVARIANTS WindowsExact AnswersAreTrue
CHECK_DEADLOCK FALSE
