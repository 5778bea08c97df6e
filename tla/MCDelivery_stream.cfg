SPECIFICATION Spec
CONSTANTS
    Slots = {1, 2}
    Data = {1}
    ClientLevels = {1, 2}
    FromSlots = {0, 1}
    MaxBatch = 2
    RingCapacity = 3
    NotifiedLevels = {2, 3}
    ReplayedCapacity = 0
    MinimumFinalizedSlotToBuffer = 1
    MaxQueue = 1
INVARIANTS ContentThenBlockThenStatus ReplayNoGap NothingMissed
CHECK_DEADLOCK FALSE
