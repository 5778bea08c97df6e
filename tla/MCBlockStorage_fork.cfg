SPECIFICATION Spec
CONSTANTS
    Slots <- MCSlots
    Parent <- MCParent
    Pubkeys = {a}
    MaxWriteVersion <- MCMaxWriteVersion
    TxnCount = 0
    EntryCount = 1
    ReplayedCapacity = 0
    MinimumFinalizedSlotToBuffer = 1
    MaxBanks <- MCMaxBanks
INVARIANTS FrozenBlockComplete FinalizedCountExact MinSlotExact ReadyInOrder NothingOutlivesItsBank
CHECK_DEADLOCK FALSE
