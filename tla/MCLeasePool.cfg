SPECIFICATION PoolSpec
CONSTANTS
    MaxSlots = 2
    PoolLeases = 2
    LeaseTTL = 1
    ProvisioningTTL = 1
    RecoveryDelays <- OneDelay
    FaultSets <- SingleFaults
INVARIANTS
    TornWriteIsAtomic
PROPERTIES
    RecoveryNotForgotten
    ShrinkDropsNoLease
