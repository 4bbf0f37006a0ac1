SPECIFICATION BrokerSpec
CONSTANTS
    Slots = {s1}
    Guests = {v1}
    MaxWaiting = 1
    MaxLeases = 2
    LeaseTTL = 1
    ProvisioningTTL = 1
    RecoveryDelays <- OneDelay
INVARIANTS
    AvailableIsClean
    MachinesBelongToLease
    CleansOnlyRevoked
