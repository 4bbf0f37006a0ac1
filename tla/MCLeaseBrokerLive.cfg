SPECIFICATION FairBrokerSpec
CONSTANTS
    Slots = {s1}
    Guests = {v1, v2}
    MaxWaiting = 1
    MaxLeases = 1
    LeaseTTL = 1
    ProvisioningTTL = 1
    RecoveryDelays <- OneDelay
PROPERTY ImplementsDisposableLease
