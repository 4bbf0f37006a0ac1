SPECIFICATION Spec
CONSTANTS
    Slots = {s1, s2}
    MaxLeases = 2
    LeaseTTL = 1
    ProvisioningTTL = 1
    RecoveryDelays <- OneDelay
SYMMETRY Symmetry
INVARIANTS
    ExpectedHitsPlannedLease
    FenceCoversLiveLeases
    IdentityNamesOneLease
PROPERTIES
    NoRevival
    StaleLeaseOnlyDrains
    HandsOverThroughAvailable
