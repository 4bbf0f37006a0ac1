SPECIFICATION Spec
CONSTANTS
    Tokens = {t1, t2}
    NoToken = NoToken
    Images = {i1}
    NoImage = NoImage
    MaxSize = 2
    TTL = 1
    Used = 1
    MaxFaults = 1
    MaxOps = 1
SYMMETRY TokenSymmetry
INVARIANTS
    ReleasedTokenStaysOut
    RuntimesAreRecorded
    RuntimeFilesAreStable
PROPERTIES
    EndsOnlyForCause
    PoolKeepsLeaseContract
