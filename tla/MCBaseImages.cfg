SPECIFICATION FairSpec
CONSTANTS
    Slots = {s1}
    Upstreams = {u1, u2}
    MaxBuilds = 2
    MaxLeases = 2
    MaxFaults = 2
    Failing <- Calls
CHECK_DEADLOCK FALSE
INVARIANTS
    InUseImageKept
    StagingAccounted
    CleanedMeansGone
PROPERTIES
    EvidenceBeforeDeletion
    CurrentBaseKept
    StagingReclaimed
