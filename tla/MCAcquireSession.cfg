SPECIFICATION FairSpec
CONSTANTS
    MaxPipe = 2
CHECK_DEADLOCK FALSE
INVARIANTS
    UsedLeaseIsHandedOff
    NoAbandonedLease
PROPERTIES
    HandedOverOrReclaimed
    SessionEnds
