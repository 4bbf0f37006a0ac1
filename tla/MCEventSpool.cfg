SPECIFICATION FairSpec
CONSTANTS
    s1 = s1
    k1 = k1
    k2 = k2
    Slots <- OneSlot
    Sinks <- TwoSinks
    MaxBatch = 2
    EventRetention = 3
    EventMax = 1
    IncidentRetention = 1
    IncidentMax = 1
    MaxText = 4
    Texts <- CutTexts
    Horizons <- SafeHorizons
CHECK_DEADLOCK FALSE
INVARIANTS
    NothingLost
    OpenIncidentsKept
PROPERTIES
    FirstEvidenceKept
    SpoolDrains
