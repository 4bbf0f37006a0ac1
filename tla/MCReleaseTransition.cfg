SPECIFICATION FairSpec
CONSTANTS
    Callers = {p1, p2}
    Newest = 3
    Epoch <- OneMigration
    Compatible = {}
    Installed = {1, 3}
    Reconcilers = 1
    MaxTxns = 2
    MaxDeaths = 1
    MaxEdits = 1
    MaxDrifts = 1
CHECK_DEADLOCK FALSE
INVARIANTS
    LinksMatchJournal
    ActiveIsMigrated
    EvidenceSupportsJournal
PROPERTIES
    ConsentCoversEffects
    ReplacedJournalKept
    SettlesUnlessBlocked
