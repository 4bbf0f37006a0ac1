SPECIFICATION FairSpec
CONSTANTS
    Callers = {p1}
    Newest = 3
    Epoch <- OneMigration
    Compatible = {}
    Installed = {1}
    Reconcilers = 1
    MaxTxns = 2
    MaxDeaths = 1
    MaxEdits = 0
    MaxDrifts = 1
CHECK_DEADLOCK FALSE
PROPERTY UnfinishedSettles
