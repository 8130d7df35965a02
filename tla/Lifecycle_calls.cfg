SPECIFICATION FairSpec
CONSTANTS
    Clients = {p1, p2}
    SyncWorker = sync
    TTLWorker = ttl
    Compactor = compactor
    Periodic = FALSE
    None = None
CHECK_DEADLOCK FALSE
INVARIANTS
    ClosedForGood
    Safe
PROPERTY
    Progress
