SPECIFICATION FairSpec
CONSTANTS
    Clients = {p1, p2}
    SyncWorker = sync
    TTLWorker = ttl
    Compactor = compactor
    Periodic = TRUE
    None = None
CHECK_DEADLOCK FALSE
PROPERTY CloseReturns
