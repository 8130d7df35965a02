SPECIFICATION CodecSpec
CONSTANTS
    Half = 8
    MaxVarintLen = 3
    TimeBytes = 1
    MaxAlloc = 10
    Logs <- MCLogs
    Later <- MCLater
    Snapshots <- MCSnapshots
    Tails <- MCTails
    ChecksumBytes = {0, 9}
CHECK_DEADLOCK FALSE
INVARIANTS
    TypeOK
    TornTail
    NothingInvented
    SnapshotWhole
