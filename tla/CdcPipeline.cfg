\* Acknowledgements of confirmed positions only; crashes, losses, outages.
SPECIFICATION RecoveringSpec
CONSTANTS
    NTxn = 2
    Lanes = {"a", "b", "c"}
    Tenants = {"x", "y"}
    TenantOf <- MCTenantOf
    Rows <- MCRows
    CommitLsn <- MCCommitLsn
    RingSize = 2
    MaxEvents = 2
    MaxRetries = 0
    Keepalives = {}
    SuspendedAtBoot = FALSE
    BootStamped = FALSE
    Supervised = TRUE
    MaxFaults = 2
    PgStops = 0
INVARIANTS TypeOK AckedIsPublished LaneHasNoHole

PROPERTY Delivered
