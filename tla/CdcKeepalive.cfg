\* Keepalives and a fast shutdown of PostgreSQL; one process life.
SPECIFICATION FairSpec
CONSTANTS
    NTxn = 2
    Lanes = {"a", "b", "c"}
    Tenants = {"x", "y"}
    TenantOf <- MCTenantOf
    Rows <- SmallRows
    CommitLsn <- SmallCommitLsn
    RingSize = 2
    MaxEvents = 1
    MaxRetries = 1
    Keepalives = {"plain", "reply"}
    SuspendedAtBoot = FALSE
    BootStamped = FALSE
    Supervised = FALSE
    MaxFaults = 1
    PgStops = 1
INVARIANTS AckedIsHeld ConfirmedIsPublished
PROPERTY PgStopCompletes
CHECK_DEADLOCK FALSE
