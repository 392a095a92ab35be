\* A requested reply before anything was acknowledged.
SPECIFICATION Spec
CONSTANTS
    NTxn = 2
    Lanes = {"a", "b", "c"}
    Tenants = {"x", "y"}
    TenantOf <- MCTenantOf
    Rows <- MCRows
    CommitLsn <- MCCommitLsn
    RingSize = 3
    MaxEvents = 2
    MaxRetries = 1
    Keepalives = {"reply"}
    SuspendedAtBoot = FALSE
    BootStamped = FALSE
    Supervised = TRUE
    MaxFaults = 1
    PgStops = 0
INVARIANT AckedIsPublished
