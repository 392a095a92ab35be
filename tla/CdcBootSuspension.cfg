\* A table refused at boot, with a backlog behind the slot.
SPECIFICATION Spec
CONSTANTS
    NTxn = 2
    Lanes = {"a", "b", "c"}
    Tenants = {"x", "y"}
    TenantOf <- MCTenantOf
    Rows <- MCRows
    CommitLsn <- MCCommitLsn
    RingSize = 3
    MaxEvents = 2
    MaxRetries = 1
    Keepalives = {}
    SuspendedAtBoot = TRUE
    BootStamped = TRUE
    Supervised = TRUE
    MaxFaults = 1
    PgStops = 0
INVARIANT AckedIsPublished
