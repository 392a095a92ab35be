\* Four events, one loss, one failed statement.
SPECIFICATION Spec
CONSTANTS
    Transactions <- MCTransactions
    RowIds = {1, 2}
    MaxEvents = 4
    MaxLosses = 1
    MaxFaults = 1
INVARIANT TypeOK
INVARIANT ClientsAreTold
INVARIANT CountedDropsAreReseeded
CHECK_DEADLOCK FALSE
