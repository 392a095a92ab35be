\* No loss and no fault: a table is suspended by one row and lifted by the next.
SPECIFICATION Spec
CONSTANTS
    Transactions <- MCTransactions
    RowIds = {1, 2}
    MaxEvents = 3
    MaxLosses = 0
    MaxFaults = 0
INVARIANT LiftIsAReseed
CHECK_DEADLOCK FALSE
